------------------------ MODULE ContainerPoolCustody ------------------------
(* That no retirement takes down what is held, that none is under way on a *)
(* container in which a run is executing, and that a run's hours are       *)
(* metered, for any number of runs and containers: the invariants Held,    *)
(* over what is about to be taken down, Custody, over what is claimed and  *)
(* about to be destroyed, and on top of it Metered, over who may close an  *)
(* interval; their preservation by every step, and the three theorems.     *)
EXTENDS ContainerPoolExclusion

(* A trespass: a statement of the container-sync cron, or of an operator's *)
(* Remove, neither of which takes the lifecycle lock for it, changes the   *)
(* row of a member a run holds, or makes one idle whose stop or removal is *)
(* being waited for.                                                       *)
Trespass ==
    /\ Exec(Watch) \/ Exec(Operator)
    /\ \E c \in Containers :
          /\ row'[c] # row[c]
          /\ \/ \E r \in Runs : Claimer(r) /\ at[r] = c
             \/ row'[c] = "idle" /\ tracked[c] # "none"

LEMMA LateTrespass == LateWrite => Trespass
BY DEF LateWrite, Trespass

(* A member about to be destroyed is not claimed,                          *)
Condemned ==
    \A a \in Actors, c \in Containers : todo[a] = Destroy(c) => row[c] # "busy"

(* and a container about to be adopted has no member yet.                  *)
Joining ==
    \A a \in Actors : \A x \in Of(todo[a]) : x.op = "adoptUnpooled" =>
        todo[a] = <<x>> /\ row[x.c] = "none"

(* So a claim stands until its holder releases it.                         *)
Standing == \A r \in Runs : Claimer(r) => row[at[r]] = "busy"

(* A removal is of a container the pool has let go of for good.            *)
Buried ==
    \A c \in Containers : pc[Removal(c)] # "off" \/ todo[Removal(c)] # <<>> => Dead(c)

Custody == Condemned /\ Joining /\ Standing /\ Buried

(* What is held is not about to be taken down.                             *)
Held ==
    \A a \in Actors : \A x \in Of(todo[a]) :
        x.op \in {"beginStop", "beginRemoval"} => x.c \notin holds

LEMMA CustodyFollows ==
  TypeInv /\ Exclusion /\ Custody => RetirementSparesRuns
<1> SUFFICES ASSUME TypeInv, Exclusion, Custody PROVE RetirementSparesRuns
  OBVIOUS
<1>1. serving \subseteq Runs
  BY DEF TypeInv, World
<1>2. ASSUME NEW r \in serving PROVE row[at[r]] = "busy"
  BY <1>1 DEF Exclusion, Serving, Claimer, Custody, Standing
<1>3. ASSUME NEW c \in Containers, pc[Stop(c)] = "calling" \/ pc[Removal(c)] = "calling"
      PROVE  \A r \in serving : at[r] # c
  <2>1. row[c] # "busy"
    <3>1. CASE pc[Stop(c)] = "calling"
      BY <3>1 DEF Exclusion, Withheld
    <3>2. CASE pc[Removal(c)] = "calling"
      BY <3>2 DEF Custody, Buried, Dead
    <3>3. QED
      BY <1>3, <3>1, <3>2
  <2>2. QED
    BY <1>2, <2>1
<1>4. QED
  BY <1>3 DEF RetirementSparesRuns

-----------------------------------------------------------------------------
(* Statements                                                              *)

(* A list to destroy a member is not made by executing statements.         *)
LEMMA ExecDestroys ==
  ASSUME TypeInv, Discipline, NEW a \in Actors, Exec(a), NEW b \in Actors, NEW c \in Containers,
         todo'[b] = Destroy(c)
  PROVE  todo[b] = Destroy(c)
<1>1. Of(Destroy(c)) = {St("delete", c), St("unname", c), St("beginRemoval", c)}
  BY OfThree DEF Destroy
<1>2. PICK x, y : x = St("beginRemoval", c) /\ y = St("delete", c)
  OBVIOUS
<1>3. x.op = "beginRemoval" /\ x.c = c /\ y.op = "delete"
  BY <1>2, StIs
<1>4. x \in Of(todo'[b]) /\ y \in Of(todo'[b])
  BY <1>1, <1>2
<1>5. x \in Of(todo[b]) /\ y \in Of(todo[b])
  BY <1>3, <1>4, ExecOld
<1>6. todo[b] = Destroy(c) \/ todo[b] = <<St("unname", c), x>> \/ todo[b] = <<x>>
  BY <1>3, <1>5 DEF Discipline, Own, Mine
<1>7. todo[b] # <<x>>
  BY <1>3, <1>5, OfOne
<1>8. todo[b] # <<St("unname", c), x>>
  <2>1. y # St("unname", c) /\ y # x
    BY <1>3, StIs
  <2>2. Of(<<St("unname", c), x>>) = {St("unname", c), x}
    BY OfTwo
  <2>3. QED
    BY <1>5, <2>1, <2>2
<1>9. QED
  BY <1>6, <1>7, <1>8

LEMMA ExecCondemned ==
  ASSUME TypeInv, Discipline, Condemned, NEW a \in Actors, Exec(a)
  PROVE  Condemned'
<1> SUFFICES ASSUME NEW b \in Actors, NEW c \in Containers, todo'[b] = Destroy(c)
             PROVE  row'[c] # "busy"
  BY DEF Condemned
<1>1. todo[b] = Destroy(c)
  BY ExecDestroys
<1>2. QED
  BY <1>1, ExecClaims DEF Condemned

(* What follows a statement that was the last of its list.                 *)
LEMMA ExecLast ==
  ASSUME TypeInv, Discipline, NEW a \in Actors, Exec(a), NEW x, todo[a] = <<x>>
  PROVE  \/ todo'[a] = <<>>
         \/ todo'[a] = <<St("open", x.c)>> /\ x.op \in Writes \union {"release", "markRunning"}
         \/ todo'[a] = <<St("close", x.c)>> /\ x.op \in Writes \union {"unclaim"}
<1>1. x = Head(todo[a]) /\ Tail(todo[a]) = <<>>
  OBVIOUS
<1>3. PICK more : /\ Done(a, more)
                  /\ \/ more = <<>>
                     \/ more = <<St("open", x.c)>> /\ x.op \in Writes \union {"release", "markRunning"}
                     \/ more = <<St("close", x.c)>> /\ x.op \in Writes \union {"unclaim"}
  BY <1>1, ExecList
<1>4. todo'[a] = more \o <<>>
  BY <1>1, <1>3 DEF Done, TypeInv, Todos
<1>5. \A z : <<z>> \o <<>> = <<z>>
  OBVIOUS
<1>6. <<>> \o <<>> = <<>>
  OBVIOUS
<1>7. todo'[a] = more
  BY <1>3, <1>4, <1>5, <1>6
<1>8. QED
  BY <1>3, <1>7

LEMMA ExecJoining ==
  ASSUME TypeInv, Discipline, Joining, NEW a \in Actors, Exec(a)
  PROVE  Joining'
<1> SUFFICES ASSUME NEW b \in Actors, NEW y \in Of(todo'[b]), y.op = "adoptUnpooled"
             PROVE  todo'[b] = <<y>> /\ row'[y.c] = "none"
  BY DEF Joining
<1>1. PICK x : x = Head(todo[a])
  OBVIOUS
<1>2. x \in Of(todo[a]) /\ x.c \in Containers /\ \A d \in Actors : d # a => todo'[d] = todo[d]
  BY <1>1, ExecBy
<1>3. y \in Of(todo[b]) /\ y.c \in Containers
  BY ExecOld, AheadTyped
<1>4. todo[b] = <<y>> /\ row[y.c] = "none"
  BY <1>3 DEF Joining
<1>5. CASE a # b
  <2>1. lock = b
    BY <1>3, ExecSeat
  <2>2. x.op \notin {"upsert", "adoptUnpooled"}
    BY <1>2, <1>5, <2>1, ExecSeat
  <2>3. row'[y.c] = "none"
    BY <1>1, <1>3, <1>4, <2>2, ExecRow
  <2>4. QED
    BY <1>2, <1>4, <1>5, <2>3
<1>6. CASE a = b
  <2>1. todo'[a] = <<>> \/ todo'[a] = <<St("open", y.c)>> \/ todo'[a] = <<St("close", y.c)>>
    BY <1>4, <1>6, ExecLast
  <2>2. y = St("open", y.c) \/ y = St("close", y.c)
    <3>1. CASE todo'[a] = <<>>
      BY <1>6, <3>1, OfNone
    <3>2. CASE todo'[a] = <<St("open", y.c)>>
      BY <1>6, <3>2, OfOne
    <3>3. CASE todo'[a] = <<St("close", y.c)>>
      BY <1>6, <3>3, OfOne
    <3>4. QED
      BY <2>1, <3>1, <3>2, <3>3
  <2>3. QED
    BY <2>2, StIs
<1>7. QED
  BY <1>5, <1>6

(* A run that has released has no claim.                                   *)
LEMMA Released ==
  ASSUME TypeInv, Discipline, NEW a \in Actors, Exec(a), NEW x, x = Head(todo[a]),
         x.op = "release", NEW r \in Runs, a = Run(r)
  PROVE  ~Claimer(r)'
<1>1. todo[a] = <<x>> /\ pc[a] = "ending" /\ pc'[a] = pc[a]
  BY ExecBy DEF Mine, ByRun
<1>2. todo'[a] = <<>> \/ todo'[a] = <<St("open", x.c)>>
  BY <1>1, ExecLast DEF Writes
<1>3. ASSUME NEW y \in Of(todo'[a]) PROVE y.op # "release"
  <2>1. y = St("open", x.c)
    BY <1>2, <1>3, OfNone, OfOne, ZenonT(60)
  <2>2. QED
    BY <2>1, StIs
<1>4. QED
  BY <1>1, <1>3 DEF Claimer

LEMMA ExecStanding ==
  ASSUME TypeInv, Discipline, Exclusion, Condemned, Joining, Standing,
         NEW a \in Actors, Exec(a), ~Trespass
  PROVE  Standing'
<1> SUFFICES ASSUME NEW r \in Runs, Claimer(r)' PROVE row'[at'[r]] = "busy"
  BY DEF Standing
<1>1. PICK x : x = Head(todo[a])
  OBVIOUS
<1>2. x \in Of(todo[a]) /\ Mine(a, x) /\ x.c \in Containers /\ at' = at
  BY <1>1, ExecBy
<1>3. Claimer(r)
  BY ExecClaimer
<1>4. at[r] \in Containers /\ row[at[r]] = "busy"
  BY <1>3, ClaimerAt DEF Standing
<1>5. CASE x.c # at[r]
  BY <1>1, <1>2, <1>4, <1>5, ExecRow
<1>6. CASE a \in {Watch, Operator}
  BY <1>2, <1>3, <1>4, <1>6 DEF Trespass
<1>7. CASE x.c = at[r] /\ a \notin {Watch, Operator}
  <2>1. ~ByRun(a, x.c, {"claim", "retry", "failed"}) /\ ~ByRun(a, x.c, {"start", "setup", "claim"})
        /\ ~ByRun(a, x.c, {"retry"})
    BY <1>2, <1>3, <1>7, ExecAlone
  <2>2. x.op # "set"
    <3>1. ASSUME x.op = "set" PROVE FALSE
      <4>1. a = Stop(x.c) /\ todo[a] # <<>>
        BY <1>2, <1>7, <2>1, <3>1, OfNone DEF Mine
      <4>2. QED
        BY <1>2, <1>4, <1>7, <4>1 DEF Exclusion, Withheld
    <3>2. QED
      BY <3>1
  <2>3. x.op # "upsert"
    BY <1>2, <2>1 DEF Mine
  <2>4. x.op # "adoptUnpooled"
    BY <1>2, <1>4, <1>7 DEF Joining
  <2>5. x.op # "delete"
    <3>1. ASSUME x.op = "delete" PROVE FALSE
      <4>1. todo[a] = Destroy(x.c)
        BY <1>2, <1>7, <2>1, <3>1, OfNone DEF Mine
      <4>2. QED
        BY <1>2, <1>4, <1>7, <4>1 DEF Condemned
    <3>2. QED
      BY <3>1
  <2>6. x.op # "release"
    <3>1. ASSUME x.op = "release" PROVE FALSE
      <4>1. PICK s \in Runs : a = Run(s) /\ x.c = at[s] /\ pc[a] = "ending"
        BY <1>2, <3>1 DEF Mine, ByRun
      <4>2. Claimer(s)
        BY <1>2, <3>1, <4>1 DEF Claimer
      <4>3. s = r
        BY <1>3, <1>7, <4>1, <4>2 DEF Exclusion, Lone
      <4>4. QED
        BY <1>1, <3>1, <4>1, <4>3, Released
    <3>2. QED
      BY <3>1
  <2>7. x.op # "unclaim"
    BY <1>2, <1>7 DEF Mine
  <2>8. row'[x.c] = row[x.c]
    BY <1>1, <1>4, <1>7, <2>2, <2>3, <2>4, <2>5, <2>6, <2>7, ExecRow
  <2>9. QED
    BY <1>2, <1>4, <1>7, <2>8
<1>8. QED
  BY <1>5, <1>6, <1>7

LEMMA ExecBuried ==
  ASSUME TypeInv, Discipline, Used, Exclusion, Buried, NEW a \in Actors, Exec(a)
  PROVE  Buried'
<1> SUFFICES ASSUME NEW c \in Containers, pc'[Removal(c)] # "off" \/ todo'[Removal(c)] # <<>>
             PROVE  Dead(c)'
  BY DEF Buried
<1>1. PICK x : x = Head(todo[a])
  OBVIOUS
<1>2. /\ x \in Of(todo[a]) /\ x.c \in Containers /\ todo[a] # <<>>
      /\ \A d \in Actors : d # a => todo'[d] = todo[d]
  BY <1>1, ExecBy
<1>3. Dead(c)
  <2>1. CASE x.op = "beginRemoval" /\ x.c = c
    BY <1>1, <2>1, RemovalDead DEF Exclusion
  <2>2. CASE ~(x.op = "beginRemoval" /\ x.c = c)
    <3>1. pc'[Removal(c)] = pc[Removal(c)]
      BY <1>1, <1>2, <2>2, ExecRow, ActorsDiffer DEF TypeInv, Places
    <3>2. todo'[Removal(c)] # <<>> => todo[Removal(c)] # <<>>
      BY <1>2, ActorsDiffer
    <3>3. QED
      BY <3>1, <3>2 DEF Buried
  <2>3. QED
    BY <2>1, <2>2
<1>4. QED
  BY <1>3, DeadStays DEF Next

LEMMA ExecCustody ==
  ASSUME TypeInv, Discipline, Used, Exclusion, Custody, NEW a \in Actors, Exec(a), ~Trespass
  PROVE  Custody'
BY ExecCondemned, ExecJoining, ExecStanding, ExecBuried DEF Custody

LEMMA ExecHeld ==
  ASSUME TypeInv, Discipline, Held, NEW a \in Actors, Exec(a)
  PROVE  Held'
<1> SUFFICES ASSUME NEW b \in Actors, NEW y \in Of(todo'[b]), y.op \in {"beginStop", "beginRemoval"}
             PROVE  y.c \notin holds'
  BY DEF Held
<1>1. holds' = holds
  BY DEF Exec
<1>2. y \in Of(todo[b])
  BY ExecOld
<1>3. QED
  BY <1>1, <1>2 DEF Held

-----------------------------------------------------------------------------
(* Runs                                                                    *)

(* The only row a run's step writes is the one it claims, in the lock.     *)
LEMMA RunRows ==
  ASSUME TypeInv, Discipline, NEW r \in Runs, RunStep(r), NEW c \in Containers
  PROVE  \/ row'[c] = row[c]
         \/ Claims(r) /\ c = at[r] /\ row[c] = "idle" /\ lock = Run(r)
<1>1. Turn(r)
  BY RunTurn
<1>2. row \in [Containers -> RowState]
  BY DEF TypeInv, Tables
<1>3. Claims(r) => lock = Run(r)
  BY DEF Claims, Moves, Discipline, Seats, Inside, Climb
<1>4. QED
  BY <1>1, <1>2, <1>3 DEF Turn, Claims

LEMMA RunCondemned ==
  ASSUME TypeInv, Discipline, Condemned, NEW r \in Runs, RunStep(r)
  PROVE  Condemned'
<1> SUFFICES ASSUME NEW b \in Actors, NEW c \in Containers, todo'[b] = Destroy(c)
             PROVE  row'[c] # "busy"
  BY DEF Condemned
<1>1. PICK x : x = St("beginRemoval", c)
  OBVIOUS
<1>2. x.op = "beginRemoval" /\ x.c = c /\ x \in Of(todo'[b])
  BY <1>1, StIs, OfThree DEF Destroy
<1>3. CASE b = Run(r)
  <2>1. Replaces(b, x)
    BY <1>2, <1>3, RunAhead DEF Adopts
  <2>2. row[c] # "busy"
    BY <1>2, <2>1 DEF Replaces
  <2>3. Mine(b, x)'
    BY <1>2, <1>3, RunDiscipline DEF Discipline, Own
  <2>4. pc'[b] = "retry"
    BY <1>2, <1>3, <2>3, ActorsDiffer, PassesDiffer DEF Mine, Retires
  <2>5. QED
    BY <1>3, <2>2, <2>4, RunRows DEF Claims, Moves
<1>4. CASE b # Run(r)
  <2>1. todo[b] = Destroy(c)
    BY <1>4, RunLists
  <2>2. lock = b
    BY <1>2, <2>1, ExecSeat
  <2>3. QED
    BY <1>4, <2>1, <2>2, RunRows DEF Condemned
<1>5. QED
  BY <1>3, <1>4

(* A run that is deciding has just entered the ladder.                     *)
LEMMA RunEnters ==
  ASSUME TypeInv, NEW r \in Runs, RunStep(r), pc'[Run(r)] = "decide"
  PROVE  todo'[Run(r)] = <<>> \/ \E y : todo'[Run(r)] = <<y>> /\ y.op = "adoptUnpooled"
<1>1. Run(r) \in Actors
  BY ActorsDiffer
<1>2. CASE EnterLadder(r)
  <2>1. todo'[Run(r)] = <<>> \/ todo'[Run(r)] = AdoptUnpooled
    BY <1>1, <1>2, GotoLeaves DEF EnterLadder
  <2>2. AdoptUnpooled = <<>> \/ \E to : AdoptUnpooled = <<StTo("adoptUnpooled", named, to)>>
    BY DEF AdoptUnpooled
  <2>3. QED
    BY <2>1, <2>2, StToIs
<1>3. CASE ~EnterLadder(r)
  <2>1. CASE CreateFails(r)
    BY <1>1, <2>1, ActorsDiffer DEF CreateFails, TypeInv, Places
  <2>2. CASE ~CreateFails(r)
    <3>1. \E p \in {"inspect", "resume", "request", "retry", "failed", "claim", "creating", "start",
                    "setup", "claimed", "working", "again", "new", "running", "ending"} :
             \E q : Goto(Run(r), p, q)
      BY <1>3, <2>2 DEF RunStep, Decide, Inspect, Resume, RequestCreate, CreateAnswers, StartCreated,
         SetUp, ProvisionFails, Claim, LeaveLadder, Attribute, End, Ended
    <3>2. QED
      BY <1>1, <3>1, GotoLeaves
  <2>3. QED
    BY <2>1, <2>2
<1>4. QED
  BY <1>2, <1>3

LEMMA RunJoining ==
  ASSUME TypeInv, Discipline, Joining, NEW r \in Runs, RunStep(r)
  PROVE  Joining'
<1> SUFFICES ASSUME NEW b \in Actors, NEW x \in Of(todo'[b]), x.op = "adoptUnpooled"
             PROVE  todo'[b] = <<x>> /\ row'[x.c] = "none"
  BY DEF Joining
<1>1. CASE b = Run(r)
  <2>1. x.c \in Containers /\ row[x.c] = "none"
    BY <1>1, RunAhead DEF Adopts, Replaces
  <2>2. Mine(b, x)'
    BY RunDiscipline DEF Discipline, Own
  <2>3. pc'[b] = "decide"
    BY <1>1, <2>2, ActorsDiffer DEF Mine, Deciding
  <2>4. todo'[b] = <<x>>
    <3>1. todo'[b] # <<>>
      BY OfNone
    <3>2. PICK y : todo'[b] = <<y>>
      BY <1>1, <2>3, <3>1, RunEnters
    <3>3. QED
      BY <3>2, OfOne
  <2>5. QED
    BY <2>1, <2>4, RunRows
<1>2. CASE b # Run(r)
  <2>1. todo'[b] = todo[b]
    BY <1>2, RunLists
  <2>2. x.c \in Containers /\ todo[b] = <<x>> /\ row[x.c] = "none"
    BY <2>1, AheadTyped DEF Joining
  <2>3. QED
    BY <2>1, <2>2, RunRows
<1>3. QED
  BY <1>1, <1>2

LEMMA RunStanding ==
  ASSUME TypeInv, Discipline, Standing, NEW r \in Runs, RunStep(r)
  PROVE  Standing'
<1> SUFFICES ASSUME NEW s \in Runs, Claimer(s)' PROVE row'[at'[s]] = "busy"
  BY DEF Standing
<1>1. Turn(r)
  BY RunTurn
<1>2. at'[s] = at[s] /\ (Claimer(s) \/ (s = r /\ Claims(r)))
  BY <1>1, RunOthers, RunClaimer
<1>3. CASE Claimer(s)
  <2>1. at[s] \in Containers /\ row[at[s]] = "busy"
    BY <1>3, ClaimerAt DEF Standing
  <2>2. QED
    BY <1>2, <2>1, RunRows
<1>4. CASE s = r /\ Claims(r)
  <2>1. at[r] \in Containers
    BY <1>4 DEF Claims, Moves, TypeInv, Places, OnContainer, Near
  <2>2. QED
    BY <1>2, <1>4, <2>1 DEF Claims, TypeInv, Tables
<1>5. QED
  BY <1>2, <1>3, <1>4

LEMMA RunBuried ==
  ASSUME TypeInv, Discipline, Buried, NEW r \in Runs, RunStep(r)
  PROVE  Buried'
<1> SUFFICES ASSUME NEW c \in Containers, pc'[Removal(c)] # "off" \/ todo'[Removal(c)] # <<>>
             PROVE  Dead(c)'
  BY DEF Buried
<1>1. pc'[Removal(c)] = pc[Removal(c)] /\ todo'[Removal(c)] = todo[Removal(c)]
  BY RunLists, ActorsDiffer
<1>2. Dead(c)
  BY <1>1 DEF Buried
<1>3. QED
  BY <1>2, DeadStays DEF Next

LEMMA RunHeld ==
  ASSUME TypeInv, Discipline, Held, NEW r \in Runs, RunStep(r)
  PROVE  Held'
<1> SUFFICES ASSUME NEW b \in Actors, NEW x \in Of(todo'[b]), x.op \in {"beginStop", "beginRemoval"}
             PROVE  x.c \notin holds'
  BY DEF Held
<1>1. holds' = holds
  BY RunTurn
<1>2. CASE b = Run(r)
  BY <1>1, <1>2, RunAhead DEF Adopts, Replaces
<1>3. CASE b # Run(r)
  BY <1>1, <1>3, RunLists DEF Held
<1>4. QED
  BY <1>2, <1>3

LEMMA RunCustody ==
  ASSUME TypeInv, Discipline, Custody, NEW r \in Runs, RunStep(r)
  PROVE  Custody'
BY RunCondemned, RunJoining, RunStanding, RunBuried DEF Custody

-----------------------------------------------------------------------------
(* Passes                                                                  *)

(* The settling half of a call follows the call.                           *)
LEMMA PassSettles ==
  ASSUME TypeInv, PassStep, NEW c \in Containers
  PROVE  /\ todo'[Removal(c)] = todo[Removal(c)] \/ todo'[Removal(c)] = <<>> \/ pc[Removal(c)] # "off"
         /\ todo'[Cleanup(c)] = todo[Cleanup(c)] \/ todo'[Cleanup(c)] = <<>> \/ pc[Cleanup(c)] # "off"
         /\ ~Sweep => todo'[Reaper] = todo[Reaper]
<1> DEFINE Others == {Retirer, Worker, Watch, Operator}
<1> DEFINE Kept ==
       /\ todo'[Removal(c)] = todo[Removal(c)] \/ pc[Removal(c)] # "off"
       /\ todo'[Cleanup(c)] = todo[Cleanup(c)] \/ pc[Cleanup(c)] # "off"
       /\ todo'[Reaper] = todo[Reaper]
<1>1. /\ {Removal(c), Cleanup(c), Reaper} \subseteq Actors
      /\ Others \subseteq Actors /\ Reaper \notin Others
      /\ Removal(c) \notin Others \union {Reaper} /\ Cleanup(c) \notin Others \union {Reaper}
  <2>1. Others \union {Reaper} \subseteq Passes /\ Reaper \notin Others
    BY PassesDiffer
  <2>2. QED
    BY <2>1, ActorsDiffer
<1>2. \A d \in Containers :
         /\ {Stop(d), Removal(d), Cleanup(d)} \subseteq Actors
         /\ Removal(c) # Stop(d) /\ Removal(c) # Cleanup(d) /\ Cleanup(c) # Stop(d)
         /\ Cleanup(c) # Removal(d) /\ Reaper \notin {Stop(d), Removal(d), Cleanup(d)}
         /\ Removal(c) = Removal(d) => c = d
         /\ Cleanup(c) = Cleanup(d) => c = d
  BY ActorsDiffer, PassesDiffer
<1>3. ASSUME NEW a \in Actors, a \notin {Removal(c), Cleanup(c), Reaper}, \E p, q : Goto(a, p, q)
      PROVE  Kept
  BY <1>1, <1>3, GotoLeaves
<1>4. ASSUME NEW d \in Containers, RemovalAnswers(d) \/ RemovalFails(d) PROVE Kept
  <2>1. pc[Removal(d)] # "off" /\ \E p, q : Goto(Removal(d), p, q)
    BY <1>4 DEF RemovalAnswers, RemovalFails
  <2>2. QED
    BY <1>1, <1>2, <2>1, GotoLeaves
<1>5. ASSUME NEW d \in Containers, LookUpCreate(d) \/ RemoveCreated(d) PROVE Kept
  <2>1. pc[Cleanup(d)] # "off" /\ \E p, q : Goto(Cleanup(d), p, q)
    BY <1>5 DEF LookUpCreate, RemoveCreated
  <2>2. QED
    BY <1>1, <1>2, <2>1, GotoLeaves
<1>6. ASSUME NEW d \in Containers, CallSettles(d)
      PROVE  Kept \/ (todo'[Removal(c)] = <<>> /\ todo'[Cleanup(c)] = todo[Cleanup(c)]
                      /\ todo'[Reaper] = todo[Reaper])
  <2>1. \E a \in {Stop(d), Removal(d)} : \E p : Goto(a, p, <<>>)
    BY <1>6 DEF CallSettles
  <2>2. QED
    BY <1>1, <1>2, <2>1, GotoLeaves
<1>7. ASSUME NEW d \in Containers, StopAnswers(d) \/ StopFails(d) PROVE Kept
  <2>1. \E p, q : Goto(Stop(d), p, q)
    BY <1>7 DEF StopAnswers, StopFails
  <2>2. QED
    BY <1>2, <1>3, <2>1
<1>8. ASSUME NEW d \in Containers,
             EngineCreates(d) \/ EngineStops(d) \/ Outside(d) \/ LivenessReads(d) \/ OperatorRemoves(d)
      PROVE  todo' = todo \/ \E a \in Others : \E p, q : Goto(a, p, q)
  BY <1>8 DEF EngineCreates, EngineStops, Outside, LivenessReads, OperatorRemoves
<1>9. ASSUME Retire \/ RetireDone \/ HoldRunning \/ EnsureRunning \/ EnsureStarts \/ EnsureFails \/ EnsureDone \/ ReleaseHold
      PROVE  todo' = todo \/ \E a \in Others : \E p, q : Goto(a, p, q)
  BY <1>9 DEF Retire, RetireDone, HoldRunning, EnsureRunning, EnsureStarts,
     EnsureFails, EnsureDone, ReleaseHold
<1>10. ASSUME \/ LivenessJudges \/ LivenessFailsWedged \/ SyncReads \/ SyncJudges \/ SyncMeasures
              \/ SyncWithinLimit \/ SyncStopsOverLimit \/ SettingsChange
       PROVE  todo' = todo \/ \E a \in Others : \E p, q : Goto(a, p, q)
  BY <1>10 DEF LivenessJudges, LivenessFailsWedged, SyncReads, SyncJudges, SyncMeasures,
     SyncWithinLimit, SyncStopsOverLimit, SettingsChange
<1>11. ASSUME todo' = todo \/ \E a \in Others : \E p, q : Goto(a, p, q) PROVE Kept
  BY <1>1, <1>3, <1>11
<1>12. CASE Sweep
  <2>1. todo' = todo \/ \E p, q : Goto(Reaper, p, q)
    BY <1>12 DEF Sweep
  <2>2. todo'[Removal(c)] = todo[Removal(c)] /\ todo'[Cleanup(c)] = todo[Cleanup(c)]
    BY <1>1, <2>1, GotoLeaves
  <2>3. QED
    BY <1>12, <2>2
<1> HIDE DEF Others
<1>13. QED
  BY <1>4, <1>5, <1>6, <1>7, <1>8, <1>9, <1>10, <1>11, <1>12 DEF PassStep, Background

LEMMA PassHolds ==
  ASSUME PassStep
  PROVE  holds' \subseteq holds \/ HoldRunning \/ EnsureDone
BY DEF PassStep, Background, StopAnswers, StopFails, RemovalAnswers, RemovalFails, CallSettles,
   LookUpCreate, RemoveCreated, EngineCreates, EngineStops, Outside, LivenessReads,
   OperatorRemoves, Retire, RetireDone, EnsureRunning, EnsureStarts, EnsureFails, ReleaseHold,
   LivenessJudges, LivenessFailsWedged, SyncReads, SyncJudges, SyncMeasures, SyncWithinLimit,
   SyncStopsOverLimit, Sweep, SettingsChange, process

(* A pass moves a call on, and back to its start never.                    *)
LEMMA PassCalling ==
  ASSUME TypeInv, PassStep, NEW c \in Containers
  PROVE  /\ pc'[Stop(c)] = "calling" => pc[Stop(c)] = "calling"
         /\ pc'[Removal(c)] = "calling" => pc[Removal(c)] = "calling"
<1> DEFINE Kept == /\ pc'[Stop(c)] = "calling" => pc[Stop(c)] = "calling"
                   /\ pc'[Removal(c)] = "calling" => pc[Removal(c)] = "calling"
           Moved == pc' = pc \/ \E a \in Actors : \E p, q :
                       Goto(a, p, q) /\ (p # "calling" \/ a \notin {Stop(c), Removal(c)})
<1>1. \A d \in Containers : {Stop(d), Removal(d), Cleanup(d)} \subseteq Actors
      /\ Cleanup(d) \notin {Stop(c), Removal(c)}
  BY ActorsDiffer
<1>2. /\ {Retirer, Worker, Watch, Operator, Reaper} \subseteq Actors
      /\ Stop(c) \notin {Retirer, Worker, Watch, Operator, Reaper}
      /\ Removal(c) \notin {Retirer, Worker, Watch, Operator, Reaper}
  BY ActorsDiffer, PassesDiffer
<1>3. ASSUME NEW d \in Containers, Background(d) PROVE Moved
  <2>1. CASE StopAnswers(d) \/ StopFails(d)
    BY <1>1, <2>1 DEF StopAnswers, StopFails
  <2>2. CASE RemovalAnswers(d) \/ RemovalFails(d)
    BY <1>1, <2>2 DEF RemovalAnswers, RemovalFails
  <2>3. CASE CallSettles(d)
    BY <1>1, <2>3 DEF CallSettles
  <2>4. CASE LookUpCreate(d) \/ RemoveCreated(d)
    BY <1>1, <2>4 DEF LookUpCreate, RemoveCreated
  <2>5. QED
    BY <1>3, <2>1, <2>2, <2>3, <2>4 DEF Background
<1>4. ASSUME NEW d \in Containers,
             EngineCreates(d) \/ EngineStops(d) \/ Outside(d) \/ LivenessReads(d) \/ OperatorRemoves(d)
      PROVE  Moved
  BY <1>2, <1>4, ZenonT(60) DEF EngineCreates, EngineStops, Outside, LivenessReads, OperatorRemoves,
     process
<1>5. ASSUME \/ Retire \/ RetireDone \/ HoldRunning \/ EnsureRunning \/ EnsureStarts \/ EnsureFails
             \/ EnsureDone \/ ReleaseHold
      PROVE  Moved
  BY <1>2, <1>5, ZenonT(60) DEF Retire, RetireDone, HoldRunning, EnsureRunning, EnsureStarts,
     EnsureFails, EnsureDone, ReleaseHold
<1>6. ASSUME \/ LivenessJudges \/ LivenessFailsWedged \/ SyncReads \/ SyncJudges \/ SyncMeasures
             \/ SyncWithinLimit \/ SyncStopsOverLimit \/ Sweep \/ SettingsChange
      PROVE  Moved
  BY <1>2, <1>6, ZenonT(60) DEF LivenessJudges, LivenessFailsWedged, SyncReads, SyncJudges,
     SyncMeasures, SyncWithinLimit, SyncStopsOverLimit, Sweep, SettingsChange, process
<1>7. ASSUME Moved PROVE Kept
  BY <1>1, <1>7, GotoLeaves
<1> HIDE DEF Kept, Moved
<1>8. Moved
  BY <1>3, <1>4, <1>5, <1>6 DEF PassStep
<1>9. QED
  BY <1>7, <1>8 DEF Kept

(* Only retirement, among the passes, decides to take a container down.    *)
LEMMA PassTakesDown ==
  ASSUME TypeInv, Discipline, PassStep, Discipline', NEW b \in Actors,
         NEW y \in Of(todo'[b]), y.op \in {"beginStop", "beginRemoval"}
  PROVE  \/ todo'[b] = todo[b]
         \/ /\ b = Retirer /\ Retire /\ y.c \in Containers \ holds
            /\ \/ todo'[b] = <<St("beginStop", y.c)>>
               \/ todo'[b] = Destroy(y.c) /\ row[y.c] # "busy"
<1>1. /\ \A s \in Runs : todo'[Run(s)] = todo[Run(s)]
      /\ ~Retire => todo'[Retirer] = todo[Retirer] \/ todo'[Retirer] = <<>>
  BY PassCalls
<1>2. b = Retirer \/ \E s \in Runs : b = Run(s)
  BY DEF Discipline, Own, Mine, Retires
<1>3. SUFFICES ASSUME todo'[b] # todo[b]
               PROVE  /\ b = Retirer /\ Retire /\ y.c \in Containers \ holds
                      /\ \/ todo'[b] = <<St("beginStop", y.c)>>
                         \/ todo'[b] = Destroy(y.c) /\ row[y.c] # "busy"
  OBVIOUS
<1>4. b = Retirer /\ Retire
  BY <1>1, <1>2, <1>3, OfNone
<1>5. PICK c \in Containers : /\ c \notin holds
                              /\ \/ todo'[Retirer] = <<St("beginStop", c)>>
                                 \/ todo'[Retirer] = Destroy(c) /\ row[c] # "busy"
  BY <1>4, GotoLeaves, ActorsDiffer DEF Retire, NotHeld
<1>6. y.c = c
  <2>1. CASE todo'[Retirer] = <<St("beginStop", c)>>
    <3>1. y = St("beginStop", c)
      BY <1>4, <2>1, OfOne
    <3>2. QED
      BY <3>1, StIs
  <2>2. CASE todo'[Retirer] = Destroy(c)
    <3>1. y \in {St("delete", c), St("unname", c), St("beginRemoval", c)}
      BY <1>4, <2>2, OfThree DEF Destroy
    <3>2. QED
      BY <3>1, StIs
  <2>3. QED
    BY <1>5, <2>1, <2>2
<1>7. QED
  BY <1>4, <1>5, <1>6

LEMMA PassHeld ==
  ASSUME TypeInv, Discipline, Held, PassStep, Discipline'
  PROVE  Held'
<1> SUFFICES ASSUME NEW b \in Actors, NEW y \in Of(todo'[b]), y.op \in {"beginStop", "beginRemoval"}
             PROVE  y.c \notin holds'
  BY DEF Held
<1>1. CASE todo'[b] = todo[b]
  <2>1. y.c \notin holds /\ lock = b /\ Retires(b)
    BY <1>1, ExecSeat DEF Held
  <2>2. b # Worker /\ b # None
    BY <2>1, ActorsDiffer, PassesDiffer, NobodyAssumption DEF Retires
  <2>3. ~HoldRunning /\ ~EnsureDone
    BY <2>1, <2>2 DEF HoldRunning, EnsureDone, LockFree
  <2>4. QED
    BY <2>1, <2>3, PassHolds
<1>2. CASE todo'[b] # todo[b]
  <2>1. Retire /\ y.c \notin holds
    BY <1>2, PassTakesDown
  <2>2. holds' = holds
    BY <2>1 DEF Retire
  <2>3. QED
    BY <2>1, <2>2
<1>3. QED
  BY <1>1, <1>2

LEMMA PassCustody ==
  ASSUME TypeInv, Discipline, Exclusion, Custody, PassStep, Discipline'
  PROVE  Custody'
<1>1. /\ UNCHANGED <<row, named, at, up>>
      /\ \A s \in Runs : pc'[Run(s)] = pc[Run(s)] /\ todo'[Run(s)] = todo[Run(s)]
  BY PassCalls
<1>2. ASSUME NEW b \in Actors, NEW c \in Containers, todo'[b] = Destroy(c) PROVE row'[c] # "busy"
  <2>1. PICK y : y = St("beginRemoval", c)
    OBVIOUS
  <2>2. y.op = "beginRemoval" /\ y.c = c /\ y \in Of(todo'[b])
    BY <1>2, <2>1, StIs, OfThree DEF Destroy
  <2>3. todo'[b] # <<St("beginStop", c)>>
    BY <1>2 DEF Destroy
  <2>4. todo[b] = Destroy(c) \/ row[c] # "busy"
    BY <1>2, <2>2, <2>3, PassTakesDown
  <2>5. QED
    BY <1>1, <2>4 DEF Custody, Condemned
<1>3. ASSUME NEW b \in Actors, NEW x \in Of(todo'[b]), x.op = "adoptUnpooled"
      PROVE  todo'[b] = <<x>> /\ row'[x.c] = "none"
  <2>1. PICK s \in Runs : b = Run(s)
    BY <1>3 DEF Discipline, Own, Mine, Deciding
  <2>2. QED
    BY <1>1, <1>3, <2>1 DEF Custody, Joining
<1>4. Standing'
  BY <1>1 DEF Custody, Standing, Claimer
<1>5. ASSUME NEW c \in Containers, pc'[Removal(c)] # "off" \/ todo'[Removal(c)] # <<>>
      PROVE  Dead(c)'
  <2>1. pc[Removal(c)] # "off" \/ todo[Removal(c)] # <<>>
    BY <1>5, PassCalls, PassSettles
  <2>2. Dead(c)
    BY <2>1 DEF Custody, Buried
  <2>3. QED
    BY <2>2, DeadStays DEF Next, PassStep
<1>6. Condemned' /\ Joining' /\ Buried'
  BY <1>2, <1>3, <1>5 DEF Condemned, Joining, Buried
<1>7. QED
  BY <1>4, <1>6 DEF Custody

-----------------------------------------------------------------------------
(* Crash and restart                                                       *)

(* Nobody is about: the process is down, or has just started.              *)
LEMMA StillCustody ==
  ASSUME \A r \in Runs : pc[Run(r)] = "new",
         \A c \in Containers : pc[Removal(c)] = "off" /\ todo[Removal(c)] = <<>>,
         \A a \in Actors : \A x \in Of(todo[a]) : x.op = "open"
  PROVE  Custody
<1>1. \A r \in Runs : ~Claimer(r)
  BY DEF Claimer
<1>2. ASSUME NEW a \in Actors, NEW c \in Containers PROVE todo[a] # Destroy(c)
  <2>1. St("delete", c) \in Of(Destroy(c)) /\ St("delete", c).op = "delete"
    BY OfThree, StIs DEF Destroy
  <2>2. QED
    BY <2>1
<1>3. QED
  BY <1>1, <1>2 DEF Custody, Condemned, Joining, Standing, Buried

LEMMA CrashCustody ==
  ASSUME Crash, Discipline'
  PROVE  Custody'
<1>1. Down' /\ ~up'
  BY DEF Discipline, Crash
<1>2. /\ \A r \in Runs : pc'[Run(r)] = "new"
      /\ \A c \in Containers : pc'[Removal(c)] = "off" /\ todo'[Removal(c)] = <<>>
      /\ \A a \in Actors : todo'[a] = <<>> /\ Of(todo'[a]) = {}
  BY <1>1, OfNone, ActorsDiffer, NobodyAssumption DEF Down
<1>3. \A r \in Runs : ~Claimer(r)'
  BY <1>2 DEF Claimer
<1>4. \A c \in Containers : Destroy(c) # <<>>
  BY DEF Destroy
<1>5. QED
  BY <1>2, <1>3, <1>4 DEF Custody, Condemned, Joining, Standing, Buried

LEMMA RestartCustody ==
  ASSUME TypeInv, Discipline, Restart
  PROVE  Custody'
<1>1. Down /\ ~up /\ UNCHANGED pc
  BY DEF Discipline, Restart
<1>2. /\ \A b \in Actors : b # Boot => todo'[b] = todo[b]
      /\ \A x \in Of(todo'[Boot]) : x.op = "open"
  BY RestartLists
<1>3. /\ \A r \in Runs : pc'[Run(r)] = "new"
      /\ \A c \in Containers : pc'[Removal(c)] = "off" /\ todo'[Removal(c)] = <<>>
  BY <1>1, <1>2, ActorsDiffer, PassesDiffer, NobodyAssumption DEF Down
<1>4. ASSUME NEW a \in Actors, NEW x \in Of(todo'[a]) PROVE x.op = "open"
  BY <1>1, <1>2, <1>4, OfNone DEF Down
<1>5. \A r \in Runs : ~Claimer(r)'
  BY <1>3 DEF Claimer
<1>6. ASSUME NEW a \in Actors, NEW c \in Containers PROVE todo'[a] # Destroy(c)
  <2>1. St("delete", c) \in Of(Destroy(c)) /\ St("delete", c).op = "delete"
    BY OfThree, StIs DEF Destroy
  <2>2. QED
    BY <1>4, <2>1
<1>7. QED
  BY <1>3, <1>4, <1>5, <1>6 DEF Custody, Condemned, Joining, Standing, Buried

LEMMA NextCustody ==
  ASSUME TypeInv, Discipline, Used, Exclusion, Custody, [Next]_vars, ~Trespass, Discipline'
  PROVE  Custody'
<1>1. CASE UNCHANGED vars
  <2>1. \A r \in Runs : Claimer(r)' = Claimer(r)
    BY <1>1 DEF vars, process, Claimer
  <2>2. \A c \in Containers : Dead(c) => Dead(c)'
    BY DeadStays
  <2>3. QED
    BY <1>1, <2>1, <2>2
       DEF vars, db, process, Custody, Condemned, Joining, Standing, Buried
<1>2. QED
  BY <1>1, NextKinds, ExecCustody, RunCustody, PassCustody, CrashCustody, RestartCustody

LEMMA InitCustody == Init => Custody
<1> SUFFICES ASSUME Init PROVE Custody
  OBVIOUS
<1>1. /\ \A r \in Runs : pc[Run(r)] = "new"
      /\ \A c \in Containers : pc[Removal(c)] = "off"
  BY IdlePcTyped, ActorsDiffer, PassesDiffer DEF Init
<1>2. \A a \in Actors : todo[a] = <<>> /\ Of(todo[a]) = {}
  BY OfNone DEF Init
<1>3. QED
  BY <1>1, <1>2, ActorsDiffer, StillCustody

LEMMA NextHeld ==
  ASSUME TypeInv, Discipline, Held, [Next]_vars, Discipline'
  PROVE  Held'
<1>1. CASE UNCHANGED vars
  BY <1>1 DEF vars, process, Held
<1>2. CASE Crash
  <2>1. Down' /\ ~up'
    BY <1>2 DEF Discipline, Crash
  <2>2. QED
    BY <2>1, OfNone DEF Down, Held
<1>3. CASE Restart
  <2>1. Down /\ ~up /\ holds' = holds
    BY <1>3 DEF Discipline, Restart
  <2>2. QED
    BY <2>1 DEF Down, Held
<1>4. QED
  BY <1>1, <1>2, <1>3, NextKinds, ExecHeld, RunHeld, PassHeld

(* A call of the background half is made by the statement that begins it.  *)
LEMMA NextCalls ==
  ASSUME TypeInv, Discipline, Held, Next, Discipline', NEW c \in holds
  PROVE  /\ pc'[Stop(c)] = "calling" => pc[Stop(c)] = "calling"
         /\ pc'[Removal(c)] = "calling" => pc[Removal(c)] = "calling"
<1>1. c \in Containers
  BY DEF TypeInv, Memory
<1>2. ASSUME NEW a \in Actors, Exec(a)
      PROVE  pc'[Stop(c)] = pc[Stop(c)] /\ pc'[Removal(c)] = pc[Removal(c)]
  <2>1. PICK x : x = Head(todo[a])
    OBVIOUS
  <2>2. x \in Of(todo[a]) /\ x.c \in Containers
    BY <1>2, <2>1, ExecBy
  <2>3. x.op \in {"beginStop", "beginRemoval"} => x.c # c
    BY <2>2 DEF Held
  <2>4. QED
    BY <1>1, <1>2, <2>1, <2>2, <2>3, ExecRow, ActorsDiffer DEF TypeInv, Places
<1>3. ASSUME NEW r \in Runs, RunStep(r)
      PROVE  pc'[Stop(c)] = pc[Stop(c)] /\ pc'[Removal(c)] = pc[Removal(c)]
  BY <1>1, <1>3, RunLists, ActorsDiffer
<1>4. CASE PassStep
  BY <1>1, <1>4, PassCalling
<1>5. CASE Crash
  BY <1>1, <1>5 DEF Discipline, Down, Crash
<1>6. CASE Restart
  BY <1>6 DEF Restart
<1>7. QED
  BY <1>2, <1>3, <1>4, <1>5, <1>6, NextKinds

(* No retirement sets out to stop or remove a container that work outside  *)
(* a run holds, whatever else happens and for any number of runs and       *)
(* containers: executeRetirementPlan looks at the holds in the lifecycle   *)
(* lock, a hold is taken in it, and the call begins in the same lock hold. *)
THEOREM HoldsKept == Spec => HoldsRespected
<1> DEFINE Inv == TypeInv /\ Discipline /\ Held
<1>1. Init => Inv
  <2> SUFFICES ASSUME Init PROVE Inv
    OBVIOUS
  <2>1. \A a \in Actors : Of(todo[a]) = {}
    BY OfNone DEF Init
  <2>2. QED
    BY <2>1, TypesInit, InitDiscipline DEF Held
<1>2. Inv /\ [Next]_vars => Inv'
  BY NextTypes, NextDiscipline, NextHeld
<1>3. Inv /\ [Next]_vars =>
         [\A c \in holds :
             /\ pc'[Stop(c)] = "calling" => pc[Stop(c)] = "calling"
             /\ pc'[Removal(c)] = "calling" => pc[Removal(c)] = "calling"]_vars
  BY NextDiscipline, NextCalls
<1>4. QED
  BY <1>1, <1>2, <1>3, PTL DEF Spec, HoldsRespected

(* No container is being stopped or removed by the pool while a run's work *)
(* is executing in it unless there has been a trespass, for any number of  *)
(* runs and containers, across crashes, restarts, failed calls,            *)
(* interference from outside, changed settings, the crons, the operator    *)
(* and the reaper (retirement under the lifecycle lock, the claim's guard, *)
(* the wait for the call in flight).                                       *)
THEOREM RunsSpared == Spec /\ [][~Trespass]_vars => []RetirementSparesRuns
<1> DEFINE Inv == TypeInv /\ Discipline /\ Used /\ Exclusion /\ Custody
<1>1. Init => Inv
  BY TypesInit, InitDiscipline, InitExclusion, InitCustody
<1>2. Inv /\ [Next /\ ~Trespass]_vars => Inv'
  <2> SUFFICES ASSUME Inv, [Next]_vars, ~Trespass \/ UNCHANGED vars PROVE Inv'
    OBVIOUS
  <2>1. TypeInv' /\ Discipline'
    BY NextTypes, NextDiscipline
  <2>2. ~Trespass
    BY DEF Trespass, vars, db
  <2>3. Used' /\ Exclusion' /\ Custody'
    BY <2>1, <2>2, LateTrespass, NextUsed, NextExclusion, NextCustody
  <2>4. QED
    BY <2>1, <2>3
<1>3. Inv => RetirementSparesRuns
  BY CustodyFollows
<1>4. QED
  BY <1>1, <1>2, <1>3, PTL DEF Spec
-----------------------------------------------------------------------------
(* Metering                                                                *)

(* A run is concerned with the container it is at, and with the one it is  *)
(* about to adopt.                                                         *)
Concerned(c) ==
    \E r \in Runs : \/ at[r] = c
                    \/ \E x \in Of(todo[Run(r)]) : x.op = "adoptUnpooled" /\ x.c = c

(* An intrusion: a statement of the container-sync cron, or of an          *)
(* operator's Remove, changes the row of a container a run is concerned    *)
(* with, closes its interval or takes its name off the project; or makes a *)
(* member idle whose stop or removal is being waited for.                  *)
Intrusion ==
    /\ Exec(Watch) \/ Exec(Operator)
    /\ \E c \in Containers :
          \/ /\ Concerned(c)
             /\ row'[c] # row[c] \/ (bill[c] /\ ~bill'[c]) \/ (named = c /\ named' # c)
          \/ row'[c] = "idle" /\ row[c] # "idle" /\ tracked[c] # "none"

LEMMA TrespassIntrudes == Trespass => Intrusion
BY DEF Trespass, Intrusion, Concerned

(* What a run on its way up the ladder has found stays so: the member it   *)
(* chose is there, the container it creates is nobody's and, until it      *)
(* asks, unknown to the engine.                                            *)
OnTheWay ==
    \A s \in Runs :
        /\ pc[Run(s)] \in {"inspect", "resume"} => row[at[s]] # "none"
        /\ pc[Run(s)] \in {"request", "creating"} => row[at[s]] = "none" /\ named # at[s]
        /\ pc[Run(s)] = "request" => ~Known(at[s])

(* A container about to be adopted is still the one the project names.     *)
Wanted ==
    \A a \in Actors : \A x \in Of(todo[a]) : x.op = "adoptUnpooled" => named = x.c

(* A failed create and an orphan are settled when nobody can want them.    *)
Settled ==
    /\ \A c \in Containers : pc[Cleanup(c)] # "off" \/ todo[Cleanup(c)] # <<>> => Dead(c)
    /\ \A x \in Of(todo[Reaper]) : Dead(x.c)

(* Whoever adopted a container at rest owes it a close: not one in use.    *)
Owed ==
    \A s \in Runs : pc[Run(s)] = "decide" =>
        \A x \in Of(todo[Run(s)]) : x.op = "close" => row[x.c] # "busy"

(* A claim opens the interval before the run leaves the ladder, and nobody *)
(* closes it.                                                              *)
Paid ==
    \A r \in Runs :
        /\ pc[Run(r)] = "claimed" => todo[Run(r)] \in {<<>>, <<St("open", at[r])>>}
        /\ pc[Run(r)] = "claimed" /\ todo[Run(r)] = <<>> => bill[at[r]]
        /\ pc[Run(r)] \in {"working", "running"} => bill[at[r]]

Metered == OnTheWay /\ Wanted /\ Settled /\ Owed /\ Paid

LEMMA MeteredFollows == TypeInv /\ Metered => WorkIsBilled
BY DEF TypeInv, World, Metered, Paid, WorkIsBilled

(* Nobody executes a statement of another's while a run is in the lock     *)
(* that would add, remove or rename a member.                              *)
LEMMA ExecOutside ==
  ASSUME TypeInv, Discipline, NEW a \in Actors, a \notin {Watch, Operator}, Exec(a),
         NEW x, x = Head(todo[a]),
         NEW s \in Runs, lock = Run(s), pc[Run(s)] \notin {"start", "setup", "claim", "retry"}
  PROVE  /\ x.op \notin {"upsert", "name", "delete", "unname", "showGone"}
         /\ x.op = "adoptUnpooled" => a = Run(s) /\ pc[Run(s)] = "decide"
<1>1. x \in Of(todo[a]) /\ Mine(a, x) /\ todo[a] # <<>> /\ a \notin {Watch, Operator}
  BY ExecBy
<1>2. a # Run(s) => ~Retires(a) /\ ~\E c : ByRun(a, c, {"retry"})
  BY <1>1, ActorsDiffer, PassesDiffer DEF Retires, ByRun, Discipline, Seats, Inside
<1>3. ~Retires(Run(s)) /\ ~\E c : ByRun(Run(s), c, {"retry"})
  BY ActorsDiffer, PassesDiffer DEF Retires, ByRun
<1>4. x.op \notin {"delete", "unname", "showGone"}
  BY <1>1, <1>2, <1>3 DEF Mine
<1>5. x.op \in {"upsert", "name", "adoptUnpooled"} => a = Run(s)
  BY <1>1, ExecSeat
<1>6. ~ByRun(Run(s), x.c, {"start", "setup", "claim"})
  BY ActorsDiffer DEF ByRun
<1>7. x.op \notin {"upsert", "name"}
  BY <1>1, <1>5, <1>6 DEF Mine
<1>8. x.op = "adoptUnpooled" => pc[Run(s)] = "decide"
  BY <1>1, <1>5, ActorsDiffer DEF Mine, Deciding
<1>9. QED
  BY <1>4, <1>5, <1>7, <1>8

LEMMA ExecOnTheWay ==
  ASSUME TypeInv, Discipline, OnTheWay, NEW a \in Actors, Exec(a), ~Intrusion
  PROVE  OnTheWay'
<1>1. PICK x : x = Head(todo[a])
  OBVIOUS
<1>2. x.c \in Containers /\ UNCHANGED <<engine, at>> /\ \A s \in Runs : pc'[Run(s)] = pc[Run(s)]
  BY <1>1, ExecBy
<1>3. ASSUME NEW s \in Runs, pc[Run(s)] \in {"inspect", "resume", "request", "creating"}
      PROVE  /\ at[s] \in Containers
             /\ row[at[s]] # "none" => row'[at[s]] # "none"
             /\ row[at[s]] = "none" => row'[at[s]] = "none"
             /\ named # at[s] => named' # at[s]
  <2>1. lock = Run(s) /\ at[s] \in Containers /\ at[s] # None
    BY <1>3, ConstAssumption
       DEF Discipline, Seats, Inside, Climb, TypeInv, Places, OnContainer, Near
  <2>2. CASE a \in {Watch, Operator}
    <3>1. row'[at[s]] = row[at[s]]
      BY <2>1, <2>2 DEF Intrusion, Concerned
    <3>2. x.op # "name"
      BY <1>1, <2>2, ExecBy, ActorsDiffer, PassesDiffer DEF Mine, ByRun
    <3>3. named' = named \/ named' = None
      BY <1>1, <3>2, ExecRow
    <3>4. QED
      BY <2>1, <3>1, <3>3
  <2>3. CASE a \notin {Watch, Operator}
    <3>1. x.op \notin {"upsert", "name", "delete", "unname", "showGone", "adoptUnpooled"}
      BY <1>1, <1>3, <2>1, <2>3, ExecOutside
    <3>2. x.op = "set" => x.to # "none"
      BY <1>1, ExecBy DEF Writes, Written
    <3>3. row[at[s]] # "none" => row'[at[s]] # "none"
      BY <1>1, <1>2, <2>1, <3>1, <3>2, ExecRow
    <3>4. row[at[s]] = "none" => row'[at[s]] = "none"
      BY <1>1, <1>2, <2>1, <3>1, ExecRow
    <3>5. named' = named
      BY <1>1, <3>1, ExecRow
    <3>6. QED
      BY <2>1, <3>3, <3>4, <3>5
  <2>4. QED
    BY <2>2, <2>3
<1>4. QED
  BY <1>2, <1>3 DEF OnTheWay, Known

LEMMA ExecWanted ==
  ASSUME TypeInv, Discipline, Wanted, NEW a \in Actors, Exec(a), ~Intrusion
  PROVE  Wanted'
<1> SUFFICES ASSUME NEW b \in Actors, NEW y \in Of(todo'[b]), y.op = "adoptUnpooled"
             PROVE  named' = y.c
  BY DEF Wanted
<1>1. PICK x : x = Head(todo[a])
  OBVIOUS
<1>2. y \in Of(todo[b]) /\ named = y.c
  BY ExecOld DEF Wanted
<1>3. PICK s \in Runs : b = Run(s) /\ lock = Run(s) /\ pc[Run(s)] = "decide"
  BY <1>2, ExecSeat DEF Deciding
<1>4. CASE a \in {Watch, Operator}
  <2>1. y.c \in Containers /\ Concerned(y.c)
    BY <1>2, <1>3, AheadTyped DEF Concerned
  <2>2. QED
    BY <1>2, <1>4, <2>1 DEF Intrusion
<1>5. CASE a \notin {Watch, Operator}
  <2>1. x.op \notin {"name", "unname", "showGone"}
    BY <1>1, <1>3, <1>5, ExecOutside
  <2>2. QED
    BY <1>1, <1>2, <2>1, ExecRow
<1>6. QED
  BY <1>4, <1>5

LEMMA ExecSettled ==
  ASSUME TypeInv, Discipline, Settled, NEW a \in Actors, Exec(a)
  PROVE  Settled'
<1>1. PICK x : x = Head(todo[a])
  OBVIOUS
<1>2. /\ x \in Of(todo[a]) /\ x.c \in Containers /\ todo[a] # <<>>
      /\ \A d \in Actors : d # a => todo'[d] = todo[d]
  BY <1>1, ExecBy
<1>3. ASSUME NEW c \in Containers, pc'[Cleanup(c)] # "off" \/ todo'[Cleanup(c)] # <<>>
      PROVE  Dead(c)'
  <2>1. pc'[Cleanup(c)] = pc[Cleanup(c)]
    BY <1>1, <1>2, ExecRow, ActorsDiffer DEF TypeInv, Places
  <2>2. todo'[Cleanup(c)] # <<>> => todo[Cleanup(c)] # <<>>
    BY <1>2, ActorsDiffer
  <2>3. Dead(c)
    BY <1>3, <2>1, <2>2 DEF Settled
  <2>4. QED
    BY <2>3, DeadStays DEF Next
<1>4. ASSUME NEW y \in Of(todo'[Reaper]) PROVE Dead(y.c)'
  <2>1. Dead(y.c)
    BY <1>1, <1>2, <1>4, ExecOld, ActorsDiffer DEF Settled
  <2>2. y.c \in Containers
    BY <1>1, <1>2, <1>4, ExecOld, AheadTyped, ActorsDiffer
  <2>3. QED
    BY <2>1, <2>2, DeadStays DEF Next
<1>5. QED
  BY <1>3, <1>4 DEF Settled

LEMMA ExecOwed ==
  ASSUME TypeInv, Discipline, Joining, Owed, NEW a \in Actors, Exec(a)
  PROVE  Owed'
<1> SUFFICES ASSUME NEW s \in Runs, pc'[Run(s)] = "decide", NEW y \in Of(todo'[Run(s)]),
                    y.op = "close"
             PROVE  row'[y.c] # "busy"
  BY DEF Owed
<1>1. PICK x : x = Head(todo[a])
  OBVIOUS
<1>2. /\ x \in Of(todo[a]) /\ x.c \in Containers /\ Mine(a, x)
      /\ pc[Run(s)] = "decide" /\ Run(s) \in Actors
  BY <1>1, ExecBy, ActorsDiffer
<1>3. CASE y \in Of(todo[Run(s)])
  <2>1. row[y.c] # "busy" /\ y.c \in Containers
    BY <1>2, <1>3, AheadTyped DEF Owed
  <2>2. QED
    BY <2>1, ExecClaims
<1>4. CASE y \notin Of(todo[Run(s)])
  <2>1. a = Run(s) /\ y.c = x.c /\ a # Watch /\ a # Stop(x.c)
    BY <1>1, <1>2, <1>4, ExecOld, ActorsDiffer, PassesDiffer
  <2>2. x.op \in Writes
    <3>1. SUFFICES ASSUME x.op \notin Writes PROVE FALSE
      OBVIOUS
    <3>2. PICK q : q = Tail(todo[a])
      OBVIOUS
    <3>3. /\ todo[a] \in Seq(Typed) /\ q \in Seq(Typed) /\ todo[a] # <<>>
          /\ St("open", x.c) \in Typed
      BY <1>1, <1>2, <3>2, HeadTyped, StatementsTyped, OpsPlain
    <3>4. Of(q) \subseteq Of(todo[a])
      BY <3>2, <3>3, OfTail
    <3>5. todo'[a] = <<>> \o q \/ todo'[a] = <<St("open", x.c)>> \o q
      <4>1. x.op # "unclaim"
        BY <1>2, <2>1 DEF Mine
      <4>2. QED
        BY <1>1, <3>1, <3>2, <4>1, ExecList DEF Done, TypeInv, Todos
    <3>6. y \in Of(<<>>) \/ y \in Of(<<St("open", x.c)>>) \/ y \in Of(q)
      <4>1. <<>> \in Seq(Typed) /\ <<St("open", x.c)>> \in Seq(Typed)
        BY <3>3, NoStatements
      <4>2. CASE todo'[a] = <<>> \o q
        BY <2>1, <3>3, <4>1, <4>2, OfJoined
      <4>3. CASE todo'[a] = <<St("open", x.c)>> \o q
        <5>1. PICK p : p = <<St("open", x.c)>>
          OBVIOUS
        <5>2. p \in Seq(Typed) /\ todo'[a] = p \o q
          BY <4>1, <4>3, <5>1
        <5>3. y \in Of(p) \/ y \in Of(q)
          BY <2>1, <3>3, <5>2, OfJoined
        <5>4. QED
          BY <5>1, <5>3
      <4>4. QED
        BY <3>5, <4>2, <4>3
    <3>7. y = St("open", x.c)
      BY <1>4, <2>1, <3>4, <3>6, OfNone, OfOne
    <3>8. QED
      BY <3>7, StIs
  <2>3. x.op = "adoptUnpooled"
    BY <1>2, <2>1, <2>2, ActorsDiffer DEF Mine, Writes, ByRun
  <2>4. row[x.c] = "none"
    BY <1>2, <2>3 DEF Joining
  <2>5. QED
    BY <1>2, <2>1, <2>4, ExecClaims
<1>5. QED
  BY <1>3, <1>4

(* Only a close ends an interval, and an open of a member starts one.      *)
LEMMA ExecBill ==
  ASSUME TypeInv, Discipline, NEW a \in Actors, Exec(a), NEW x, x = Head(todo[a]),
         NEW c \in Containers
  PROVE  /\ bill[c] /\ ~(x.op = "close" /\ x.c = c) => bill'[c]
         /\ x.op = "open" /\ x.c = c /\ row[c] # "none" => bill'[c]
<1>1. bill \in [Containers -> BOOLEAN] /\ x.c \in Containers
  BY ExecBy DEF TypeInv, Tables
<1>2. CASE x.op = "open" /\ OpenUptime(a, x.c)
  BY <1>1, <1>2 DEF OpenUptime
<1>3. CASE x.op = "close" /\ CloseUptime(a, x.c)
  BY <1>1, <1>3 DEF CloseUptime
<1>4. CASE x.op = "adopt" /\ AdoptProvisional(a, x.c)
  BY <1>1, <1>4 DEF AdoptProvisional
<1>5. CASE bill' = bill /\ x.op # "open"
  BY <1>5, ZenonT(60)
<1>6. \/ x.op = "open" /\ OpenUptime(a, x.c)
      \/ x.op = "close" /\ CloseUptime(a, x.c)
      \/ x.op = "adopt" /\ AdoptProvisional(a, x.c)
      \/ bill' = bill /\ x.op # "open"
  BY DEF Exec, OpenProvisional, DiscardProvisional, EndRuns, SetState, UpsertMember, ForgetMember,
     ReleaseMember, Unclaim, MarkRunning, WriteProject, AdoptMember, BeginStop, BeginRemoval,
     CancelLiveRuns, db
<1>7. QED
  BY <1>2, <1>3, <1>4, <1>5, <1>6

(* No close but an intruder's is executed on a claimed container.          *)
LEMMA ExecSpares ==
  ASSUME TypeInv, Discipline, Exclusion, Custody, Settled, Owed,
         NEW a \in Actors, a \notin {Watch, Operator}, Exec(a), NEW x, x = Head(todo[a]), x.op = "close",
         NEW r \in Runs, Claimer(r)
  PROVE  x.c # at[r]
<1> SUFFICES ASSUME x.c = at[r] PROVE FALSE
  OBVIOUS
<1>1. x \in Of(todo[a]) /\ todo[a] # <<>> /\ Mine(a, x) /\ x.c \in Containers
  BY ExecBy
<1>2. row[x.c] = "busy"
  BY DEF Custody, Standing
<1>3. ~ByRun(a, x.c, {"start", "setup", "claim", "retry", "failed"})
  BY <1>1, ExecAlone
<1>5. a # Stop(x.c)
  BY <1>1, <1>2 DEF Exclusion, Withheld
<1>6. a # Removal(x.c)
  BY <1>1, <1>2 DEF Custody, Buried, Dead
<1>7. a # Cleanup(x.c) /\ a # Reaper
  BY <1>1, <1>2 DEF Settled, Dead
<1>8. ~Deciding(a)
  BY <1>1, <1>2 DEF Deciding, Owed
<1>9. QED
  BY <1>1, <1>3, <1>5, <1>6, <1>7, <1>8 DEF Mine

LEMMA ExecPaid ==
  ASSUME TypeInv, Discipline, Exclusion, Custody, Settled, Owed, Paid,
         NEW a \in Actors, Exec(a), ~Intrusion
  PROVE  Paid'
<1>1. PICK x : x = Head(todo[a])
  OBVIOUS
<1>2. /\ x \in Of(todo[a]) /\ todo[a] # <<>> /\ at' = at
      /\ \A s \in Runs : pc'[Run(s)] = pc[Run(s)]
      /\ \A b \in Actors : b # a => todo'[b] = todo[b]
  BY <1>1, ExecBy
<1>3. ASSUME NEW r \in Runs, pc[Run(r)] \in {"claimed", "working", "running"}, bill[at[r]]
      PROVE  bill'[at[r]]
  <2>1. Claimer(r)
    BY <1>3 DEF Claimer
  <2>2. at[r] \in Containers
    BY <2>1, ClaimerAt
  <2>3. CASE a \in {Watch, Operator}
    BY <1>3, <2>2, <2>3 DEF Intrusion, Concerned
  <2>4. CASE a \notin {Watch, Operator}
    <3>1. x.op = "close" => x.c # at[r]
      BY <1>1, <2>1, <2>4, ExecSpares
    <3>2. QED
      BY <1>1, <1>3, <2>2, <3>1, ExecBill
  <2>5. QED
    BY <2>3, <2>4
<1>4. ASSUME NEW r \in Runs, pc[Run(r)] = "claimed"
      PROVE  /\ todo'[Run(r)] \in {<<>>, <<St("open", at[r])>>}
             /\ todo'[Run(r)] = <<>> => bill'[at[r]]
  <2>1. Run(r) \in Actors
    BY ActorsDiffer
  <2>2. CASE a # Run(r)
    BY <1>2, <1>3, <1>4, <2>1, <2>2 DEF Paid
  <2>3. CASE a = Run(r)
    <3>1. todo[a] = <<x>> /\ x = St("open", at[r])
      BY <1>1, <1>2, <1>4, <2>3 DEF Paid
    <3>2. x.op = "open" /\ x.c = at[r]
      BY <3>1, StIs
    <3>3. todo'[a] = <<>>
      BY <3>1, <3>2, ExecLast DEF Writes
    <3>4. Claimer(r)
      BY <1>4 DEF Claimer
    <3>5. at[r] \in Containers /\ row[at[r]] = "busy"
      BY <3>4, ClaimerAt DEF Custody, Standing
    <3>6. bill'[at[r]]
      BY <1>1, <3>2, <3>5, ExecBill
    <3>7. QED
      BY <2>3, <3>3, <3>6
  <2>4. QED
    BY <2>2, <2>3
<1>5. QED
  BY <1>2, <1>3, <1>4 DEF Paid

LEMMA ExecMetered ==
  ASSUME TypeInv, Discipline, Exclusion, Custody, Metered, NEW a \in Actors, Exec(a), ~Intrusion
  PROVE  Metered'
BY ExecOnTheWay, ExecWanted, ExecSettled, ExecOwed, ExecPaid DEF Metered, Custody
(* What a run's step does to the engine, the ledger and its own list.      *)
LEMMA RunMeters ==
  ASSUME NEW r \in Runs, RunStep(r)
  PROVE  /\ bill' = bill /\ todo[Run(r)] = <<>>
         /\ engine' = engine \/ pc[Run(r)] \in {"resume", "request", "start"}
<1>1. bill' = bill
  BY DEF RunStep, EnterLadder, Decide, Inspect, Resume, RequestCreate, CreateAnswers, CreateFails,
     StartCreated, SetUp, ProvisionFails, Claim, LeaveLadder, Attribute, End, Ended, db
<1>2. todo[Run(r)] = <<>>
  BY DEF RunStep, EnterLadder, Decide, Inspect, Resume, RequestCreate, CreateAnswers, CreateFails,
     StartCreated, SetUp, ProvisionFails, Claim, LeaveLadder, Attribute, End, Ended, InRun, Free
<1>3. engine' = engine \/ pc[Run(r)] \in {"resume", "request", "start"}
  BY DEF RunStep, EnterLadder, Decide, Inspect, Resume, RequestCreate, CreateAnswers, CreateFails,
     StartCreated, SetUp, ProvisionFails, Claim, LeaveLadder, Attribute, End, Ended, InRun
<1>4. QED
  BY <1>1, <1>2, <1>3

(* A create is waited for by whoever asked for it.                         *)
LEMMA RunAsks ==
  ASSUME TypeInv, NEW r \in Runs, RunStep(r), pc'[Run(r)] = "creating"
  PROVE  pc[Run(r)] = "request" /\ at' = at
<1>1. Run(r) \in Actors
  BY ActorsDiffer
<1>2. CASE RequestCreate(r)
  BY <1>2 DEF RequestCreate, InRun
<1>3. CASE CreateFails(r)
  BY <1>1, <1>3, ActorsDiffer DEF CreateFails, TypeInv, Places
<1>4. CASE ~RequestCreate(r) /\ ~CreateFails(r)
  <2>1. \E p \in {"decide", "inspect", "resume", "request", "retry", "failed", "claim", "start",
                  "setup", "claimed", "working", "again", "new", "running", "ending"} :
           \E q : Goto(Run(r), p, q)
    BY <1>4 DEF RunStep, EnterLadder, Decide, Inspect, Resume, CreateAnswers, StartCreated,
       SetUp, ProvisionFails, Claim, LeaveLadder, Attribute, End, Ended
  <2>2. QED
    BY <1>1, <2>1, GotoLeaves
<1>5. QED
  BY <1>2, <1>3, <1>4

(* The claim comes with the opening of the interval.                       *)
LEMMA RunOpens ==
  ASSUME TypeInv, NEW r \in Runs, RunStep(r), pc'[Run(r)] = "claimed"
  PROVE  todo'[Run(r)] = <<St("open", at[r])>> /\ at' = at
<1>1. Run(r) \in Actors
  BY ActorsDiffer
<1>2. CASE Claim(r)
  <2>1. \/ Goto(Run(r), "claimed", Uptime("busy", at[r]))
        \/ Goto(Run(r), "retry", <<>>)
    BY <1>2 DEF Claim
  <2>2. todo'[Run(r)] = Uptime("busy", at[r])
    BY <1>1, <2>1, GotoLeaves
  <2>3. Uptime("busy", at[r]) = <<St("open", at[r])>>
    BY DEF Uptime
  <2>4. QED
    BY <1>2, <2>2, <2>3 DEF Claim
<1>3. CASE CreateFails(r)
  BY <1>1, <1>3, ActorsDiffer DEF CreateFails, TypeInv, Places
<1>4. CASE ~Claim(r) /\ ~CreateFails(r)
  <2>1. \E p \in {"decide", "inspect", "resume", "request", "retry", "failed", "claim", "creating",
                  "start", "setup", "working", "again", "new", "running", "ending"} :
           \E q : Goto(Run(r), p, q)
    BY <1>4 DEF RunStep, EnterLadder, Decide, Inspect, Resume, RequestCreate, CreateAnswers,
       StartCreated, SetUp, ProvisionFails, LeaveLadder, Attribute, End, Ended
  <2>2. QED
    BY <1>1, <2>1, GotoLeaves
<1>5. QED
  BY <1>2, <1>3, <1>4

LEMMA RunOnTheWay ==
  ASSUME TypeInv, Discipline, Used, OnTheWay, NEW r \in Runs, RunStep(r)
  PROVE  OnTheWay'
<1> DEFINE Way == {"inspect", "resume", "request", "creating"}
<1>1. Turn(r) /\ named' = named
  BY RunTurn
<1>2. ASSUME NEW s \in Runs, s # r, pc'[Run(s)] \in Way
      PROVE  /\ at'[s] = at[s] /\ pc'[Run(s)] = pc[Run(s)]
             /\ row'[at[s]] = row[at[s]] /\ (Known(at[s])' => Known(at[s]))
  <2>1. at'[s] = at[s] /\ pc'[Run(s)] = pc[Run(s)]
    BY <1>2, RunOthers
  <2>2. lock = Run(s) /\ at[s] \in Containers
    BY <1>2, <2>1 DEF Discipline, Seats, Inside, Climb, TypeInv, Places, OnContainer, Near
  <2>3. lock # Run(r)
    BY <1>2, <2>2, ActorsDiffer
  <2>4. engine' = engine
    BY <2>3, RunMeters DEF Discipline, Seats, Inside, Climb
  <2>5. row'[at[s]] = row[at[s]]
    BY <2>2, <2>3, RunRows
  <2>6. QED
    BY <2>1, <2>4, <2>5 DEF Known
<1>3. ASSUME pc'[Run(r)] \in {"inspect", "resume"} PROVE row'[at'[r]] # "none"
  <2>1. PICK c \in Containers : row' = row /\ Takes(r, c)
    BY <1>1, <1>3 DEF Turn, Claims, Stays, Leaves, Creates, Moves, Ahead
  <2>2. at'[r] = c
    BY <2>1 DEF Takes, TypeInv, Places
  <2>3. QED
    BY <2>1, <2>2 DEF Takes
<1>4. ASSUME pc'[Run(r)] = "request"
      PROVE  row'[at'[r]] = "none" /\ named' # at'[r] /\ engine'[at'[r]] = "unused"
  <2>1. PICK c \in Containers : row' = row /\ Creates(r, c)
    BY <1>1, <1>4 DEF Turn, Claims, Stays, Leaves, Takes, Moves, Ahead
  <2>2. at'[r] = c /\ ~Known(c) /\ pc[Run(r)] = "decide"
    BY <2>1 DEF Creates, Moves, TypeInv, Places
  <2>3. engine' = engine
    BY <2>2, RunMeters
  <2>4. row[c] = "none" /\ named # c
    BY <2>2 DEF Used
  <2>5. QED
    BY <1>1, <2>1, <2>2, <2>3, <2>4 DEF Known
<1>5. ASSUME pc'[Run(r)] = "creating" PROVE row'[at'[r]] = "none" /\ named' # at'[r]
  <2>1. pc[Run(r)] = "request" /\ at' = at
    BY <1>5, RunAsks
  <2>2. at[r] \in Containers /\ row[at[r]] = "none" /\ named # at[r]
    BY <2>1 DEF OnTheWay, TypeInv, Places, OnContainer, Near
  <2>3. row'[at[r]] = row[at[r]]
    BY <2>1, <2>2, RunRows DEF Claims, Moves
  <2>4. QED
    BY <1>1, <2>1, <2>2, <2>3
<1>6. ASSUME NEW s \in Runs
      PROVE  /\ pc'[Run(s)] \in {"inspect", "resume"} => row'[at'[s]] # "none"
             /\ pc'[Run(s)] \in {"request", "creating"} => row'[at'[s]] = "none" /\ named' # at'[s]
             /\ pc'[Run(s)] = "request" => engine'[at'[s]] = "unused"
  <2>1. CASE s = r
    BY <1>3, <1>4, <1>5, <2>1
  <2>2. CASE s # r
    BY <1>1, <1>2, <2>2 DEF OnTheWay, Known
  <2>3. QED
    BY <2>1, <2>2
<1>7. QED
  BY <1>6 DEF OnTheWay, Known

LEMMA RunWanted ==
  ASSUME TypeInv, Discipline, Wanted, NEW r \in Runs, RunStep(r)
  PROVE  Wanted'
<1> SUFFICES ASSUME NEW b \in Actors, NEW x \in Of(todo'[b]), x.op = "adoptUnpooled"
             PROVE  named' = x.c
  BY DEF Wanted
<1>1. named' = named
  BY RunTurn
<1>2. CASE b = Run(r)
  BY <1>1, <1>2, RunAhead DEF Adopts, Replaces
<1>3. CASE b # Run(r)
  BY <1>1, <1>3, RunLists DEF Wanted
<1>4. QED
  BY <1>2, <1>3

(* Nobody can come to want a container whose create failed.                *)
LEMMA FailedCreateDead ==
  ASSUME TypeInv, Discipline, Used, OnTheWay, NEW r \in Runs, RunStep(r), CreateFails(r),
         NEW c, c = at[r]
  PROVE  Dead(c)'
<1>1. Run(r) \in Actors /\ pc[Run(r)] = "creating" /\ lock = Run(r)
  BY ActorsDiffer DEF CreateFails, InRun, Discipline, Seats, Inside, Climb
<1>2. c \in Containers /\ row[c] = "none" /\ named # c /\ Known(c)
  BY <1>1 DEF OnTheWay, TypeInv, Places, OnContainer, Near, Used, Climb
<1>3. UNCHANGED <<row, named, engine, at>>
  BY DEF CreateFails, db
<1>4. /\ pc'[Run(r)] = "failed"
      /\ todo'[Run(r)] = <<StTo("show", c, "error")>>
  BY <1>1, <1>2, ActorsDiffer DEF CreateFails, TypeInv, Places, Todos
<1>5. ASSUME NEW s \in Runs, pc'[Run(s)] \in Climb PROVE FALSE
  <2>1. s # r
    BY <1>4, <1>5 DEF Climb
  <2>2. pc[Run(s)] \in Climb
    BY <1>5, <2>1, RunOthers
  <2>3. QED
    BY <1>1, <2>1, <2>2, ActorsDiffer DEF Discipline, Seats, Inside
<1>6. ASSUME NEW s \in Runs, NEW x \in Of(todo'[Run(s)]), x.op = "adoptUnpooled" PROVE FALSE
  <2>1. Run(s) \in Actors
    BY ActorsDiffer
  <2>2. CASE s = r
    <3>1. x = StTo("show", c, "error")
      BY <1>4, <1>6, <2>2, OfOne
    <3>2. QED
      BY <1>6, <3>1, StToIs
  <2>3. CASE s # r
    <3>1. x \in Of(todo[Run(s)]) /\ Run(s) # Run(r)
      BY <1>6, <2>1, <2>3, RunLists, ActorsDiffer
    <3>2. QED
      BY <1>1, <1>6, <2>1, <3>1, ExecSeat
  <2>4. QED
    BY <2>2, <2>3
<1>7. QED
  BY <1>2, <1>3, <1>5, <1>6 DEF Dead, Known

LEMMA RunSettled ==
  ASSUME TypeInv, Discipline, Used, OnTheWay, Settled, NEW r \in Runs, RunStep(r)
  PROVE  Settled'
<1>1. ASSUME NEW c \in Containers, pc'[Cleanup(c)] # "off" \/ todo'[Cleanup(c)] # <<>>
      PROVE  Dead(c)'
  <2>1. todo'[Cleanup(c)] = todo[Cleanup(c)] /\ Cleanup(c) # Run(r) /\ Cleanup(c) \in Actors
    BY RunLists, ActorsDiffer
  <2>2. CASE CreateFails(r) /\ c = at[r]
    BY <2>2, FailedCreateDead
  <2>3. CASE ~(CreateFails(r) /\ c = at[r])
    <3>1. pc'[Cleanup(c)] = pc[Cleanup(c)]
      <4>1. CASE CreateFails(r)
        BY <2>1, <2>3, <4>1, ActorsDiffer DEF CreateFails, TypeInv, Places
      <4>2. CASE ~CreateFails(r)
        BY <2>1, <4>2, RunLists
      <4>3. QED
        BY <4>1, <4>2
    <3>2. Dead(c)
      BY <1>1, <2>1, <3>1 DEF Settled
    <3>3. QED
      BY <3>2, DeadStays DEF Next
  <2>4. QED
    BY <2>2, <2>3
<1>2. ASSUME NEW x \in Of(todo'[Reaper]) PROVE Dead(x.c)'
  <2>1. Reaper \in Actors /\ todo'[Reaper] = todo[Reaper]
    BY RunLists, ActorsDiffer, PassesDiffer
  <2>2. Dead(x.c) /\ x.c \in Containers
    BY <1>2, <2>1, AheadTyped DEF Settled
  <2>3. QED
    BY <2>2, DeadStays DEF Next
<1>3. QED
  BY <1>1, <1>2 DEF Settled

LEMMA RunOwed ==
  ASSUME TypeInv, Discipline, Owed, NEW r \in Runs, RunStep(r)
  PROVE  Owed'
<1> SUFFICES ASSUME NEW s \in Runs, pc'[Run(s)] = "decide", NEW x \in Of(todo'[Run(s)]),
                    x.op = "close"
             PROVE  row'[x.c] # "busy"
  BY DEF Owed
<1>1. Run(s) \in Actors
  BY ActorsDiffer
<1>2. CASE s = r
  <2>1. PICK y : todo'[Run(s)] = <<y>> /\ y.op = "adoptUnpooled"
    BY <1>2, RunEnters, OfNone
  <2>2. x = y
    BY <2>1, OfOne
  <2>3. QED
    BY <2>1, <2>2
<1>3. CASE s # r
  <2>1. /\ todo'[Run(s)] = todo[Run(s)] /\ pc[Run(s)] = "decide" /\ Run(s) # Run(r)
    BY <1>1, <1>3, RunLists, RunOthers, ActorsDiffer
  <2>2. lock = Run(s) /\ row[x.c] # "busy" /\ x.c \in Containers
    BY <1>1, <2>1, AheadTyped DEF Discipline, Seats, Inside, Owed
  <2>3. QED
    BY <2>1, <2>2, RunRows
<1>4. QED
  BY <1>2, <1>3

LEMMA RunPaid ==
  ASSUME TypeInv, Paid, NEW r \in Runs, RunStep(r)
  PROVE  Paid'
<1>1. bill' = bill /\ todo[Run(r)] = <<>>
  BY RunMeters
<1>2. ASSUME NEW s \in Runs, s # r
      PROVE  at'[s] = at[s] /\ pc'[Run(s)] = pc[Run(s)] /\ todo'[Run(s)] = todo[Run(s)]
  BY <1>2, RunOthers, RunLists, ActorsDiffer
<1>3. pc'[Run(r)] = "claimed" => todo'[Run(r)] = <<St("open", at'[r])>>
  BY RunOpens
<1>4. pc'[Run(r)] \in {"working", "running"} => bill'[at'[r]]
  <2>1. SUFFICES ASSUME pc'[Run(r)] \in {"working", "running"} PROVE bill'[at'[r]]
    OBVIOUS
  <2>2. at' = at /\ pc[Run(r)] \in {"claimed", "working"}
    BY <2>1, RunTurn DEF Turn, Claims, Stays, Leaves, Takes, Creates, Moves, Ahead
  <2>3. QED
    BY <1>1, <2>2 DEF Paid
<1>5. <<St("open", at'[r])>> # <<>>
  OBVIOUS
<1>6. QED
  BY <1>1, <1>2, <1>3, <1>4, <1>5, ZenonT(60) DEF Paid

LEMMA RunMetered ==
  ASSUME TypeInv, Discipline, Used, Metered, NEW r \in Runs, RunStep(r)
  PROVE  Metered'
BY RunOnTheWay, RunWanted, RunSettled, RunOwed, RunPaid, SMTT(40) DEF Metered

(* The passes write no interval,                                           *)
LEMMA PassBill ==
  ASSUME PassStep
  PROVE  bill' = bill
BY ZenonT(60)
DEF PassStep, Background, StopAnswers, StopFails, RemovalAnswers, RemovalFails, CallSettles,
   LookUpCreate, RemoveCreated, EngineCreates, EngineStops, Outside, LivenessReads,
   OperatorRemoves, Retire, RetireDone, HoldRunning, EnsureRunning, EnsureStarts,
   EnsureFails, EnsureDone, ReleaseHold,
   LivenessJudges, LivenessFailsWedged, SyncReads, SyncJudges, SyncMeasures, SyncWithinLimit,
   SyncStopsOverLimit, Sweep, SettingsChange, db

(* and call the engine about what it knows.                                *)
LEMMA PassKnown ==
  ASSUME TypeInv, Used, PassStep, NEW c \in Containers, ~Known(c)
  PROVE  ~Known(c)'
<1>1. ASSUME NEW d \in Containers, Known(d), NEW state, EngineMoves(d, state)
      PROVE  engine'[c] = engine[c]
  BY <1>1 DEF EngineMoves, TypeInv, World
<1>2. ASSUME NEW d \in Containers, Background(d)
      PROVE  engine' = engine \/ (Known(d) /\ \E state : EngineMoves(d, state))
  BY <1>2 DEF Background, StopAnswers, StopFails, RemovalAnswers, RemovalFails, CallSettles,
     LookUpCreate, RemoveCreated, Known, Used
<1>3. ASSUME NEW d \in Containers,
             EngineCreates(d) \/ EngineStops(d) \/ Outside(d) \/ LivenessReads(d) \/ OperatorRemoves(d)
      PROVE  engine' = engine \/ (Known(d) /\ \E state : EngineMoves(d, state))
  BY <1>3 DEF EngineCreates, EngineStops, Outside, LivenessReads, OperatorRemoves, Known, Used
<1>4. ASSUME EnsureStarts
      PROVE  \E d \in Containers : Known(d) /\ \E state : EngineMoves(d, state)
  BY <1>4 DEF EnsureStarts, Known, TypeInv, Memory, HasOne
<1>5. ASSUME Sweep
      PROVE  engine' = engine \/ \E d \in Containers : Known(d) /\ \E state : EngineMoves(d, state)
  BY <1>5 DEF Sweep, Known, Exists
<1>6. ASSUME SyncStopsOverLimit
      PROVE  engine' = engine \/ \E d \in Containers : Known(d) /\ \E state : EngineMoves(d, state)
  BY <1>6 DEF SyncStopsOverLimit, Known, TypeInv, Memory, Looking
<1>7. ASSUME \/ Retire \/ RetireDone \/ HoldRunning \/ EnsureRunning \/ EnsureFails \/ EnsureDone
             \/ ReleaseHold
             \/ LivenessJudges \/ LivenessFailsWedged \/ SyncReads \/ SyncJudges \/ SyncMeasures
             \/ SyncWithinLimit \/ SettingsChange
      PROVE  engine' = engine
  BY <1>7 DEF Retire, RetireDone, HoldRunning, EnsureRunning, EnsureFails, EnsureDone, ReleaseHold,
     LivenessJudges,
     LivenessFailsWedged, SyncReads, SyncJudges, SyncMeasures, SyncWithinLimit, SettingsChange
<1>8. engine' = engine \/ \E d \in Containers : Known(d) /\ \E state : EngineMoves(d, state)
  BY <1>2, <1>3, <1>4, <1>5, <1>6, <1>7 DEF PassStep
<1>9. engine'[c] = engine[c]
  BY <1>1, <1>8
<1>10. QED
  BY <1>9 DEF Known

(* A confirmed orphan is one nobody can come to want.                      *)
LEMMA OrphanDead ==
  ASSUME TypeInv, Discipline, OnTheWay, Wanted, NEW c \in Containers,
         engine[c] \in Exists, c \notin Referenced, ~BeingCreated(c)
  PROVE  Dead(c)
<1>1. row[c] = "none" /\ named # c /\ Known(c)
  BY DEF Referenced, Known, Exists
<1>2. ASSUME NEW s \in Runs, at[s] = c PROVE pc[Run(s)] \notin Climb
  <2>1. pc[Run(s)] \notin {"creating", "start", "setup", "claim"}
    BY <1>2 DEF BeingCreated
  <2>2. pc[Run(s)] \notin {"inspect", "resume", "request"}
    BY <1>1, <1>2 DEF OnTheWay
  <2>3. QED
    BY <2>1, <2>2 DEF Climb
<1>3. \A s \in Runs : \A x \in Of(todo[Run(s)]) : x.op = "adoptUnpooled" => x.c # c
  BY <1>1, ActorsDiffer DEF Wanted
<1>4. QED
  BY <1>1, <1>2, <1>3 DEF Dead

LEMMA PassSettled ==
  ASSUME TypeInv, Discipline, OnTheWay, Wanted, Settled, PassStep
  PROVE  Settled'
<1>1. ASSUME NEW c \in Containers, Dead(c) PROVE Dead(c)'
  BY <1>1, DeadStays DEF Next, PassStep
<1>2. ASSUME NEW c \in Containers, pc'[Cleanup(c)] # "off" \/ todo'[Cleanup(c)] # <<>>
      PROVE  Dead(c)'
  <2>1. pc[Cleanup(c)] # "off" \/ todo[Cleanup(c)] # <<>>
    BY <1>2, PassCalls, PassSettles
  <2>2. QED
    BY <1>1, <2>1 DEF Settled
<1>3. ASSUME NEW x \in Of(todo'[Reaper]) PROVE Dead(x.c)'
  <2>1. Reaper \in Actors
    BY ActorsDiffer
  <2>2. CASE todo'[Reaper] = todo[Reaper]
    <3>1. x.c \in Containers /\ Dead(x.c)
      BY <1>3, <2>1, <2>2, AheadTyped DEF Settled
    <3>2. QED
      BY <1>1, <3>1
  <2>3. CASE todo'[Reaper] # todo[Reaper]
    <3>1. Sweep
      <4>1. TypeInv'
        BY NextTypes DEF Next, PassStep
      <4>2. PICK q : q = todo'[Reaper] /\ q \in Seq(Typed) /\ x \in Of(q)
        BY <1>3, <2>1, <4>1 DEF TypeInv, Todos
      <4>3. x \in Typed
        BY <4>2, OfNone, OfTail
      <4>4. x.c \in Containers
        BY <4>3 DEF Typed, Statement
      <4>5. QED
        BY <2>3, <4>4, PassSettles
    <3>2. PICK c \in Containers :
             /\ engine[c] \in Exists /\ c \notin Referenced /\ ~BeingCreated(c)
             /\ Goto(Reaper, "off", <<St("adopt", c), St("close", c)>>)
      BY <2>3, <3>1 DEF Sweep
    <3>3. todo'[Reaper] = <<St("adopt", c), St("close", c)>>
      BY <2>1, <3>2, GotoLeaves
    <3>4. x.c = c
      BY <1>3, <3>3, OfTwo, StIs
    <3>5. QED
      BY <1>1, <3>2, <3>4, OrphanDead
  <2>4. QED
    BY <2>2, <2>3
<1>4. QED
  BY <1>2, <1>3 DEF Settled

LEMMA PassMetered ==
  ASSUME TypeInv, Discipline, Used, Metered, PassStep, Discipline'
  PROVE  Metered'
<1>1. /\ UNCHANGED <<row, named, at, up>>
      /\ \A s \in Runs : pc'[Run(s)] = pc[Run(s)] /\ todo'[Run(s)] = todo[Run(s)]
  BY PassCalls
<1>2. bill' = bill
  BY PassBill
<1>3. ASSUME NEW s \in Runs, pc[Run(s)] = "request" PROVE ~Known(at[s])'
  <2>1. PICK c : c = at[s]
    OBVIOUS
  <2>2. c \in Containers /\ ~Known(c)
    BY <1>3, <2>1 DEF Metered, OnTheWay, TypeInv, Places, OnContainer, Near
  <2>3. ~Known(c)'
    BY <2>2, PassKnown
  <2>4. QED
    BY <1>1, <2>1, <2>3 DEF Known
<1>4. OnTheWay'
  BY <1>1, <1>3 DEF Metered, OnTheWay
<1>5. ASSUME NEW b \in Actors, NEW x \in Of(todo'[b]), x.op = "adoptUnpooled" PROVE named' = x.c
  <2>1. PICK s \in Runs : b = Run(s)
    BY <1>5 DEF Discipline, Own, Mine, Deciding
  <2>2. QED
    BY <1>1, <1>5, <2>1 DEF Metered, Wanted
<1>6. Wanted' /\ Owed' /\ Paid'
  BY <1>1, <1>2, <1>5 DEF Metered, Wanted, Owed, Paid
<1>7. Settled'
  BY PassSettled DEF Metered
<1>8. QED
  BY <1>4, <1>6, <1>7 DEF Metered

LEMMA StillMetered ==
  ASSUME \A r \in Runs : pc[Run(r)] = "new",
         \A c \in Containers : pc[Cleanup(c)] = "off" /\ todo[Cleanup(c)] = <<>>,
         todo[Reaper] = <<>>,
         \A a \in Actors : \A x \in Of(todo[a]) : x.op = "open"
  PROVE  Metered
BY OfNone DEF Metered, OnTheWay, Wanted, Settled, Owed, Paid

LEMMA CrashMetered ==
  ASSUME Crash, Discipline'
  PROVE  Metered'
<1>1. Down' /\ ~up'
  BY DEF Discipline, Crash
<1>2. /\ \A r \in Runs : pc'[Run(r)] = "new"
      /\ \A c \in Containers : pc'[Cleanup(c)] = "off" /\ todo'[Cleanup(c)] = <<>>
      /\ \A a \in Actors : todo'[a] = <<>> /\ Of(todo'[a]) = {}
  BY <1>1, OfNone, ActorsDiffer DEF Down
<1>3. Of(todo'[Reaper]) = {}
  BY <1>2, ActorsDiffer
<1>4. QED
  BY <1>2, <1>3 DEF Metered, OnTheWay, Wanted, Settled, Owed, Paid

LEMMA RestartMetered ==
  ASSUME TypeInv, Discipline, Restart
  PROVE  Metered'
<1>1. Down /\ ~up /\ UNCHANGED pc
  BY DEF Discipline, Restart
<1>2. /\ \A b \in Actors : b # Boot => todo'[b] = todo[b]
      /\ \A x \in Of(todo'[Boot]) : x.op = "open"
  BY RestartLists
<1>3. /\ \A r \in Runs : pc'[Run(r)] = "new"
      /\ \A c \in Containers : pc'[Cleanup(c)] = "off" /\ todo'[Cleanup(c)] = <<>>
      /\ todo'[Reaper] = <<>>
  BY <1>1, <1>2, ActorsDiffer, PassesDiffer DEF Down
<1>4. ASSUME NEW a \in Actors, NEW x \in Of(todo'[a]) PROVE x.op = "open"
  BY <1>1, <1>2, <1>4, OfNone DEF Down
<1>5. QED
  BY <1>3, <1>4, OfNone DEF Metered, OnTheWay, Wanted, Settled, Owed, Paid

LEMMA NextMetered ==
  ASSUME TypeInv, Discipline, Used, Exclusion, Custody, Metered, [Next]_vars, ~Intrusion,
         Discipline'
  PROVE  Metered'
<1>1. CASE UNCHANGED vars
  <2>1. \A c \in Containers : Dead(c) => Dead(c)'
    BY DeadStays
  <2>2. \A x \in Of(todo[Reaper]) : x.c \in Containers
    BY AheadTyped, ActorsDiffer
  <2>3. Settled'
    BY <1>1, <2>1, <2>2 DEF vars, process, Metered, Settled
  <2>4. QED
    BY <1>1, <2>3 DEF vars, db, process, Metered, OnTheWay, Wanted, Owed, Paid, Known
<1>2. QED
  BY <1>1, NextKinds, ExecMetered, RunMetered, PassMetered, CrashMetered, RestartMetered

LEMMA InitMetered == Init => Metered
<1> SUFFICES ASSUME Init PROVE Metered
  OBVIOUS
<1>1. /\ \A r \in Runs : pc[Run(r)] = "new"
      /\ \A c \in Containers : pc[Cleanup(c)] = "off"
  BY IdlePcTyped, ActorsDiffer, PassesDiffer DEF Init
<1>2. \A a \in Actors : todo[a] = <<>> /\ Of(todo[a]) = {}
  BY OfNone DEF Init
<1>3. QED
  BY <1>1, <1>2, ActorsDiffer, StillMetered

(* The hours a run spends in its container are metered from before it      *)
(* leaves the ladder until it releases unless there has been an intrusion, *)
(* for any number of runs and containers, across crashes, restarts, failed *)
(* calls, interference from outside, held work, the crons, the operator    *)
(* and the reaper: no stop, removal, failed create, adoption or sweep      *)
(* closes the interval of a container a run is in (claimPoolMember,        *)
(* closeUptimeInterval).                                                   *)
THEOREM WorkBilled == Spec /\ [][~Intrusion]_vars => []WorkIsBilled
<1> DEFINE Inv == TypeInv /\ Discipline /\ Used /\ Exclusion /\ Custody /\ Metered
<1>1. Init => Inv
  BY TypesInit, InitDiscipline, InitExclusion, InitCustody, InitMetered
<1>2. Inv /\ [Next /\ ~Intrusion]_vars => Inv'
  <2> SUFFICES ASSUME Inv, [Next]_vars, ~Intrusion \/ UNCHANGED vars PROVE Inv'
    OBVIOUS
  <2>1. TypeInv' /\ Discipline'
    BY NextTypes, NextDiscipline
  <2>2. ~Intrusion
    BY DEF Intrusion, vars, db
  <2>3. ~Trespass /\ ~LateWrite
    BY <2>2, TrespassIntrudes, LateTrespass
  <2>4. Used' /\ Exclusion' /\ Custody' /\ Metered'
    BY <2>1, <2>2, <2>3, NextUsed, NextExclusion, NextCustody, NextMetered
  <2>5. QED
    BY <2>1, <2>4
<1>3. Inv => WorkIsBilled
  BY MeteredFollows
<1>4. QED
  BY <1>1, <1>2, <1>3, PTL DEF Spec
=============================================================================
