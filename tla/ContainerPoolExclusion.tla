----------------------- MODULE ContainerPoolExclusion -----------------------
(* That a container serves one run at a time, for any number of runs and   *)
(* containers.                                                             *)
EXTENDS ContainerPoolDiscipline

-----------------------------------------------------------------------------
(* The steps, by what they do to the places of runs                        *)

Moves(r, from, to) == pc[Run(r)] \in from /\ pc'[Run(r)] \in to

(* The ladder takes a member it finds idle or suspended, and current.      *)
Takes(r, c) ==
    /\ c \in Containers \ outdated /\ at' = [at EXCEPT ![r] = c]
    /\ \/ row[c] = "idle" /\ Moves(r, {"decide"}, {"inspect"})
       \/ row[c] = "suspended" /\ Moves(r, {"decide"}, {"resume"})

(* It creates a container nobody ever referred to.                         *)
Creates(r, c) ==
    /\ c \in Containers /\ at' = [at EXCEPT ![r] = c] /\ ~Known(c)
    /\ \A s \in Runs : at[s] # c
    /\ Moves(r, {"decide"}, {"request"})

Ahead == {"creating", "start", "setup", "claim", "retry", "failed"}

(* A step of a run that leaves it where it is, or without a container.     *)
Stays(r) ==
    /\ at' = at
    /\ \/ Moves(r, {"new", "again"}, {"decide"})
       \/ Moves(r, {"decide"}, {"retry", "failed"})
       \/ Moves(r, {"resume"}, Ahead) /\ tracked[at[r]] = "none"
       \/ Moves(r, Climb \ {"resume"}, Ahead)
       \/ Moves(r, {"claimed"}, {"working"})
       \/ Moves(r, {"working"}, {"running"})
       \/ Moves(r, {"working", "running"}, {"ending"}) /\ r \notin serving'
Leaves(r) ==
    /\ at' = [at EXCEPT ![r] = None]
    /\ \/ Moves(r, {"retry", "failed"}, {"again", "new"})
       \/ Moves(r, {"ending"}, {"new"}) /\ todo[Run(r)] = <<>>
Claims(r) ==
    /\ at' = at /\ row[at[r]] = "idle" /\ row' = [row EXCEPT ![at[r]] = "busy"]
    /\ Moves(r, {"claim"}, {"claimed"})
    /\ serving' \subseteq serving \union {r}

Turn(r) ==
    \/ Claims(r)
    \/ row' = row /\ serving' \subseteq serving /\ (Stays(r) \/ Leaves(r))
    \/ row' = row /\ serving' = serving /\ \E c \in Containers : Takes(r, c) \/ Creates(r, c)

LEMMA RunTurn ==
  ASSUME TypeInv, NEW r \in Runs, RunStep(r)
  PROVE  Turn(r) /\ UNCHANGED <<outdated, named, tracked, holds, seen, up>>
<1>1. Run(r) \in Actors /\ pc \in [Actors -> RunPc \union PassPc] /\ serving \subseteq Runs
  BY ActorsDiffer DEF TypeInv, Places, World
<1>2. UNCHANGED <<outdated, named, tracked, holds, seen, up>>
  BY DEF RunStep, EnterLadder, Decide, Inspect, Resume, RequestCreate, CreateAnswers, CreateFails,
     StartCreated, SetUp, ProvisionFails, Claim, LeaveLadder, Attribute, End, Ended, db
<1>3. ASSUME NEW p, NEW P, pc[Run(r)] \in P, \E q : Goto(Run(r), p, q)
      PROVE  Moves(r, P, {p}) /\ \A T : p \in T => Moves(r, P, T)
  BY <1>1, <1>3, GotoLeaves DEF Moves
<1>4. ASSUME NEW c, NEW state, c \in Containers, EngineMoves(c, state)
      PROVE  serving' \subseteq serving
  BY <1>4 DEF EngineMoves
<1> SUFFICES Turn(r)
  BY <1>2
<1>5. CASE EnterLadder(r)
  <2>1. Moves(r, {"new", "again"}, {"decide"})
    BY <1>3, <1>5 DEF EnterLadder, InRun
  <2>2. QED
    BY <1>5, <2>1 DEF EnterLadder, db, Turn, Stays
<1>6. CASE Decide(r)
  <2>1. row' = row /\ serving' = serving /\ pc[Run(r)] = "decide"
    BY <1>6 DEF Decide, db, InRun
  <2>2. ASSUME NEW c \in Containers \ outdated, row[c] = "idle", Goto(Run(r), "inspect", <<>>),
               at' = [at EXCEPT ![r] = c]
        PROVE  Takes(r, c)
    BY <1>3, <2>1, <2>2 DEF Takes
  <2>3. ASSUME NEW c \in Containers \ outdated, row[c] = "suspended", Goto(Run(r), "resume", <<>>),
               at' = [at EXCEPT ![r] = c]
        PROVE  Takes(r, c)
    BY <1>3, <2>1, <2>3 DEF Takes
  <2>4. ASSUME NEW c \in Containers, engine[c] = "unused", \A s \in Runs : at[s] # c,
               \E q : Goto(Run(r), "request", q), at' = [at EXCEPT ![r] = c]
        PROVE  Creates(r, c)
    BY <1>3, <2>1, <2>4 DEF Creates, Known
  <2>5. ASSUME \E q : Goto(Run(r), "retry", q) \/ Goto(Run(r), "failed", q), at' = at
        PROVE  Stays(r)
    <3>1. Moves(r, {"decide"}, {"retry", "failed"})
      BY <1>3, <2>1, <2>5
    <3>2. QED
      BY <2>5, <3>1 DEF Stays
  <2>6. (\E c \in Containers : Takes(r, c) \/ Creates(r, c)) \/ Stays(r)
    BY <1>6, <2>2, <2>3, <2>4, <2>5 DEF Decide
  <2>7. QED
    BY <2>1, <2>6 DEF Turn
<1>7. CASE Resume(r)
  <2>1. /\ pc[Run(r)] = "resume" /\ tracked[at[r]] = "none" /\ at' = at /\ row' = row
        /\ at[r] \in Containers
    BY <1>7, InRunFacts DEF Resume, CallAwaited, db, Near
  <2>2. \E p \in Ahead : \E q : Goto(Run(r), p, q)
    BY <1>7 DEF Resume, Ahead
  <2>3. Moves(r, {"resume"}, Ahead)
    BY <1>3, <2>1, <2>2
  <2>4. serving' \subseteq serving
    BY <1>4, <1>7, <2>1 DEF Resume
  <2>5. QED
    BY <2>1, <2>3, <2>4 DEF Turn, Stays
<1>8. CASE \/ Inspect(r) \/ RequestCreate(r) \/ CreateAnswers(r) \/ StartCreated(r) \/ SetUp(r)
           \/ ProvisionFails(r)
  <2>1. /\ pc[Run(r)] \in {"inspect", "request", "creating", "start", "setup"}
        /\ at' = at /\ row' = row
    BY <1>8 DEF Inspect, RequestCreate, CreateAnswers, StartCreated, SetUp, ProvisionFails, InRun, db
  <2>2. at[r] \in Containers
    BY <2>1 DEF TypeInv, Places, OnContainer, Near
  <2>3. \E p \in Ahead : \E q : Goto(Run(r), p, q)
    BY <1>8 DEF Inspect, RequestCreate, CreateAnswers, StartCreated, SetUp, ProvisionFails, Ahead
  <2>4. Moves(r, Climb \ {"resume"}, Ahead)
    BY <1>3, <2>1, <2>3 DEF Climb
  <2>5. serving' \subseteq serving
    BY <1>4, <1>8, <2>2 DEF Inspect, RequestCreate, CreateAnswers, StartCreated, SetUp, ProvisionFails
  <2>6. QED
    BY <2>1, <2>4, <2>5 DEF Turn, Stays
<1>9. CASE CreateFails(r)
  <2>1. pc'[Run(r)] = "failed"
    BY <1>1, <1>9, ActorsDiffer DEF CreateFails
  <2>2. Moves(r, Climb \ {"resume"}, Ahead)
    BY <1>9, <2>1 DEF CreateFails, InRun, Climb, Ahead, Moves
  <2>3. QED
    BY <1>9, <2>2 DEF CreateFails, db, Turn, Stays
<1>10. CASE Claim(r)
  <2>1. pc[Run(r)] = "claim" /\ at' = at
    BY <1>10 DEF Claim, InRun
  <2>2. CASE row[at[r]] = "idle"
    <3>1. Moves(r, {"claim"}, {"claimed"})
      BY <1>3, <1>10, <2>1, <2>2 DEF Claim
    <3>2. QED
      BY <1>10, <2>1, <2>2, <3>1 DEF Claim, Turn, Claims
  <2>3. CASE row[at[r]] # "idle"
    <3>1. Goto(Run(r), "retry", <<>>) /\ UNCHANGED <<row, serving>>
      BY <1>10, <2>3 DEF Claim
    <3>2. Moves(r, Climb \ {"resume"}, Ahead)
      BY <1>3, <2>1, <3>1 DEF Climb, Ahead
    <3>3. QED
      BY <2>1, <3>1, <3>2 DEF Turn, Stays
  <2>4. QED
    BY <2>2, <2>3
<1>11. CASE LeaveLadder(r)
  <2>1. row' = row /\ serving' = serving
    BY <1>11 DEF LeaveLadder, db
  <2>2. \/ pc[Run(r)] = "claimed" /\ Goto(Run(r), "working", <<>>) /\ at' = at
        \/ /\ pc[Run(r)] \in {"retry", "failed"} /\ at' = [at EXCEPT ![r] = None]
           /\ Goto(Run(r), "again", <<>>) \/ Goto(Run(r), "new", <<>>)
    BY <1>11 DEF LeaveLadder, InRun
  <2>3. Stays(r) \/ Leaves(r)
    <3>1. CASE pc[Run(r)] = "claimed" /\ Goto(Run(r), "working", <<>>) /\ at' = at
      BY <1>3, <3>1 DEF Stays
    <3>2. CASE /\ pc[Run(r)] \in {"retry", "failed"} /\ at' = [at EXCEPT ![r] = None]
               /\ Goto(Run(r), "again", <<>>) \/ Goto(Run(r), "new", <<>>)
      BY <1>3, <3>2 DEF Leaves
    <3>3. QED
      BY <2>2, <3>1, <3>2
  <2>4. QED
    BY <2>1, <2>3 DEF Turn
<1>12. CASE Attribute(r) \/ End(r)
  <2>1. row' = row /\ at' = at /\ serving' \subseteq serving
    BY <1>12 DEF Attribute, End
  <2>2. Stays(r)
    <3>1. CASE Attribute(r)
      <4>1. Moves(r, {"working"}, {"running"})
        BY <1>3, <3>1 DEF Attribute, InRun
      <4>2. QED
        BY <2>1, <4>1 DEF Stays
    <3>2. CASE End(r)
      <4>1. Moves(r, {"working", "running"}, {"ending"})
        BY <1>3, <3>2 DEF End, InRun
      <4>2. QED
        BY <2>1, <3>2, <4>1 DEF Stays, End
    <3>3. QED
      BY <1>12, <3>1, <3>2
  <2>3. QED
    BY <2>1, <2>2 DEF Turn
<1>13. CASE Ended(r)
  <2>1. Moves(r, {"ending"}, {"new"})
    BY <1>3, <1>13 DEF Ended, InRun
  <2>2. QED
    BY <1>13, <2>1 DEF Ended, InRun, Free, db, Turn, Leaves
<1>14. QED
  BY <1>5, <1>6, <1>7, <1>8, <1>9, <1>10, <1>11, <1>12, <1>13 DEF RunStep

(* What the other steps do to the members' standing, to the calls in       *)
(* flight and to the worker's view.                                        *)
LEMMA PassTurn ==
  ASSUME TypeInv, Discipline, PassStep
  PROVE  /\ outdated' = outdated \/ outdated' = {c \in Containers : row[c] # "none"}
         /\ serving' \subseteq serving
         /\ \A c \in Containers :
               /\ tracked'[c] = tracked[c] \/ pc'[Stop(c)] = "off" \/ tracked[c] = "remove"
               /\ \/ todo'[Stop(c)] = todo[Stop(c)] /\ pc'[Stop(c)] = pc[Stop(c)]
                  \/ todo'[Stop(c)] = <<>> \/ pc'[Stop(c)] # "off"
         /\ lock' = Worker =>
               \/ lock = Worker /\ seen'["worker"] = seen["worker"]
               \/ named \in Containers /\ seen'["worker"].c = named
         /\ \A x \in Of(todo'[Worker]) : x.op = "markRunning" =>
               \/ x \in Of(todo[Worker])
               \/ lock = Worker /\ x.c = seen["worker"].c /\ tracked[x.c] = "none"
<1>1. outdated' = outdated \/ outdated' = {c \in Containers : row[c] # "none"}
  BY DEF PassStep, Background, StopAnswers, StopFails, RemovalAnswers, RemovalFails, CallSettles,
     LookUpCreate, RemoveCreated, EngineCreates, EngineStops, Outside, LivenessReads,
     OperatorRemoves, Retire, RetireDone, HoldRunning, EnsureRunning, EnsureStarts,
     EnsureFails, EnsureDone, ReleaseHold,
     LivenessJudges, LivenessFailsWedged, SyncReads, SyncJudges, SyncMeasures, SyncWithinLimit,
     SyncStopsOverLimit, Sweep, SettingsChange, db, process
<1>2. serving' \subseteq serving
  <2>1. serving' = serving \/ \E c, state : EngineMoves(c, state)
    BY ZenonT(60) DEF PassStep, Background, StopAnswers, StopFails, RemovalAnswers, RemovalFails, CallSettles,
       LookUpCreate, RemoveCreated, EngineCreates, EngineStops, Outside, LivenessReads,
       OperatorRemoves, Retire, RetireDone, HoldRunning, EnsureRunning, EnsureStarts,
     EnsureFails, EnsureDone, ReleaseHold,
       LivenessJudges, LivenessFailsWedged, SyncReads, SyncJudges, SyncMeasures, SyncWithinLimit,
       SyncStopsOverLimit, Sweep, SettingsChange, db, process
  <2>2. QED
    BY <2>1 DEF EngineMoves
<1>3. ASSUME NEW c \in Containers
      PROVE  /\ tracked'[c] = tracked[c] \/ pc'[Stop(c)] = "off" \/ tracked[c] = "remove"
             /\ \/ todo'[Stop(c)] = todo[Stop(c)] /\ pc'[Stop(c)] = pc[Stop(c)]
                \/ todo'[Stop(c)] = <<>> \/ pc'[Stop(c)] # "off"
  <2>1. /\ {Stop(c), Removal(c), Cleanup(c), Retirer, Worker, Watch, Operator, Reaper} \subseteq Actors
        /\ Stop(c) \notin {Retirer, Worker, Watch, Operator, Reaper}
        /\ \A d \in Containers : /\ Stop(c) # Removal(d) /\ Stop(c) # Cleanup(d)
                                 /\ Stop(c) = Stop(d) => c = d
                                 /\ {Stop(d), Removal(d), Cleanup(d)} \subseteq Actors
    <3>1. {Retirer, Worker, Watch, Operator, Reaper} \subseteq Passes
      BY PassesDiffer
    <3>2. Stop(c) \notin {Retirer, Worker, Watch, Operator, Reaper}
      BY <3>1, ActorsDiffer
    <3>3. QED
      BY <3>2, ActorsDiffer
  <2>2. ASSUME NEW a \in Actors, a # Stop(c), \E p, q : Goto(a, p, q)
        PROVE  todo'[Stop(c)] = todo[Stop(c)] /\ pc'[Stop(c)] = pc[Stop(c)]
    BY <2>1, <2>2, GotoLeaves
  <2>3. ASSUME NEW d \in Containers, CallSettles(d)
        PROVE  /\ tracked'[c] = tracked[c] \/ pc'[Stop(c)] = "off" \/ tracked[c] = "remove"
               /\ \/ todo'[Stop(c)] = todo[Stop(c)] /\ pc'[Stop(c)] = pc[Stop(c)]
                  \/ todo'[Stop(c)] = <<>> \/ pc'[Stop(c)] # "off"
    <3>1. PICK kind \in {"stop", "remove"} :
             LET a == IF kind = "stop" THEN Stop(d) ELSE Removal(d) IN
             /\ Goto(a, "off", <<>>)
             /\ tracked' = [tracked EXCEPT ![d] = IF @ = kind THEN "none" ELSE @]
      BY <2>3 DEF CallSettles
    <3>2. tracked \in [Containers -> {"none", "stop", "remove"}]
      BY DEF TypeInv, Memory
    <3>3. CASE kind = "stop"
      <4>1. Goto(Stop(d), "off", <<>>) /\ tracked' = [tracked EXCEPT ![d] = IF @ = "stop" THEN "none" ELSE @]
        BY <3>1, <3>3
      <4>2. CASE c = d
        BY <2>1, <4>1, <4>2, GotoLeaves
      <4>3. CASE c # d
        BY <2>1, <2>2, <3>2, <4>1, <4>3
      <4>4. QED
        BY <4>2, <4>3
    <3>4. CASE kind = "remove"
      <4>1. Goto(Removal(d), "off", <<>>) /\ tracked' = [tracked EXCEPT ![d] = IF @ = "remove" THEN "none" ELSE @]
        BY <3>1, <3>4
      <4>2. QED
        BY <2>1, <2>2, <3>2, <4>1
    <3>5. QED
      BY <3>3, <3>4
  <2>4. ASSUME NEW d \in Containers, StopAnswers(d) \/ StopFails(d)
        PROVE  /\ tracked'[c] = tracked[c]
               /\ \/ todo'[Stop(c)] = todo[Stop(c)] /\ pc'[Stop(c)] = pc[Stop(c)]
                  \/ pc'[Stop(c)] # "off"
    <3>1. tracked' = tracked /\ \E q : Goto(Stop(d), "settling", q)
      BY <2>4 DEF StopAnswers, StopFails
    <3>2. QED
      BY <2>1, <2>2, <3>1, GotoLeaves
  <2>5. ASSUME tracked' = tracked,
               \/ UNCHANGED <<pc, todo>>
               \/ \E d \in Containers : \E p, q : Goto(Removal(d), p, q) \/ Goto(Cleanup(d), p, q)
               \/ \E a \in {Retirer, Worker, Watch, Operator, Reaper} : \E p, q : Goto(a, p, q)
        PROVE  /\ tracked'[c] = tracked[c]
               /\ todo'[Stop(c)] = todo[Stop(c)] /\ pc'[Stop(c)] = pc[Stop(c)]
    BY <2>1, <2>2, <2>5
  <2> DEFINE Rest == /\ tracked' = tracked
                     /\ \/ UNCHANGED <<pc, todo>>
                        \/ \E d \in Containers : \E p, q : Goto(Removal(d), p, q) \/ Goto(Cleanup(d), p, q)
                        \/ \E a \in {Retirer, Worker, Watch, Operator, Reaper} : \E p, q : Goto(a, p, q)
  <2>6. ASSUME NEW d \in Containers,
               RemovalAnswers(d) \/ RemovalFails(d) \/ LookUpCreate(d) \/ RemoveCreated(d)
        PROVE  Rest
    BY <2>6 DEF RemovalAnswers, RemovalFails, LookUpCreate, RemoveCreated
  <2>7. ASSUME NEW d \in Containers,
               EngineCreates(d) \/ EngineStops(d) \/ Outside(d) \/ LivenessReads(d) \/ OperatorRemoves(d)
        PROVE  Rest
    BY <2>7 DEF EngineCreates, EngineStops, Outside, LivenessReads, OperatorRemoves, process
  <2>8. ASSUME \/ Retire \/ RetireDone \/ HoldRunning \/ EnsureRunning \/ EnsureStarts \/ EnsureFails \/ EnsureDone \/ ReleaseHold
        PROVE  Rest
    BY <2>8 DEF Retire, RetireDone, HoldRunning, EnsureRunning, EnsureStarts,
     EnsureFails, EnsureDone, ReleaseHold
  <2>9. ASSUME \/ LivenessJudges \/ LivenessFailsWedged \/ SyncReads \/ SyncJudges \/ SyncMeasures
               \/ SyncWithinLimit \/ SyncStopsOverLimit \/ Sweep \/ SettingsChange
        PROVE  Rest
    BY <2>9 DEF LivenessJudges, LivenessFailsWedged, SyncReads, SyncJudges, SyncMeasures,
       SyncWithinLimit, SyncStopsOverLimit, Sweep, SettingsChange, process
  <2>10. CASE Rest
    BY <2>5, <2>10
  <2> HIDE DEF Rest
  <2>11. QED
    BY <2>3, <2>4, <2>6, <2>7, <2>8, <2>9, <2>10 DEF PassStep, Background
<1>4. ASSUME lock' = Worker
      PROVE  \/ lock = Worker /\ seen'["worker"] = seen["worker"]
             \/ named \in Containers /\ seen'["worker"].c = named
  <2>1. seen \in [{"watch", "worker"} -> Reading]
    BY DEF TypeInv, Memory
  <2>2. /\ None # Worker /\ Retirer # Worker
    BY NobodyAssumption, ActorsDiffer, PassesDiffer
  <2>3. CASE EnsureRunning
    BY <2>1, <2>3 DEF EnsureRunning
  <2>4. CASE ~EnsureRunning
    <3>1. \/ lock' = lock /\ (seen' = seen \/ \E v : seen' = [seen EXCEPT !["watch"] = v])
          \/ lock' = None \/ lock' = Retirer
      BY <2>4, ZenonT(60) DEF PassStep, Background, StopAnswers, StopFails, RemovalAnswers, RemovalFails, CallSettles,
         LookUpCreate, RemoveCreated, EngineCreates, EngineStops, Outside, LivenessReads,
         OperatorRemoves, Retire, RetireDone, HoldRunning, EnsureStarts, EnsureFails, EnsureDone,
         ReleaseHold,
         LivenessJudges, LivenessFailsWedged, SyncReads, SyncJudges, SyncMeasures, SyncWithinLimit,
         SyncStopsOverLimit, Sweep, SettingsChange, process
    <3>2. QED
      BY <1>4, <2>1, <2>2, <3>1
  <2>5. QED
    BY <2>3, <2>4
<1>5. ASSUME NEW x \in Of(todo'[Worker]), x.op = "markRunning"
      PROVE  \/ x \in Of(todo[Worker])
             \/ lock = Worker /\ x.c = seen["worker"].c /\ tracked[x.c] = "none"
  <2>1. /\ {Retirer, Worker, Watch, Operator, Reaper} \subseteq Actors
        /\ Worker \notin {Retirer, Watch, Operator, Reaper}
        /\ \A d \in Containers : /\ {Stop(d), Removal(d), Cleanup(d)} \subseteq Actors
                                 /\ Worker \notin {Stop(d), Removal(d), Cleanup(d)}
    BY ActorsDiffer, PassesDiffer
  <2>2. ASSUME NEW a \in Actors, a # Worker, \E p, q : Goto(a, p, q)
        PROVE  todo'[Worker] = todo[Worker]
    BY <2>1, <2>2, GotoLeaves
  <2>3. ASSUME \/ todo' = todo
               \/ \E d \in Containers : \E p, q :
                     Goto(Stop(d), p, q) \/ Goto(Removal(d), p, q) \/ Goto(Cleanup(d), p, q)
               \/ \E a \in {Retirer, Watch, Operator, Reaper} : \E p, q : Goto(a, p, q)
        PROVE  todo'[Worker] = todo[Worker]
    BY <2>1, <2>2, <2>3
  <2>4. ASSUME NEW d \in Containers,
               \/ Background(d) \/ EngineCreates(d) \/ EngineStops(d) \/ Outside(d)
               \/ LivenessReads(d) \/ OperatorRemoves(d)
        PROVE  todo'[Worker] = todo[Worker]
    BY <2>3, <2>4, ZenonT(60) DEF Background, StopAnswers, StopFails, RemovalAnswers, RemovalFails,
       CallSettles, LookUpCreate, RemoveCreated, EngineCreates, EngineStops, Outside,
       LivenessReads, OperatorRemoves
  <2>5. ASSUME \/ Retire \/ RetireDone \/ HoldRunning \/ ReleaseHold \/ LivenessJudges
               \/ LivenessFailsWedged \/ SyncReads \/ SyncJudges \/ SyncMeasures
               \/ SyncWithinLimit \/ SyncStopsOverLimit \/ Sweep \/ SettingsChange
        PROVE  todo'[Worker] = todo[Worker]
    BY <2>3, <2>5, ZenonT(60) DEF Retire, RetireDone, HoldRunning, ReleaseHold, LivenessJudges,
       LivenessFailsWedged, SyncReads, SyncJudges, SyncMeasures, SyncWithinLimit,
       SyncStopsOverLimit, Sweep, SettingsChange
  <2>6. CASE EnsureRunning \/ EnsureFails \/ EnsureDone
    <3>1. PICK p, q : /\ Goto(Worker, p, q)
                      /\ q \in {<<>>, <<StTo("show", named, "running")>>}
      BY <2>6 DEF EnsureRunning, EnsureFails, EnsureDone
    <3>2. todo'[Worker] = q
      BY <2>1, <3>1, GotoLeaves
    <3>3. CASE q = <<>>
      BY <1>5, <3>2, <3>3, OfNone
    <3>4. CASE q = <<StTo("show", named, "running")>>
      <4>1. x = StTo("show", named, "running")
        BY <1>5, <3>2, <3>4, OfOne
      <4>2. x.op = "show"
        BY <4>1, StToIs
      <4>3. QED
        BY <1>5, <4>2
    <3>5. QED
      BY <3>1, <3>3, <3>4
  <2>7. CASE EnsureStarts
    <3> DEFINE c == seen["worker"].c
    <3>1. /\ lock = Worker /\ tracked[c] = "none"
          /\ Goto(Worker, "on", <<St("markRunning", c), StTo("show", c, "running")>>)
      BY <2>7 DEF EnsureStarts, CallAwaited
    <3>2. todo'[Worker] = <<St("markRunning", c), StTo("show", c, "running")>>
      BY <2>1, <3>1, GotoLeaves
    <3>3. x.c = c
      BY <1>5, <3>2, OfTwo, StIs, StToIs
    <3>4. QED
      BY <3>1, <3>3
  <2>8. QED
    BY <1>5, <2>4, <2>5, <2>6, <2>7 DEF PassStep
<1>6. QED
  BY <1>1, <1>2, <1>3, <1>4, <1>5

(* A statement is its actor's own, and moves no run.                       *)
LEMMA ExecBy ==
  ASSUME TypeInv, Discipline, NEW a \in Actors, Exec(a), NEW x, x = Head(todo[a])
  PROVE  /\ up /\ todo[a] # <<>> /\ x \in Of(todo[a]) /\ Mine(a, x) /\ x.c \in Containers
         /\ x.op \in Writes => x.to \in Written
         /\ UNCHANGED <<engine, lock, at, holds, seen, up>>
         /\ \A r \in Runs : pc'[Run(r)] = pc[Run(r)]
         /\ \A b \in Actors : b # a => todo'[b] = todo[b]
<1>1. /\ up /\ todo[a] # <<>> /\ x.c \in Containers /\ (x.op \in Writes => x.to \in Written)
  BY HeadTyped
<1>2. x \in Of(todo[a])
  BY HeadTyped, OfTail
<1>3. Mine(a, x)
  BY <1>2 DEF Discipline, Own
<1>4. \A r \in Runs : pc'[Run(r)] = pc[Run(r)]
  BY <1>1, ExecEffect, ExecMoves
<1>5. \A b \in Actors : b # a => todo'[b] = todo[b]
  BY ExecEffect DEF Done, TypeInv, Todos
<1>6. UNCHANGED <<engine, lock, at, holds, seen, up>>
  BY DEF Exec
<1>7. QED
  BY <1>1, <1>2, <1>3, <1>4, <1>5, <1>6

-----------------------------------------------------------------------------
(* Containers nothing will bring back                                      *)

(* No row, no project, no climb and no adoption: the pool has let go of c. *)
Dead(c) ==
    /\ row[c] = "none" /\ named # c /\ Known(c)
    /\ \A s \in Runs : /\ at[s] = c => pc[Run(s)] \notin Climb
                       /\ \A x \in Of(todo[Run(s)]) : x.op = "adoptUnpooled" => x.c # c

LEMMA DeadStays ==
  ASSUME TypeInv, Discipline, [Next]_vars, NEW c \in Containers, Dead(c)
  PROVE  Dead(c)'
<1>1. Known(c)'
  BY EngineGrows DEF Dead
<1>2. ASSUME NEW a \in Actors, Exec(a) PROVE Dead(c)'
  <2>1. PICK x : x = Head(todo[a])
    OBVIOUS
  <2>2. /\ x \in Of(todo[a]) /\ Mine(a, x) /\ at' = at /\ \A r \in Runs : pc'[Run(r)] = pc[Run(r)]
    BY <1>2, <2>1, ExecBy
  <2>3. x.op \in {"upsert", "name", "adoptUnpooled"} => x.c # c
    <3>1. CASE x.op \in {"upsert", "name"}
      <4>1. PICK s \in Runs : x.c = at[s] /\ pc[Run(s)] \in {"start", "setup", "claim"}
        BY <2>2, <3>1 DEF Mine, ByRun
      <4>2. QED
        BY <4>1 DEF Dead, Climb
    <3>2. CASE x.op = "adoptUnpooled"
      <4>1. PICK s \in Runs : a = Run(s)
        BY <2>2, <3>2 DEF Mine, Deciding
      <4>2. QED
        BY <2>2, <3>2, <4>1 DEF Dead
    <3>3. QED
      BY <3>1, <3>2
  <2>4. row'[c] = "none"
    BY <1>2, <2>1, <2>3, ExecRow DEF Dead
  <2>5. named' # c
    BY <1>2, <2>1, <2>3, ExecRow, ConstAssumption DEF Dead
  <2>6. ASSUME NEW s \in Runs, NEW y \in Of(todo'[Run(s)]), y.op = "adoptUnpooled"
        PROVE  y.c # c
    <3>1. y \in Of(todo[Run(s)])
      BY <1>2, <2>6, ExecOld, ActorsDiffer
    <3>2. QED
      BY <2>6, <3>1 DEF Dead
  <2>7. \A s \in Runs : at'[s] = c => pc'[Run(s)] \notin Climb
    BY <2>2 DEF Dead
  <2>8. QED
    BY <1>1, <2>4, <2>5, <2>6, <2>7 DEF Dead
<1>3. ASSUME NEW r \in Runs, RunStep(r) PROVE Dead(c)'
  <2>1. Turn(r) /\ named' = named
    BY <1>3, RunTurn
  <2>2. \A s \in Runs : s # r =>
           at'[s] = at[s] /\ pc'[Run(s)] = pc[Run(s)] /\ todo'[Run(s)] = todo[Run(s)]
    BY <1>3, RunMoves
  <2>3. at \in [Runs -> Containers \union {None}] /\ row \in [Containers -> RowState]
    BY DEF TypeInv, Places, Tables
  <2>4. row'[c] = "none"
    BY <2>1, <2>3 DEF Dead, Turn, Claims
  <2>5. ASSUME at'[r] = c PROVE pc'[Run(r)] \notin Climb
    <3>1. CASE at' = at
      BY <2>1, <2>3, <2>5, <3>1, ConstAssumption
         DEF Dead, Turn, Claims, Stays, Leaves, Takes, Creates, Moves, Climb, Ahead
    <3>2. CASE at' # at
      <4>1. CASE \E d \in Containers : Takes(r, d)
        BY <2>3, <2>5, <4>1 DEF Takes, Dead
      <4>2. CASE \E d \in Containers : Creates(r, d)
        BY <2>3, <2>5, <4>2 DEF Creates, Dead
      <4>3. CASE Leaves(r)
        BY <2>3, <2>5, <4>3, ConstAssumption DEF Leaves
      <4>4. QED
        BY <2>1, <3>2, <4>1, <4>2, <4>3 DEF Turn, Claims, Stays
    <3>3. QED
      BY <3>1, <3>2
  <2>6. ASSUME NEW x \in Of(todo'[Run(r)]), x.op = "adoptUnpooled" PROVE x.c # c
    <3>1. Adopts(x) \/ Replaces(Run(r), x)
      BY <1>3, <2>6, RunAhead
    <3>2. QED
      BY <2>6, <3>1 DEF Adopts, Replaces, Dead
  <2>7. ASSUME NEW s \in Runs
        PROVE  /\ at'[s] = c => pc'[Run(s)] \notin Climb
               /\ \A x \in Of(todo'[Run(s)]) : x.op = "adoptUnpooled" => x.c # c
    BY <2>2, <2>5, <2>6 DEF Dead
  <2>8. QED
    BY <1>1, <2>1, <2>4, <2>7 DEF Dead
<1>4. CASE PassStep
  BY <1>1, <1>4, PassCalls DEF Dead
<1>5. CASE Crash
  <2>1. /\ UNCHANGED <<row, named>> /\ \A a \in Actors : todo'[a] = <<>>
        /\ \A s \in Runs : at'[s] = None /\ Run(s) \in Actors
    BY <1>5, ActorsDiffer DEF Crash, db
  <2>2. QED
    BY <1>1, <2>1, OfNone, ConstAssumption DEF Dead
<1>6. CASE Restart
  <2>1. /\ UNCHANGED <<named, at, pc>> /\ row'[c] = "none"
    BY <1>6 DEF Restart, AfterRestart, Dead
  <2>2. \A s \in Runs : todo'[Run(s)] = todo[Run(s)]
    BY <1>6, RestartLists, ActorsDiffer, PassesDiffer
  <2>3. QED
    BY <1>1, <2>1, <2>2 DEF Dead
<1>7. CASE UNCHANGED vars
  BY <1>1, <1>7 DEF vars, db, process, Dead
<1>8. QED
  BY <1>2, <1>3, <1>4, <1>5, <1>6, <1>7, NextKinds

-----------------------------------------------------------------------------
(* One run per container                                                   *)

(* A run that holds its claim, its release still to be made.               *)
Claimer(r) ==
    \/ pc[Run(r)] \in {"claimed", "working", "running"}
    \/ pc[Run(r)] = "ending" /\ \E x \in Of(todo[Run(r)]) : x.op = "release"

(* A stop under way is in the in-flight map, where a resume waits for it,  *)
(* unless a removal took its place there; then nothing comes back to c.    *)
Called ==
    \A c \in Containers : pc[Stop(c)] # "off" => tracked[c] = "stop" \/ Dead(c)

(* While it is under way the ladder finds nothing there to use or claim.   *)
Withheld ==
    \A c \in Containers :
        /\ pc[Stop(c)] # "off" => row[c] # "busy" /\ (row[c] = "idle" => c \in outdated)
        /\ todo[Stop(c)] # <<>> => pc[Stop(c)] # "off"

(* What the ladder went on with, and the worker has started, is not being  *)
(* stopped; a stop of what the worker is to start is one it waits for.     *)
Undisturbed ==
    /\ \A s \in Runs :
          pc[Run(s)] \in (Climb \ {"resume"}) \union {"retry", "failed"} /\ at[s] \in Containers =>
              pc[Stop(at[s])] = "off"
    /\ \A x \in Of(todo[Worker]) : x.op = "markRunning" => pc[Stop(x.c)] = "off"
    /\ lock = Worker /\ pc[Stop(seen["worker"].c)] # "off" => tracked[seen["worker"].c] = "stop"

(* A destroyed member's row goes first, then the project's name for it.    *)
Struck ==
    \A a \in Actors : \A x \in Of(todo[a]) : x.op = "beginRemoval" =>
        /\ todo[a] # Destroy(x.c) => row[x.c] = "none"
        /\ todo[a] = <<x>> => named # x.c

(* The ladder sees who holds a claim,                                      *)
Sound ==
    \A r \in Runs : Claimer(r) => row[at[r]] \in {"busy", "none"} \/ at[r] \in outdated

(* so nobody shares a container with a claimer, not even on the way to it. *)
Lone ==
    \A r, s \in Runs :
        /\ Claimer(r) /\ at[r] = at[s]
        /\ Claimer(s) \/ pc[Run(s)] \in Climb \union {"retry", "failed"}
        => r = s

Serving == \A r \in serving : pc[Run(r)] \in {"claimed", "working", "running"}

Exclusion ==
    Called /\ Withheld /\ Undisturbed /\ Struck /\ Sound /\ Lone /\ Serving

LEMMA ExclusionFollows == TypeInv /\ Exclusion => OneRunPerContainer
<1> SUFFICES ASSUME TypeInv, Exclusion, NEW r \in serving, NEW s \in serving, at[r] = at[s]
             PROVE  r = s
  BY DEF OneRunPerContainer
<1>1. r \in Runs /\ s \in Runs
  BY DEF TypeInv, World
<1>2. Claimer(r) /\ Claimer(s)
  BY DEF Exclusion, Serving, Claimer
<1>3. QED
  BY <1>1, <1>2 DEF Exclusion, Lone

(* A write of the container-sync cron that comes too late: it was decided  *)
(* on before the cron asked the engine, takes no lock, and lands on a      *)
(* member a run holds, or makes one idle whose stop or removal is being    *)
(* waited for.                                                             *)
LateWrite ==
    /\ Exec(Watch)
    /\ \E c \in Containers :
          /\ row'[c] # row[c]
          /\ \/ row'[c] # "none" /\ \E r \in Runs : Claimer(r) /\ at[r] = c
             \/ row'[c] = "idle" /\ tracked[c] # "none"

LEMMA ClaimerAt ==
  ASSUME TypeInv, NEW r \in Runs, Claimer(r)
  PROVE  at[r] \in Containers
BY DEF Claimer, TypeInv, Places, OnContainer, Near

-----------------------------------------------------------------------------
(* Statements keep it                                                      *)

(* Whoever writes a row from the ladder, or retires, is inside the lock.   *)
LEMMA ExecSeat ==
  ASSUME TypeInv, Discipline, NEW a \in Actors, NEW x \in Of(todo[a]),
         x.op \in {"upsert", "name", "adoptUnpooled", "beginStop", "beginRemoval"}
  PROVE  /\ lock = a
         /\ x.op \in {"upsert", "name"} => ByRun(a, x.c, {"start", "setup", "claim"})
         /\ x.op = "adoptUnpooled" => Deciding(a)
         /\ x.op \in {"beginStop", "beginRemoval"} => Retires(a)
<1>1. Mine(a, x) /\ todo[a] # <<>>
  BY OfNone DEF Discipline, Own
<1>2. CASE x.op \in {"upsert", "name"}
  <2>1. PICK s \in Runs : a = Run(s) /\ pc[Run(s)] \in {"start", "setup", "claim"}
    BY <1>1, <1>2 DEF Mine, ByRun
  <2>2. QED
    BY <1>1, <1>2, <2>1 DEF Discipline, Seats, Inside, Climb, Mine
<1>3. CASE x.op = "adoptUnpooled"
  BY <1>1, <1>3 DEF Discipline, Seats, Inside, Deciding, Mine
<1>4. CASE x.op \in {"beginStop", "beginRemoval"}
  BY <1>1, <1>4 DEF Discipline, Seats, Inside, Retires, Mine
<1>5. QED
  BY <1>2, <1>3, <1>4

(* A pending removal: nobody else writes the row or the name back.         *)
LEMMA ExecStruck ==
  ASSUME TypeInv, Discipline, Struck, NEW a \in Actors, Exec(a)
  PROVE  Struck'
<1> SUFFICES ASSUME NEW b \in Actors, NEW y \in Of(todo'[b]), y.op = "beginRemoval"
             PROVE  /\ todo'[b] # Destroy(y.c) => row'[y.c] = "none"
                    /\ todo'[b] = <<y>> => named' # y.c
  BY DEF Struck
<1>1. PICK x : x = Head(todo[a])
  OBVIOUS
<1>2. /\ todo[a] # <<>> /\ x \in Of(todo[a]) /\ Mine(a, x) /\ x.c \in Containers
      /\ \A c \in Actors : c # a => todo'[c] = todo[c]
  BY <1>1, ExecBy
<1>3. y \in Of(todo[b]) /\ y.c \in Containers
  BY ExecOld, AheadTyped
<1>4. /\ todo[b] # Destroy(y.c) => row[y.c] = "none"
      /\ todo[b] = <<y>> => named # y.c
  BY <1>3 DEF Struck
<1>5. lock = b /\ Retires(b) /\ Mine(b, y)
  BY <1>3, ExecSeat DEF Discipline, Own
<1>6. /\ \A c \in Containers : c # x.c => row'[c] = row[c]
      /\ \/ row'[x.c] = row[x.c] /\ x.op # "delete"
         \/ row[x.c] # "none" /\ x.op # "delete"
         \/ x.op \in {"upsert", "adoptUnpooled"}
         \/ x.op = "delete" /\ row'[x.c] = "none"
      /\ \/ named' = named /\ (x.op = "unname" => named # x.c)
         \/ named' = x.c /\ x.op = "name"
         \/ named' = None
  BY <1>1, ExecRow
<1>7. y.c # None
  BY <1>3, ConstAssumption
<1>8. x.op \notin {"upsert", "name", "adoptUnpooled"}
  <2>1. ASSUME x.op \in {"upsert", "name", "adoptUnpooled"} PROVE FALSE
    <3>1. lock = a /\ (ByRun(a, x.c, {"start", "setup", "claim"}) \/ Deciding(a))
      BY <1>2, <2>1, ExecSeat
    <3>2. a = b
      BY <1>5, <3>1
    <3>3. QED
      BY <1>5, <3>1, <3>2, ActorsDiffer, PassesDiffer DEF ByRun, Deciding, Retires
  <2>2. QED
    BY <2>1
<1>9. (row[y.c] = "none" => row'[y.c] = "none") /\ (named # y.c => named' # y.c)
  BY <1>3, <1>6, <1>7, <1>8
<1>10. CASE b # a
  BY <1>2, <1>4, <1>9, <1>10
<1>11. CASE b = a
  <2>1. \/ todo[a] = Destroy(y.c) \/ todo[a] = <<St("unname", y.c), y>> \/ todo[a] = <<y>>
    BY <1>5, <1>11 DEF Mine
  <2>2. CASE todo[a] = Destroy(y.c)
    <3>1. x = St("delete", y.c) /\ Tail(todo[a]) = <<St("unname", y.c), St("beginRemoval", y.c)>>
      BY <1>1, <2>2 DEF Destroy
    <3>2. x.op = "delete" /\ x.c = y.c
      BY <3>1, StIs
    <3>3. row'[y.c] = "none"
      BY <1>6, <3>2
    <3>4. Done(a, <<>>)
      BY <1>1, <3>2, ExecList DEF Writes
    <3>5. todo'[a] = <<>> \o Tail(todo[a])
      BY <3>4 DEF Done, TypeInv, Todos
    <3>6. todo'[a] = <<St("unname", y.c), St("beginRemoval", y.c)>>
      BY <3>1, <3>5
    <3>7. todo'[a] # <<y>>
      BY <3>6
    <3>8. QED
      BY <1>11, <3>3, <3>7
  <2>3. CASE todo[a] = <<St("unname", y.c), y>>
    <3>1. x = St("unname", y.c)
      BY <1>1, <2>3
    <3>2. x.op = "unname" /\ x.c = y.c
      BY <3>1, StIs
    <3>3. named' # y.c
      BY <1>6, <1>7, <3>2
    <3>4. todo[a] # Destroy(y.c)
      BY <2>3 DEF Destroy
    <3>5. QED
      BY <1>4, <1>9, <1>11, <3>3, <3>4
  <2>4. CASE todo[a] = <<y>>
    <3>1. todo[a] # Destroy(y.c)
      BY <2>4 DEF Destroy
    <3>2. QED
      BY <1>4, <1>9, <1>11, <2>4, <3>1
  <2>5. QED
    BY <2>1, <2>2, <2>3, <2>4
<1>12. QED
  BY <1>10, <1>11

(* At the removal's own statement the pool has let go of the container.    *)
LEMMA RemovalDead ==
  ASSUME TypeInv, Discipline, Used, Struck, NEW a \in Actors, Exec(a),
         Head(todo[a]).op = "beginRemoval"
  PROVE  Dead(Head(todo[a]).c)
<1>1. PICK x : x = Head(todo[a])
  OBVIOUS
<1>2. x \in Of(todo[a]) /\ Mine(a, x) /\ x.c \in Containers /\ x.op = "beginRemoval"
  BY <1>1, ExecBy
<1>3. lock = a /\ Retires(a)
  BY <1>2, ExecSeat
<1>4. todo[a] = <<x>>
  <2>1. todo[a] = Destroy(x.c) \/ todo[a] = <<St("unname", x.c), x>> \/ todo[a] = <<x>>
    BY <1>2 DEF Mine
  <2>2. CASE todo[a] = Destroy(x.c)
    <3>1. x = St("delete", x.c)
      BY <1>1, <2>2 DEF Destroy
    <3>2. QED
      BY <1>2, <3>1, StIs
  <2>3. CASE todo[a] = <<St("unname", x.c), x>>
    <3>1. x = St("unname", x.c)
      BY <1>1, <2>3
    <3>2. QED
      BY <1>2, <3>1, StIs
  <2>4. QED
    BY <2>1, <2>2, <2>3
<1>5. todo[a] # Destroy(x.c)
  BY <1>4 DEF Destroy
<1>6. row[x.c] = "none" /\ named # x.c /\ Known(x.c)
  BY <1>2, <1>4, <1>5 DEF Struck, Used
<1>7. ASSUME NEW s \in Runs, pc[Run(s)] \in Climb \union {"decide"} PROVE FALSE
  <2>1. lock = Run(s)
    BY <1>7 DEF Discipline, Seats, Inside
  <2>2. QED
    BY <1>3, <1>7, <2>1, ActorsDiffer, PassesDiffer DEF Retires, Climb
<1>8. ASSUME NEW s \in Runs, NEW y \in Of(todo[Run(s)]), y.op = "adoptUnpooled" PROVE FALSE
  <2>1. Deciding(Run(s))
    BY <1>8, ExecSeat, ActorsDiffer
  <2>2. QED
    BY <1>7, <2>1, ActorsDiffer DEF Deciding
<1>9. QED
  BY <1>1, <1>6, <1>7, <1>8 DEF Dead

LEMMA ExecStops ==
  ASSUME TypeInv, Discipline, Used, Exclusion, NEW a \in Actors, Exec(a),
         NEW x, x = Head(todo[a]), NEW c \in Containers
  PROVE  \/ /\ pc'[Stop(c)] = pc[Stop(c)]
            /\ tracked'[c] = tracked[c] \/ (Dead(c) /\ x.op = "beginRemoval")
         \/ /\ x.op = "beginStop" /\ x.c = c /\ pc'[Stop(c)] = "calling" /\ tracked'[c] = "stop"
            /\ row'[c] \in {"suspended", "none"}
<1>1. x.c \in Containers
  BY ExecBy
<1>2. /\ pc \in [Actors -> RunPc \union PassPc] /\ tracked \in [Containers -> {"none", "stop", "remove"}]
      /\ Stop(c) \in Actors /\ Stop(x.c) \in Actors /\ Stop(c) # Removal(x.c)
      /\ Stop(c) = Stop(x.c) => c = x.c
  BY <1>1, ActorsDiffer DEF TypeInv, Places, Memory
<1>3. \/ UNCHANGED <<pc, tracked>>
      \/ /\ x.op = "beginStop" /\ row'[x.c] \in {"suspended", "none"}
         /\ pc' = [pc EXCEPT ![Stop(x.c)] = "calling"]
         /\ tracked' = [tracked EXCEPT ![x.c] = "stop"]
      \/ /\ x.op = "beginRemoval"
         /\ pc' = [pc EXCEPT ![Removal(x.c)] = "calling"]
         /\ tracked' = [tracked EXCEPT ![x.c] = "remove"]
  BY ExecRow
<1>4. x.op = "beginRemoval" => Dead(x.c)
  BY RemovalDead DEF Exclusion
<1>5. QED
  BY <1>1, <1>2, <1>3, <1>4

LEMMA ExecCalled ==
  ASSUME TypeInv, Discipline, Used, Exclusion, NEW a \in Actors, Exec(a)
  PROVE  Called'
<1> SUFFICES ASSUME NEW c \in Containers, pc'[Stop(c)] # "off"
             PROVE  tracked'[c] = "stop" \/ Dead(c)'
  BY DEF Called
<1>1. Dead(c) => Dead(c)'
  BY DeadStays DEF Next
<1>2. \/ pc'[Stop(c)] = pc[Stop(c)] /\ (tracked'[c] = tracked[c] \/ Dead(c))
      \/ tracked'[c] = "stop"
  BY ExecStops
<1>3. QED
  BY <1>1, <1>2 DEF Exclusion, Called

(* A run that has a statement for the row of c has c, past any stop of it. *)
LEMMA ExecRowUndisturbed ==
  ASSUME TypeInv, Discipline, Exclusion, NEW a \in Actors, NEW x \in Of(todo[a]),
         NEW P, P \subseteq {"start", "setup", "claim", "retry", "failed"}, ByRun(a, x.c, P)
  PROVE  pc[Stop(x.c)] = "off"
<1>1. PICK s \in Runs : x.c = at[s] /\ pc[Run(s)] \in {"start", "setup", "claim", "retry", "failed"}
  BY DEF ByRun
<1>2. x.c \in Containers
  BY AheadTyped
<1>3. QED
  BY <1>1, <1>2 DEF Exclusion, Undisturbed, Climb

LEMMA ExecWithheld ==
  ASSUME TypeInv, Discipline, Used, Exclusion, NEW a \in Actors, Exec(a), ~LateWrite
  PROVE  Withheld'
<1>1. PICK x : x = Head(todo[a])
  OBVIOUS
<1>2. /\ todo[a] # <<>> /\ x \in Of(todo[a]) /\ Mine(a, x) /\ x.c \in Containers
      /\ (x.op \in Writes => x.to \in Written)
      /\ \A b \in Actors : b # a => todo'[b] = todo[b]
  BY <1>1, ExecBy
<1>3. /\ \A c \in Containers : c # x.c => row'[c] = row[c]
      /\ \/ row'[x.c] = row[x.c]
         \/ x.op = "set" /\ row'[x.c] = x.to
         \/ x.op = "upsert" /\ row'[x.c] = x.to
         \/ x.op = "adoptUnpooled" /\ row'[x.c] = x.to /\ x.c \in outdated'
         \/ x.op = "delete" /\ row'[x.c] = "none"
         \/ x.op = "release" /\ row[x.c] \notin {"none", "suspended"} /\ row'[x.c] = "idle"
         \/ x.op = "markRunning" /\ row[x.c] = "suspended" /\ row'[x.c] = "idle"
         \/ x.op = "beginStop" /\ row'[x.c] = "suspended"
         \/ x.op = "unclaim" /\ row'[x.c] = "suspended"
      /\ outdated \subseteq outdated'
  BY <1>1, ExecRow
<1>4. ASSUME NEW c \in Containers, pc'[Stop(c)] # "off"
      PROVE  row'[c] # "busy" /\ (row'[c] = "idle" => c \in outdated')
  <2>1. CASE x.op = "beginStop" /\ x.c = c /\ row'[c] \in {"suspended", "none"}
    BY <2>1
  <2>2. CASE pc[Stop(c)] # "off"
    <3>1. row[c] # "busy" /\ (row[c] = "idle" => c \in outdated)
      BY <2>2 DEF Exclusion, Withheld
    <3>2. CASE row'[c] = row[c]
      BY <1>3, <3>1, <3>2
    <3>3. CASE row'[c] # row[c]
      <4>1. c = x.c
        BY <1>3, <3>3
      <4>2. ~ByRun(a, x.c, {"claim", "retry", "failed"}) /\ ~ByRun(a, x.c, {"start", "setup", "claim"})
        BY <1>2, <2>2, <4>1, ExecRowUndisturbed
      <4>3. CASE x.op = "set"
        BY <1>2, <1>3, <3>3, <4>1, <4>2, <4>3 DEF Mine
      <4>4. CASE x.op = "upsert"
        BY <1>2, <4>2, <4>4 DEF Mine
      <4>5. CASE x.op = "adoptUnpooled"
        BY <1>2, <1>3, <3>3, <4>1, <4>5 DEF Writes, Written
      <4>6. CASE x.op = "release"
        <5>1. PICK s \in Runs : a = Run(s) /\ x.c = at[s] /\ pc[a] = "ending"
          BY <1>2, <4>6 DEF Mine, ByRun
        <5>2. Claimer(s)
          BY <1>2, <4>6, <5>1 DEF Claimer
        <5>3. row[c] \in {"busy", "none"} \/ c \in outdated
          BY <4>1, <5>1, <5>2 DEF Exclusion, Sound
        <5>4. QED
          BY <1>3, <3>1, <3>3, <4>1, <4>6, <5>3
      <4>7. CASE x.op = "markRunning"
        <5>1. CASE a = Watch
          <6>1. row[c] = "suspended" /\ row'[c] = "idle"
            BY <1>3, <3>3, <4>1, <4>7
          <6>2. tracked[c] = "none"
            BY <3>3, <5>1, <6>1 DEF LateWrite
          <6>3. QED
            BY <2>2, <6>1, <6>2 DEF Exclusion, Called, Dead
        <5>2. CASE a = Worker
          BY <1>2, <2>2, <4>1, <4>7, <5>2 DEF Exclusion, Undisturbed
        <5>3. QED
          BY <1>2, <4>7, <5>1, <5>2 DEF Mine
      <4>8. QED
        BY <1>3, <3>3, <4>1, <4>3, <4>4, <4>5, <4>6, <4>7
    <3>4. QED
      BY <3>2, <3>3
  <2>3. QED
    BY <1>1, <1>4, <2>1, <2>2, ExecStops
<1>5. ASSUME NEW c \in Containers, todo'[Stop(c)] # <<>> PROVE pc'[Stop(c)] # "off"
  <2>1. todo[Stop(c)] # <<>>
    BY <1>2, <1>5, ActorsDiffer
  <2>2. pc[Stop(c)] # "off"
    BY <2>1 DEF Exclusion, Withheld
  <2>3. QED
    BY <1>1, <2>2, ExecStops
<1>6. QED
  BY <1>4, <1>5 DEF Withheld

LEMMA ExecUndisturbed ==
  ASSUME TypeInv, Discipline, Used, Exclusion, NEW a \in Actors, Exec(a)
  PROVE  Undisturbed'
<1>1. PICK x : x = Head(todo[a])
  OBVIOUS
<1>2. /\ x \in Of(todo[a]) /\ UNCHANGED <<lock, at, seen>>
      /\ \A r \in Runs : pc'[Run(r)] = pc[Run(r)]
  BY <1>1, ExecBy
<1>3. /\ x.op = "beginStop" => lock = Retirer
      /\ x.op = "beginRemoval" => lock # Worker
  <2>1. x.op \in {"beginStop", "beginRemoval"} => lock = a /\ Retires(a)
    BY <1>2, ExecSeat
  <2>2. Retires(a) => a # Worker
    BY ActorsDiffer, PassesDiffer DEF Retires
  <2>3. QED
    BY <1>2, <2>1, <2>2 DEF Discipline, Own, Mine
<1>4. ASSUME NEW s \in Runs, at'[s] \in Containers,
             pc'[Run(s)] \in (Climb \ {"resume"}) \union {"retry", "failed"}
      PROVE  pc'[Stop(at'[s])] = "off"
  <2>1. lock = Run(s) /\ Run(s) # Retirer /\ pc[Stop(at[s])] = "off"
    BY <1>2, <1>4, ActorsDiffer, PassesDiffer DEF Discipline, Seats, Inside, Exclusion, Undisturbed
  <2>2. QED
    BY <1>1, <1>2, <1>3, <1>4, <2>1, ExecStops
<1>5. ASSUME NEW y \in Of(todo'[Worker]), y.op = "markRunning" PROVE pc'[Stop(y.c)] = "off"
  <2>1. Worker \in Actors /\ Worker # Retirer
    BY ActorsDiffer, PassesDiffer
  <2>2. y \in Of(todo[Worker])
    BY <1>5, <2>1, ExecOld
  <2>3. lock = Worker /\ y.c \in Containers /\ pc[Stop(y.c)] = "off"
    BY <1>5, <2>1, <2>2, OfNone, AheadTyped DEF Discipline, Seats, Exclusion, Undisturbed
  <2>4. QED
    BY <1>1, <1>3, <2>1, <2>3, ExecStops
<1>6. ASSUME lock' = Worker, pc'[Stop(seen'["worker"].c)] # "off"
      PROVE  tracked'[seen'["worker"].c] = "stop"
  <2>1. lock = Worker /\ seen["worker"].c \in Containers /\ seen' = seen
    BY <1>2, <1>6 DEF TypeInv, Memory, HasOne
  <2>2. QED
    BY <1>1, <1>3, <1>6, <2>1, ExecStops DEF Exclusion, Undisturbed
<1>7. QED
  BY <1>4, <1>5, <1>6 DEF Undisturbed

LEMMA ExecClaimer ==
  ASSUME TypeInv, Discipline, NEW a \in Actors, Exec(a), NEW r \in Runs, Claimer(r)'
  PROVE  Claimer(r)
<1>1. pc'[Run(r)] = pc[Run(r)]
  BY ExecBy
<1>2. ASSUME NEW y \in Of(todo'[Run(r)]), y.op = "release" PROVE y \in Of(todo[Run(r)])
  BY <1>2, ExecOld, ActorsDiffer
<1>3. QED
  BY <1>1, <1>2 DEF Claimer

(* The statement of one run about its container is not about another's.    *)
LEMMA ExecAlone ==
  ASSUME TypeInv, Discipline, Exclusion, NEW a \in Actors, NEW x \in Of(todo[a]),
         NEW P, P \subseteq {"start", "setup", "claim", "retry", "failed"}, ByRun(a, x.c, P),
         NEW r \in Runs, Claimer(r)
  PROVE  at[r] # x.c
<1>1. PICK s \in Runs : a = Run(s) /\ x.c = at[s] /\ pc[Run(s)] \in {"start", "setup", "claim", "retry", "failed"}
  BY DEF ByRun
<1>2. s # r
  BY <1>1 DEF Claimer
<1>3. QED
  BY <1>1, <1>2 DEF Exclusion, Lone, Climb

LEMMA ExecSound ==
  ASSUME TypeInv, Discipline, Used, Exclusion, NEW a \in Actors, Exec(a), ~LateWrite
  PROVE  Sound'
<1> SUFFICES ASSUME NEW r \in Runs, Claimer(r)'
             PROVE  row'[at'[r]] \in {"busy", "none"} \/ at'[r] \in outdated'
  BY DEF Sound
<1>1. PICK x : x = Head(todo[a])
  OBVIOUS
<1>2. /\ x \in Of(todo[a]) /\ Mine(a, x) /\ x.c \in Containers /\ at' = at
      /\ \A s \in Runs : pc'[Run(s)] = pc[Run(s)]
  BY <1>1, ExecBy
<1>3. /\ \A c \in Containers : c # x.c => row'[c] = row[c]
      /\ \/ row'[x.c] = row[x.c]
         \/ x.op = "set" /\ row[x.c] # "none" /\ row'[x.c] = x.to
         \/ x.op = "upsert" /\ row'[x.c] = x.to
         \/ x.op = "adoptUnpooled" /\ row'[x.c] = x.to /\ x.c \in outdated'
         \/ x.op = "delete" /\ row'[x.c] = "none"
         \/ x.op = "release" /\ row[x.c] \notin {"none", "suspended"} /\ row'[x.c] = "idle"
         \/ x.op = "markRunning" /\ row[x.c] = "suspended" /\ row'[x.c] = "idle"
         \/ x.op = "beginStop" /\ row[x.c] = "idle" /\ row'[x.c] = "suspended"
         \/ x.op = "unclaim" /\ row'[x.c] = "suspended"
      /\ outdated \subseteq outdated'
  BY <1>1, ExecRow
<1>4. Claimer(r)
  BY ExecClaimer
<1>5. at[r] \in Containers /\ (row[at[r]] \in {"busy", "none"} \/ at[r] \in outdated)
  BY <1>4, ClaimerAt DEF Exclusion, Sound
<1>6. CASE x.c # at[r] \/ row'[x.c] = row[x.c] \/ at[r] \in outdated
  BY <1>2, <1>3, <1>5, <1>6
<1>7. CASE x.c = at[r] /\ row'[x.c] # row[x.c] /\ at[r] \notin outdated
  <2>1. ~ByRun(a, x.c, {"claim", "retry", "failed"}) /\ ~ByRun(a, x.c, {"start", "setup", "claim"})
    BY <1>2, <1>4, <1>7, ExecAlone
  <2>2. CASE x.op = "set"
    <3>1. a = Stop(x.c) /\ todo[a] # <<>>
      <4>1. a # Watch \/ row'[x.c] = "none"
        BY <1>2, <1>4, <1>7 DEF LateWrite
      <4>2. a = Watch => row'[x.c] # "none"
        BY <1>2, <1>3, <1>7, <2>1, <2>2, PassesDiffer, ActorsDiffer DEF Mine
      <4>3. QED
        BY <1>2, <2>1, <2>2, <4>1, <4>2, OfNone DEF Mine
    <3>2. pc[Stop(x.c)] # "off"
      BY <1>2, <3>1 DEF Exclusion, Withheld
    <3>3. row[x.c] # "busy"
      BY <1>2, <3>2 DEF Exclusion, Withheld
    <3>4. QED
      BY <1>3, <1>5, <1>7, <2>2, <3>3
  <2>3. CASE x.op = "upsert"
    BY <1>2, <2>1, <2>3 DEF Mine
  <2>4. CASE x.op = "release"
    <3>1. PICK s \in Runs : a = Run(s) /\ x.c = at[s] /\ pc[a] = "ending" /\ todo[a] = <<x>>
      BY <1>2, <2>4 DEF Mine, ByRun
    <3>2. Claimer(s)
      BY <1>2, <2>4, <3>1 DEF Claimer
    <3>3. s = r
      BY <1>4, <1>7, <3>1, <3>2 DEF Exclusion, Lone
    <3>4. PICK y \in Of(todo'[a]) : y.op = "release"
      BY <1>2, <3>1, <3>3 DEF Claimer
    <3>5. Done(a, <<>>) \/ Done(a, <<St("open", x.c)>>)
      BY <1>1, <2>4, ExecList DEF Writes
    <3>6. todo'[a] = <<>> \o Tail(todo[a]) \/ todo'[a] = <<St("open", x.c)>> \o Tail(todo[a])
      BY <3>5 DEF Done, TypeInv, Todos
    <3>7. Tail(todo[a]) = <<>>
      BY <3>1
    <3>8. todo'[a] = <<>> \/ todo'[a] = <<St("open", x.c)>>
      <4>1. \A z : <<z>> \o <<>> = <<z>>
        OBVIOUS
      <4>2. <<>> \o <<>> = <<>>
        OBVIOUS
      <4>3. QED
        BY <3>6, <3>7, <4>1, <4>2
    <3>9. y = St("open", x.c)
      BY <3>4, <3>8, OfNone, OfOne
    <3>10. QED
      BY <3>4, <3>9, StIs
  <2>5. CASE x.op = "unclaim"
    <3>1. a = Watch
      BY <1>2, <2>5 DEF Mine
    <3>2. row'[x.c] = "suspended"
      BY <1>3, <1>7, <2>5
    <3>3. QED
      BY <1>2, <1>4, <1>7, <3>1, <3>2 DEF LateWrite
  <2>6. QED
    BY <1>2, <1>3, <1>5, <1>7, <2>2, <2>3, <2>4, <2>5
<1>8. QED
  BY <1>6, <1>7

LEMMA ExecExclusion ==
  ASSUME TypeInv, Discipline, Used, Exclusion, NEW a \in Actors, Exec(a), ~LateWrite
  PROVE  Exclusion'
<1>1. at' = at /\ \A s \in Runs : pc'[Run(s)] = pc[Run(s)]
  BY ExecBy
<1>2. Lone'
  <2>1. ASSUME NEW r \in Runs, NEW s \in Runs, Claimer(r)', at'[r] = at'[s],
               Claimer(s)' \/ pc'[Run(s)] \in Climb \union {"retry", "failed"}
        PROVE  r = s
    <3>1. Claimer(r) /\ (Claimer(s)' => Claimer(s))
      BY <2>1, ExecClaimer
    <3>2. QED
      BY <1>1, <2>1, <3>1 DEF Exclusion, Lone
  <2>2. QED
    BY <2>1 DEF Lone
<1>3. Serving'
  <2>1. serving' \subseteq serving
    BY ExecRow
  <2>2. serving \subseteq Runs
    BY DEF TypeInv, World
  <2>3. QED
    BY <1>1, <2>1, <2>2 DEF Exclusion, Serving
<1>4. Struck'
  BY ExecStruck DEF Exclusion
<1>5. QED
  BY <1>2, <1>3, <1>4, ExecCalled, ExecWithheld, ExecUndisturbed, ExecSound DEF Exclusion

-----------------------------------------------------------------------------
(* The steps of a run keep it                                              *)

LEMMA RunClaimer ==
  ASSUME NEW r \in Runs, Turn(r), Claimer(r)'
  PROVE  at'[r] = at[r] /\ (Claimer(r) \/ Claims(r))
<1>1. pc'[Run(r)] \in {"claimed", "working", "running", "ending"}
  BY DEF Claimer
<1>2. Claims(r) \/ Stays(r)
  BY <1>1 DEF Turn, Leaves, Takes, Creates, Moves
<1>3. CASE Claims(r)
  BY <1>3 DEF Claims
<1>4. CASE Stays(r)
  <2>1. pc[Run(r)] \in {"claimed", "working", "running"} /\ at' = at
    BY <1>1, <1>4 DEF Stays, Moves, Ahead
  <2>2. QED
    BY <2>1 DEF Claimer
<1>5. QED
  BY <1>2, <1>3, <1>4

(* What of the others a run's step leaves alone.                           *)
LEMMA RunOthers ==
  ASSUME TypeInv, NEW r \in Runs, RunStep(r)
  PROVE  /\ \A s \in Runs : s # r => at'[s] = at[s] /\ pc'[Run(s)] = pc[Run(s)]
                                     /\ (Claimer(s)' = Claimer(s))
         /\ \A c \in Containers : pc'[Stop(c)] = pc[Stop(c)] /\ todo'[Stop(c)] = todo[Stop(c)]
<1>1. \A s \in Runs : s # r =>
          at'[s] = at[s] /\ pc'[Run(s)] = pc[Run(s)] /\ todo'[Run(s)] = todo[Run(s)]
  BY RunMoves
<1>2. ASSUME NEW s \in Runs, s # r PROVE Claimer(s)' = Claimer(s)
  BY <1>1, <1>2 DEF Claimer
<1>3. ASSUME NEW c \in Containers
      PROVE  pc'[Stop(c)] = pc[Stop(c)] /\ todo'[Stop(c)] = todo[Stop(c)]
  BY RunLists, ActorsDiffer
<1>4. QED
  BY <1>1, <1>2, <1>3

LEMMA RunUndisturbed ==
  ASSUME TypeInv, Discipline, Used, Exclusion, NEW r \in Runs, RunStep(r)
  PROVE  Undisturbed'
<1>1. Turn(r) /\ UNCHANGED <<seen, tracked>>
  BY RunTurn
<1>2. /\ \A s \in Runs : s # r => at'[s] = at[s] /\ pc'[Run(s)] = pc[Run(s)]
      /\ \A c \in Containers : pc'[Stop(c)] = pc[Stop(c)]
  BY RunOthers
<1>3. at \in [Runs -> Containers \union {None}] /\ None \notin Containers
  BY ConstAssumption DEF TypeInv, Places
<1>4. ASSUME at'[r] \in Containers, pc'[Run(r)] \in (Climb \ {"resume"}) \union {"retry", "failed"}
      PROVE  pc[Stop(at'[r])] = "off"
  <2>1. CASE \E c \in Containers : Takes(r, c)
    <3>1. PICK c \in Containers : Takes(r, c)
      BY <2>1
    <3>2. at'[r] = c /\ row[c] = "idle" /\ c \notin outdated
      BY <1>3, <1>4, <3>1 DEF Takes, Moves
    <3>3. QED
      BY <3>2 DEF Exclusion, Withheld
  <2>2. CASE \E c \in Containers : Creates(r, c)
    BY <1>3, <2>2 DEF Creates, Used
  <2>3. CASE Stays(r)
    <3>1. at'[r] = at[r] /\ pc[Run(r)] \in Climb \union {"decide"}
      BY <1>4, <2>3 DEF Stays, Moves, Climb, Ahead
    <3>2. CASE pc[Run(r)] = "decide"
      BY <1>3, <1>4, <3>1, <3>2 DEF Discipline, Seats
    <3>3. CASE pc[Run(r)] = "resume"
      <4>1. tracked[at[r]] = "none"
        BY <1>4, <2>3, <3>3 DEF Stays, Moves, Climb
      <4>2. ~Dead(at[r])
        BY <3>3 DEF Dead, Climb
      <4>3. QED
        BY <1>4, <3>1, <4>1, <4>2 DEF Exclusion, Called
    <3>4. CASE pc[Run(r)] \in Climb \ {"resume"}
      BY <1>4, <3>1, <3>4 DEF Exclusion, Undisturbed
    <3>5. QED
      BY <3>1, <3>2, <3>3, <3>4
  <2>4. CASE Leaves(r) \/ Claims(r)
    BY <1>3, <1>4, <2>4 DEF Leaves, Claims, Moves, Climb
  <2>5. QED
    BY <1>1, <2>1, <2>2, <2>3, <2>4 DEF Turn
<1>5. ASSUME NEW s \in Runs, at'[s] \in Containers,
             pc'[Run(s)] \in (Climb \ {"resume"}) \union {"retry", "failed"}
      PROVE  pc'[Stop(at'[s])] = "off"
  <2>1. CASE s = r
    BY <1>2, <1>4, <1>5, <2>1
  <2>2. CASE s # r
    BY <1>2, <1>5, <2>2 DEF Exclusion, Undisturbed
  <2>3. QED
    BY <2>1, <2>2
<1>6. Run(r) # Worker /\ None # Worker /\ Worker \in Actors
  BY ActorsDiffer, PassesDiffer, NobodyAssumption
<1>7. ASSUME lock' = Worker, pc'[Stop(seen'["worker"].c)] # "off"
      PROVE  tracked'[seen'["worker"].c] = "stop"
  <2>1. lock = Worker
    BY <1>6, <1>7, RunSeat DEF Discipline
  <2>2. seen["worker"].c \in Containers
    BY <2>1 DEF TypeInv, Memory, HasOne
  <2>3. QED
    BY <1>1, <1>2, <1>7, <2>1, <2>2 DEF Exclusion, Undisturbed
<1>8. ASSUME NEW x \in Of(todo'[Worker]), x.op = "markRunning" PROVE pc'[Stop(x.c)] = "off"
  <2>1. x \in Of(todo[Worker])
    BY <1>6, <1>8, RunLists
  <2>2. x.c \in Containers
    BY <1>6, <2>1, AheadTyped
  <2>3. QED
    BY <1>2, <1>8, <2>1, <2>2 DEF Exclusion, Undisturbed
<1>9. QED
  BY <1>5, <1>7, <1>8 DEF Undisturbed

LEMMA RunStruck ==
  ASSUME TypeInv, Discipline, Exclusion, NEW r \in Runs, RunStep(r)
  PROVE  Struck'
<1> SUFFICES ASSUME NEW b \in Actors, NEW y \in Of(todo'[b]), y.op = "beginRemoval"
             PROVE  /\ todo'[b] # Destroy(y.c) => row'[y.c] = "none"
                    /\ todo'[b] = <<y>> => named' # y.c
  BY DEF Struck
<1>1. CASE b = Run(r)
  <2>1. Replaces(Run(r), y)
    BY <1>1, RunAhead DEF Adopts
  <2>2. todo'[b] = Destroy(y.c)
    BY <1>1, <2>1 DEF Replaces
  <2>3. todo'[b] # <<y>>
    BY <2>2 DEF Destroy
  <2>4. QED
    BY <2>2, <2>3
<1>2. CASE b # Run(r)
  <2>1. todo'[b] = todo[b]
    BY <1>2, RunLists
  <2>2. y.c \in Containers
    BY <2>1, AheadTyped
  <2>3. named' = named /\ (row[y.c] = "none" => row'[y.c] = "none")
    BY <2>2, RunTurn DEF Turn, Claims, TypeInv, Tables
  <2>4. QED
    BY <2>1, <2>3 DEF Exclusion, Struck
<1>3. QED
  BY <1>1, <1>2

LEMMA RunLone ==
  ASSUME TypeInv, Discipline, Exclusion, NEW r \in Runs, RunStep(r)
  PROVE  Lone'
<1>1. Turn(r)
  BY RunTurn
<1>2. \A s \in Runs : s # r => at'[s] = at[s] /\ pc'[Run(s)] = pc[Run(s)] /\ (Claimer(s)' = Claimer(s))
  BY RunOthers
<1>3. at \in [Runs -> Containers \union {None}] /\ None \notin Containers
  BY ConstAssumption DEF TypeInv, Places
<1>4. ASSUME NEW s \in Runs, s # r, Claimer(r)', at'[r] = at'[s],
             Claimer(s)' \/ pc'[Run(s)] \in Climb \union {"retry", "failed"}
      PROVE  FALSE
  <2>1. at'[r] = at[r] /\ (Claimer(r) \/ Claims(r))
    BY <1>1, <1>4, RunClaimer
  <2>2. at[r] = at[s] /\ (Claimer(s) \/ pc[Run(s)] \in Climb \union {"retry", "failed"})
    BY <1>2, <1>4, <2>1
  <2>3. CASE Claimer(r)
    BY <1>4, <2>2, <2>3 DEF Exclusion, Lone
  <2>4. CASE Claims(r)
    <3>1. pc[Run(r)] = "claim"
      BY <2>4 DEF Claims, Moves
    <3>2. CASE Claimer(s)
      BY <1>4, <2>2, <3>1, <3>2 DEF Exclusion, Lone, Climb
    <3>3. CASE pc[Run(s)] \in Climb \union {"retry", "failed"}
      BY <1>4, <3>1, <3>3, ActorsDiffer DEF Discipline, Seats, Inside, Climb
    <3>4. QED
      BY <2>2, <3>2, <3>3
  <2>5. QED
    BY <2>1, <2>3, <2>4
<1>5. ASSUME NEW p \in Runs, p # r, Claimer(p), at[p] = at'[r],
             pc'[Run(r)] \in Climb \union {"retry", "failed"}
      PROVE  FALSE
  <2>1. at[p] \in Containers /\ (row[at[p]] \in {"busy", "none"} \/ at[p] \in outdated)
    BY <1>5, ClaimerAt DEF Exclusion, Sound
  <2>2. CASE \E c \in Containers : Takes(r, c)
    BY <1>3, <1>5, <2>1, <2>2 DEF Takes
  <2>3. CASE \E c \in Containers : Creates(r, c)
    BY <1>3, <1>5, <2>3 DEF Creates
  <2>4. CASE Stays(r)
    <3>1. at'[r] = at[r] /\ pc[Run(r)] \in Climb \union {"decide"}
      BY <1>5, <2>4 DEF Stays, Moves, Climb, Ahead
    <3>2. CASE pc[Run(r)] = "decide"
      BY <1>3, <1>5, <2>1, <3>1, <3>2 DEF Discipline, Seats
    <3>3. CASE pc[Run(r)] \in Climb
      BY <1>5, <3>1, <3>3 DEF Exclusion, Lone
    <3>4. QED
      BY <3>1, <3>2, <3>3
  <2>5. CASE Leaves(r) \/ Claims(r)
    BY <1>5, <2>5 DEF Leaves, Claims, Moves, Climb
  <2>6. QED
    BY <1>1, <2>2, <2>3, <2>4, <2>5 DEF Turn
<1>6. ASSUME NEW p \in Runs, NEW s \in Runs, Claimer(p)', at'[p] = at'[s],
             Claimer(s)' \/ pc'[Run(s)] \in Climb \union {"retry", "failed"}
      PROVE  p = s
  <2>1. CASE p = r /\ s # r
    BY <1>4, <1>6, <2>1
  <2>2. CASE p # r /\ s = r /\ Claimer(r)'
    BY <1>4, <1>6, <2>2
  <2>3. CASE p # r /\ s = r /\ pc'[Run(r)] \in Climb \union {"retry", "failed"}
    BY <1>2, <1>5, <1>6, <2>3
  <2>4. CASE p # r /\ s # r
    BY <1>2, <1>6, <2>4 DEF Exclusion, Lone
  <2>5. QED
    BY <1>6, <2>1, <2>2, <2>3, <2>4
<1>7. QED
  BY <1>6 DEF Lone

LEMMA RunExclusion ==
  ASSUME TypeInv, Discipline, Used, Exclusion, NEW r \in Runs, RunStep(r)
  PROVE  Exclusion'
<1>1. Turn(r) /\ UNCHANGED <<outdated, tracked>>
  BY RunTurn
<1>2. /\ \A s \in Runs : s # r => at'[s] = at[s] /\ pc'[Run(s)] = pc[Run(s)]
                                  /\ (Claimer(s)' = Claimer(s))
      /\ \A c \in Containers : pc'[Stop(c)] = pc[Stop(c)] /\ todo'[Stop(c)] = todo[Stop(c)]
  BY RunOthers
<1>3. row \in [Containers -> RowState] /\ at \in [Runs -> Containers \union {None}] /\ serving \subseteq Runs
  BY DEF TypeInv, Tables, Places, World
<1>4. Called'
  <2>1. \A c \in Containers : Dead(c) => Dead(c)'
    BY DeadStays DEF Next
  <2>2. QED
    BY <1>1, <1>2, <2>1 DEF Exclusion, Called
<1>5. Claims(r) => at[r] \in Containers /\ pc[Stop(at[r])] = "off"
  <2>1. Claims(r) => pc[Run(r)] = "claim"
    BY DEF Claims, Moves
  <2>2. Claims(r) => at[r] \in Containers
    BY <2>1 DEF TypeInv, Places, OnContainer, Near
  <2>3. QED
    BY <2>1, <2>2 DEF Exclusion, Undisturbed, Climb
<1>6. \A c \in Containers : row'[c] = row[c] \/ (Claims(r) /\ c = at[r] /\ row'[c] = "busy")
  BY <1>1, <1>3 DEF Turn, Claims
<1>7. Withheld'
  BY <1>1, <1>2, <1>5, <1>6 DEF Exclusion, Withheld
<1>8. Sound'
  <2>1. ASSUME NEW s \in Runs, Claimer(s)'
        PROVE  row'[at'[s]] \in {"busy", "none"} \/ at'[s] \in outdated'
    <3>1. at'[s] = at[s] /\ (Claimer(s) \/ (s = r /\ Claims(r)))
      BY <1>1, <1>2, <2>1, RunClaimer
    <3>2. CASE Claimer(s)
      <4>1. at[s] \in Containers /\ (row[at[s]] \in {"busy", "none"} \/ at[s] \in outdated)
        BY <3>2, ClaimerAt DEF Exclusion, Sound
      <4>2. QED
        BY <1>1, <1>6, <3>1, <4>1
    <3>3. CASE s = r /\ Claims(r)
      BY <1>3, <1>5, <3>1, <3>3 DEF Claims
    <3>4. QED
      BY <3>1, <3>2, <3>3
  <2>2. QED
    BY <2>1 DEF Sound
<1>9. Serving'
  <2>1. ASSUME NEW s \in serving' PROVE pc'[Run(s)] \in {"claimed", "working", "running"}
    <3>1. CASE s # r
      <4>1. s \in serving
        BY <1>1, <2>1, <3>1 DEF Turn, Claims
      <4>2. QED
        BY <1>2, <1>3, <3>1, <4>1 DEF Exclusion, Serving
    <3>2. CASE s = r /\ Claims(r)
      BY <3>2 DEF Claims, Moves
    <3>3. CASE s = r /\ ~Claims(r)
      <4>1. r \in serving /\ pc[Run(r)] \in {"claimed", "working", "running"}
        BY <1>1, <2>1, <3>3 DEF Turn, Exclusion, Serving
      <4>2. QED
        BY <1>1, <2>1, <3>3, <4>1 DEF Turn, Stays, Leaves, Takes, Creates, Moves, Climb, Ahead
    <3>4. QED
      BY <3>1, <3>2, <3>3
  <2>2. QED
    BY <2>1 DEF Serving
<1>10. QED
  BY <1>4, <1>7, <1>8, <1>9, RunUndisturbed, RunStruck, RunLone DEF Exclusion

-----------------------------------------------------------------------------
(* And so do all the others                                                *)

LEMMA PassStruck ==
  ASSUME TypeInv, Discipline, Exclusion, PassStep, Discipline'
  PROVE  Struck'
<1> SUFFICES ASSUME NEW b \in Actors, NEW y \in Of(todo'[b]), y.op = "beginRemoval"
             PROVE  /\ todo'[b] # Destroy(y.c) => row'[y.c] = "none"
                    /\ todo'[b] = <<y>> => named' # y.c
  BY DEF Struck
<1>1. /\ UNCHANGED <<row, named>>
      /\ \A s \in Runs : todo'[Run(s)] = todo[Run(s)]
      /\ ~Retire => todo'[Retirer] = todo[Retirer] \/ todo'[Retirer] = <<>>
  BY PassCalls
<1>2. b = Retirer \/ \E s \in Runs : b = Run(s)
  BY DEF Discipline, Own, Mine, Retires
<1>3. CASE todo'[b] = todo[b]
  BY <1>1, <1>3 DEF Exclusion, Struck
<1>4. CASE todo'[b] # todo[b]
  <2>1. b = Retirer /\ Retire
    BY <1>1, <1>2, <1>4, OfNone
  <2>2. PICK c \in Containers :
           todo'[Retirer] = <<St("beginStop", c)>> \/ todo'[Retirer] = Destroy(c)
    BY <2>1, GotoLeaves, ActorsDiffer DEF Retire
  <2>3. CASE todo'[Retirer] = <<St("beginStop", c)>>
    <3>1. y = St("beginStop", c)
      BY <2>1, <2>3, OfOne
    <3>2. QED
      BY <3>1, StIs
  <2>4. CASE todo'[Retirer] = Destroy(c)
    <3>1. y \in {St("delete", c), St("unname", c), St("beginRemoval", c)}
      BY <2>1, <2>4, OfThree DEF Destroy
    <3>2. y.c = c
      BY <3>1, StIs
    <3>3. todo'[b] # <<y>>
      BY <2>1, <2>4 DEF Destroy
    <3>4. QED
      BY <2>1, <2>4, <3>2, <3>3
  <2>5. QED
    BY <2>2, <2>3, <2>4
<1>5. QED
  BY <1>3, <1>4

LEMMA PassExclusion ==
  ASSUME TypeInv, Discipline, Exclusion, PassStep, Discipline'
  PROVE  Exclusion'
<1>1. /\ UNCHANGED <<row, named, at, up>>
      /\ \A s \in Runs : pc'[Run(s)] = pc[Run(s)] /\ todo'[Run(s)] = todo[Run(s)]
      /\ \A c \in Containers : pc'[Stop(c)] # "off" => pc[Stop(c)] # "off"
  BY PassCalls
<1>2. /\ outdated' = outdated \/ outdated' = {c \in Containers : row[c] # "none"}
      /\ serving' \subseteq serving
      /\ \A c \in Containers :
            /\ tracked'[c] = tracked[c] \/ pc'[Stop(c)] = "off" \/ tracked[c] = "remove"
            /\ \/ todo'[Stop(c)] = todo[Stop(c)] /\ pc'[Stop(c)] = pc[Stop(c)]
               \/ todo'[Stop(c)] = <<>> \/ pc'[Stop(c)] # "off"
      /\ lock' = Worker =>
            \/ lock = Worker /\ seen'["worker"] = seen["worker"]
            \/ named \in Containers /\ seen'["worker"].c = named
      /\ \A x \in Of(todo'[Worker]) : x.op = "markRunning" =>
            \/ x \in Of(todo[Worker])
            \/ lock = Worker /\ x.c = seen["worker"].c /\ tracked[x.c] = "none"
  BY PassTurn
<1>3. \A s \in Runs : Claimer(s)' = Claimer(s)
  BY <1>1 DEF Claimer
<1>4. serving \subseteq Runs /\ HasOne
  BY DEF TypeInv, World, Memory
<1>5. Called'
  <2>1. \A c \in Containers : Dead(c) => Dead(c)'
    BY DeadStays DEF Next, PassStep
  <2>2. QED
    BY <1>1, <1>2, <2>1 DEF Exclusion, Called
<1>6. Withheld'
  BY <1>1, <1>2 DEF Exclusion, Withheld
<1>7. Undisturbed'
  <2>1. ASSUME lock' = Worker, pc'[Stop(seen'["worker"].c)] # "off"
        PROVE  tracked'[seen'["worker"].c] = "stop"
    <3>1. CASE lock = Worker /\ seen'["worker"] = seen["worker"]
      BY <1>1, <1>2, <1>4, <2>1, <3>1 DEF Exclusion, Undisturbed, HasOne
    <3>2. CASE named \in Containers /\ seen'["worker"].c = named
      <4>1. pc[Stop(named)] # "off" /\ ~Dead(named)
        BY <1>1, <2>1, <3>2 DEF Dead
      <4>2. tracked[named] = "stop"
        BY <3>2, <4>1 DEF Exclusion, Called
      <4>3. QED
        BY <1>2, <2>1, <3>2, <4>2
    <3>3. QED
      BY <1>2, <2>1, <3>1, <3>2
  <2>2. ASSUME NEW x \in Of(todo'[Worker]), x.op = "markRunning" PROVE pc'[Stop(x.c)] = "off"
    <3>1. CASE x \in Of(todo[Worker])
      <4>1. x.c \in Containers /\ pc[Stop(x.c)] = "off"
        BY <2>2, <3>1, AheadTyped, ActorsDiffer DEF Exclusion, Undisturbed
      <4>2. QED
        BY <1>1, <4>1
    <3>2. CASE lock = Worker /\ x.c = seen["worker"].c /\ tracked[x.c] = "none"
      BY <1>1, <1>4, <3>2 DEF Exclusion, Undisturbed, HasOne
    <3>3. QED
      BY <1>2, <2>2, <3>1, <3>2
  <2>3. QED
    BY <1>1, <2>1, <2>2 DEF Exclusion, Undisturbed
<1>8. Sound'
  <2>1. ASSUME NEW r \in Runs, Claimer(r)
        PROVE  row'[at'[r]] \in {"busy", "none"} \/ at'[r] \in outdated'
    <3>1. at[r] \in Containers /\ (row[at[r]] \in {"busy", "none"} \/ at[r] \in outdated)
      BY <2>1, ClaimerAt DEF Exclusion, Sound
    <3>2. QED
      BY <1>1, <1>2, <3>1
  <2>2. QED
    BY <1>3, <2>1 DEF Sound
<1>9. Lone' /\ Serving'
  BY <1>1, <1>2, <1>3, <1>4 DEF Exclusion, Lone, Serving
<1>10. QED
  BY <1>5, <1>6, <1>7, <1>8, <1>9, PassStruck DEF Exclusion

(* Nobody is about: the process is down, or has just started.              *)
LEMMA StillExclusion ==
  ASSUME \A r \in Runs : pc[Run(r)] = "new",
         \A c \in Containers : pc[Stop(c)] = "off" /\ todo[Stop(c)] = <<>>,
         \A a \in Actors : \A x \in Of(todo[a]) : x.op \notin {"beginRemoval", "markRunning"},
         lock # Worker, serving = {}
  PROVE  Exclusion
<1>1. \A r \in Runs : ~Claimer(r)
  BY DEF Claimer
<1>2. "new" \notin (Climb \ {"resume"}) \union {"retry", "failed"}
  BY DEF Climb
<1>3. Worker \in Actors
  BY ActorsDiffer
<1>4. QED
  BY <1>1, <1>2, <1>3
     DEF Exclusion, Called, Withheld, Undisturbed, Struck, Sound, Lone, Serving

LEMMA CrashExclusion ==
  ASSUME Crash, Discipline'
  PROVE  Exclusion'
<1>1. Down' /\ ~up'
  BY DEF Discipline, Crash
<1>2. /\ \A r \in Runs : pc'[Run(r)] = "new"
      /\ \A c \in Containers : pc'[Stop(c)] = "off" /\ todo'[Stop(c)] = <<>>
      /\ \A a \in Actors : \A x \in Of(todo'[a]) : x.op \notin {"beginRemoval", "markRunning"}
      /\ Worker \in Actors
      /\ lock' # Worker /\ serving' = {}
  BY <1>1, OfNone, ActorsDiffer, NobodyAssumption DEF Down
<1>3. \A r \in Runs : ~Claimer(r)'
  BY <1>2 DEF Claimer
<1>4. "new" \notin (Climb \ {"resume"}) \union {"retry", "failed"}
  BY DEF Climb
<1>5. QED
  BY <1>2, <1>3, <1>4 DEF Exclusion, Called, Withheld, Undisturbed, Struck, Sound, Lone, Serving

LEMMA RestartExclusion ==
  ASSUME TypeInv, Discipline, Restart
  PROVE  Exclusion'
<1>1. Down /\ ~up /\ UNCHANGED <<pc, lock, serving>>
  BY DEF Discipline, Restart
<1>2. /\ \A b \in Actors : b # Boot => todo'[b] = todo[b]
      /\ \A x \in Of(todo'[Boot]) : x.op = "open"
  BY RestartLists
<1>3. /\ \A r \in Runs : pc'[Run(r)] = "new"
      /\ \A c \in Containers : pc'[Stop(c)] = "off" /\ todo'[Stop(c)] = <<>>
      /\ lock' # Worker /\ serving' = {}
  BY <1>1, <1>2, ActorsDiffer, PassesDiffer, NobodyAssumption DEF Down
<1>4. ASSUME NEW a \in Actors, NEW x \in Of(todo'[a]) PROVE x.op \notin {"beginRemoval", "markRunning"}
  <2>1. CASE a = Boot
    BY <1>2, <1>4, <2>1
  <2>2. CASE a # Boot
    BY <1>1, <1>2, <1>4, <2>2, OfNone DEF Down
  <2>3. QED
    BY <2>1, <2>2
<1>5. \A r \in Runs : ~Claimer(r)'
  BY <1>3 DEF Claimer
<1>6. "new" \notin (Climb \ {"resume"}) \union {"retry", "failed"} /\ Worker \in Actors
  BY ActorsDiffer DEF Climb
<1>7. QED
  BY <1>3, <1>4, <1>5, <1>6
     DEF Exclusion, Called, Withheld, Undisturbed, Struck, Sound, Lone, Serving

LEMMA NextExclusion ==
  ASSUME TypeInv, Discipline, Used, Exclusion, [Next]_vars, ~LateWrite, Discipline'
  PROVE  Exclusion'
<1>1. CASE UNCHANGED vars
  <2>1. \A r \in Runs : Claimer(r)' = Claimer(r)
    BY <1>1 DEF vars, process, Claimer
  <2>2. \A c \in Containers : Dead(c) => Dead(c)'
    BY DeadStays
  <2>3. QED
    BY <1>1, <2>1, <2>2
       DEF vars, db, process, Exclusion, Called, Withheld, Undisturbed, Struck, Sound, Lone, Serving
<1>2. QED
  BY <1>1, NextKinds, ExecExclusion, RunExclusion, PassExclusion, CrashExclusion, RestartExclusion

LEMMA InitExclusion == Init => Used /\ Exclusion
<1> SUFFICES ASSUME Init PROVE Used /\ Exclusion
  OBVIOUS
<1>1. /\ \A r \in Runs : pc[Run(r)] = "new"
      /\ \A c \in Containers : pc[Stop(c)] = "off" /\ pc[Removal(c)] = "off" /\ pc[Cleanup(c)] = "off"
  BY IdlePcTyped, ActorsDiffer, PassesDiffer DEF Init
<1>2. \A a \in Actors : todo[a] = <<>> /\ Of(todo[a]) = {}
  BY OfNone DEF Init
<1>3. lock # Worker /\ serving = {}
  BY ActorsDiffer, NobodyAssumption DEF Init
<1>4. Exclusion
  BY <1>1, <1>2, <1>3, ActorsDiffer, StillExclusion
<1>5. Used
  BY <1>1, <1>2, ConstAssumption DEF Init, Used, Climb
<1>6. QED
  BY <1>4, <1>5

(* No two runs' work is ever executing in the same container unless the    *)
(* container-sync cron made a late write, for any number of runs and       *)
(* containers, across crashes, restarts, failed calls, operator removals,  *)
(* interference from outside, changed settings, the crons and the reaper   *)
(* (acquireRunContainer and claimPoolMember under the lifecycle lock,      *)
(* against retirement's settling halves and the crons, which do not take   *)
(* it).  So the cron's own unguarded writes are the only way to two runs   *)
(* in one container; ContainerPoolMemory.cfg has a behaviour that takes it.*)
THEOREM OneRunAtATime == Spec /\ [][~LateWrite]_vars => []OneRunPerContainer
<1> DEFINE Inv == TypeInv /\ Discipline /\ Used /\ Exclusion
<1>1. Init => Inv
  BY TypesInit, InitDiscipline, InitExclusion
<1>2. Inv /\ [Next /\ ~LateWrite]_vars => Inv'
  <2> SUFFICES ASSUME Inv, [Next]_vars, ~LateWrite \/ UNCHANGED vars PROVE Inv'
    OBVIOUS
  <2>1. TypeInv' /\ Discipline'
    BY NextTypes, NextDiscipline
  <2>2. ~LateWrite
    BY DEF LateWrite, vars, db
  <2>3. Used' /\ Exclusion'
    BY <2>1, <2>2, NextUsed, NextExclusion
  <2>4. QED
    BY <2>1, <2>3
<1>3. Inv => OneRunPerContainer
  BY ExclusionFollows
<1>4. QED
  BY <1>1, <1>2, <1>3, PTL DEF Spec
=============================================================================
