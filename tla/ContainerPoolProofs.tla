------------------------ MODULE ContainerPoolProofs ------------------------
(* Proofs about ContainerPool, for any number of runs and containers and   *)
(* any number of mishaps.                                                  *)
EXTENDS ContainerPool, FiniteSetTheorems, TLAPS

-----------------------------------------------------------------------------
(* Actors                                                                  *)

(* No two parties are one actor.                                           *)
LEMMA ActorsDiffer ==
  /\ \A r \in Runs : Run(r) \in Actors
  /\ \A c \in Containers : Stop(c) \in Actors /\ Removal(c) \in Actors /\ Cleanup(c) \in Actors
  /\ Passes \subseteq Actors
  /\ {Retirer, Worker, Watch, Operator, Reaper, Boot} \subseteq Actors
  /\ \A r, s : Run(r) = Run(s) => r = s
  /\ \A c, d : Stop(c) = Stop(d) \/ Removal(c) = Removal(d) \/ Cleanup(c) = Cleanup(d) => c = d
  /\ \A r, c : Run(r) # Stop(c) /\ Run(r) # Removal(c) /\ Run(r) # Cleanup(c)
  /\ \A c, d : Stop(c) # Removal(d) /\ Stop(c) # Cleanup(d) /\ Removal(c) # Cleanup(d)
  /\ \A r, p : p \in Passes => Run(r) # p
  /\ \A c, p : p \in Passes => Stop(c) # p /\ Removal(c) # p /\ Cleanup(c) # p
BY DEF Actors, Passes, Run, Stop, Removal, Cleanup, Retirer, Worker, Watch, Operator, Reaper, Boot

LEMMA PassesDiffer ==
  /\ Retirer # Worker /\ Retirer # Watch /\ Retirer # Operator /\ Retirer # Reaper /\ Retirer # Boot
  /\ Worker # Watch /\ Worker # Operator /\ Worker # Reaper /\ Worker # Boot
  /\ Watch # Operator /\ Watch # Reaper /\ Watch # Boot
  /\ Operator # Reaper /\ Operator # Boot /\ Reaper # Boot
  /\ Passes = {Retirer, Worker, Watch, Operator, Reaper, Boot}
BY DEF Passes, Retirer, Worker, Watch, Operator, Reaper, Boot

LEMMA ActorKinds ==
  ASSUME NEW a \in Actors
  PROVE  \/ \E r \in Runs : a = Run(r)
         \/ a \in Passes
         \/ \E c \in Containers : a = Stop(c) \/ a = Removal(c) \/ a = Cleanup(c)
BY DEF Actors

-----------------------------------------------------------------------------
(* Types                                                                   *)

(* What a statement may write: a member is never set busy, nor to a state  *)
(* that is none.                                                           *)
Writes == {"set", "upsert", "adoptUnpooled"}
Written == {"creating", "idle", "suspended", "error"}
Typed ==
    {x \in Statement : /\ x.op \in Writes => x.to \in Written
                       /\ x.op \in {"show", "showIfNamed"} => x.to \in ShownState}

Plain == Ops \ (Writes \union {"show", "showIfNamed"})

LEMMA PlainTyped ==
  ASSUME NEW op \in Plain, NEW c \in Containers
  PROVE  St(op, c) \in Typed /\ St(op, c).op = op /\ St(op, c).c = c /\ St(op, c).to = ""
<1>1. St(op, c) \in Statement /\ St(op, c).op = op /\ St(op, c).c = c /\ St(op, c).to = ""
  BY DEF St, Statement, Plain, Ops
<1>2. QED
  BY <1>1 DEF Plain, Typed

LEMMA WriteTyped ==
  ASSUME NEW op \in Writes, NEW c \in Containers, NEW to \in Written
  PROVE  StTo(op, c, to) \in Typed /\ StTo(op, c, to).op = op /\ StTo(op, c, to).c = c
         /\ StTo(op, c, to).to = to
<1>1. /\ StTo(op, c, to) \in Statement
      /\ StTo(op, c, to).op = op /\ StTo(op, c, to).c = c /\ StTo(op, c, to).to = to
  BY DEF StTo, Statement, Writes, Written, Ops, RowState
<1>2. op \notin {"show", "showIfNamed"}
  BY DEF Writes
<1>3. QED
  BY <1>1, <1>2 DEF Typed

LEMMA ShowTyped ==
  ASSUME NEW op \in {"show", "showIfNamed"}, NEW c \in Containers, NEW to \in ShownState
  PROVE  StTo(op, c, to) \in Typed /\ StTo(op, c, to).op = op /\ StTo(op, c, to).c = c
         /\ StTo(op, c, to).to = to
<1>1. /\ StTo(op, c, to) \in Statement
      /\ StTo(op, c, to).op = op /\ StTo(op, c, to).c = c /\ StTo(op, c, to).to = to
  BY DEF StTo, Statement, ShownState, Ops
<1>2. op \notin Writes
  BY DEF Writes
<1>3. QED
  BY <1>1, <1>2 DEF Typed

(* A run from its decision to its end is concerned with a container.       *)
Near == {"inspect", "resume", "request", "creating", "start", "setup", "claim", "claimed",
         "working", "running", "ending"}
OnContainer == \A r \in Runs : pc[Run(r)] \in Near => at[r] \in Containers

(* The cron has one in hand between reading and judging, the worker while  *)
(* it is inside the lock.                                                  *)
Looking == pc[Watch] \in {"sync", "memory", "liveness"} => seen["watch"].c \in Containers
HasOne == lock = Worker => seen["worker"].c \in Containers

Tables ==
    /\ row \in [Containers -> RowState]
    /\ outdated \subseteq Containers
    /\ bill \in [Containers -> BOOLEAN]
    /\ prov \subseteq Containers
    /\ named \in Containers \union {None}
    /\ shown \in ShownState
    /\ live \subseteq Runs
World ==
    /\ engine \in [Containers -> EngineState]
    /\ serving \subseteq Runs
    /\ mishaps \in 0..MaxMishaps
Places ==
    /\ lock \in Actors \union {None}
    /\ pc \in [Actors -> RunPc \union PassPc]
    /\ at \in [Runs -> Containers \union {None}]
    /\ OnContainer
Memory ==
    /\ tracked \in [Containers -> {"none", "stop", "remove"}]
    /\ holds \subseteq Containers
    /\ seen \in [{"watch", "worker"} -> Reading]
    /\ suspected \subseteq Containers
    /\ up \in BOOLEAN
    /\ Looking
    /\ HasOne
Todos == todo \in [Actors -> Seq(Typed)]

TypeInv == Tables /\ World /\ Places /\ Memory /\ Todos

LEMMA TypesFollow == TypeInv => TypeOK
<1> SUFFICES ASSUME TypeInv PROVE TypeOK
  OBVIOUS
<1>1. ASSUME NEW a \in Actors PROVE todo[a] \in Seq(Statement)
  <2>1. todo[a] \in Seq(Typed)
    BY DEF TypeInv, Todos
  <2>2. Typed \subseteq Statement
    BY DEF Typed
  <2>3. QED
    BY <2>1, <2>2
<1>2. todo \in [Actors -> Seq(Statement)]
  BY <1>1 DEF TypeInv, Todos
<1>3. QED
  BY <1>2 DEF TypeOK, TypeInv, Tables, World, Places, Memory, ShownState

LEMMA TypesInit == Init => TypeInv
<1> SUFFICES ASSUME Init PROVE TypeInv
  OBVIOUS
<1>1. Tables /\ World
  BY ConstAssumption DEF Init, Tables, World, RowState, ShownState, EngineState
<1>2. Places
  <2>1. pc \in [Actors -> RunPc \union PassPc]
    BY DEF Init, IdlePc, RunPc, PassPc
  <2>2. OnContainer
    BY ActorsDiffer DEF Init, IdlePc, OnContainer, Near
  <2>3. QED
    BY <2>1, <2>2 DEF Init, Places
<1>3. Memory
  <2>1. pc[Watch] = "off"
    BY ActorsDiffer, PassesDiffer DEF Init, IdlePc
  <2>2. lock # Worker
    BY NobodyAssumption, ActorsDiffer DEF Init
  <2>3. Nothing \in Reading
    BY DEF Nothing, Reading, ShownState
  <2>4. seen \in [{"watch", "worker"} -> Reading]
    BY <2>3 DEF Init
  <2>5. QED
    BY <2>1, <2>2, <2>4 DEF Init, Memory, Looking, HasOne
<1>4. Todos
  BY DEF Init, Todos
<1>5. QED
  BY <1>1, <1>2, <1>3, <1>4 DEF TypeInv

(* A run goes on: where it goes, what it has to execute and which          *)
(* container it is concerned with.                                         *)
LEMMA GotoRun ==
  ASSUME TypeInv, NEW r \in Runs, NEW p \in RunPc, NEW q \in Seq(Typed), Goto(Run(r), p, q),
         at' \in [Runs -> Containers \union {None}], \A s \in Runs : s # r => at'[s] = at[s],
         p \in Near => at'[r] \in Containers,
         lock' = lock \/ lock' = None \/ lock' = Run(r)
  PROVE  /\ Places' /\ Todos'
         /\ \A a \in Actors : a # Run(r) => pc'[a] = pc[a] /\ todo'[a] = todo[a]
         /\ pc'[Run(r)] = p /\ todo'[Run(r)] = q
         /\ lock' = Worker => lock = Worker
<1>1. /\ pc \in [Actors -> RunPc \union PassPc] /\ todo \in [Actors -> Seq(Typed)]
      /\ lock \in Actors \union {None} /\ OnContainer
  BY DEF TypeInv, Places, Todos
<1>2. Run(r) \in Actors /\ Worker \in Actors /\ Run(r) # Worker /\ Watch \in Actors /\ Run(r) # Watch
  BY ActorsDiffer, PassesDiffer
<1>3. /\ pc' = [pc EXCEPT ![Run(r)] = p] /\ todo' = [todo EXCEPT ![Run(r)] = q]
  BY DEF Goto
<1>4. /\ pc' \in [Actors -> RunPc \union PassPc] /\ todo' \in [Actors -> Seq(Typed)]
      /\ \A a \in Actors : a # Run(r) => pc'[a] = pc[a] /\ todo'[a] = todo[a]
      /\ pc'[Run(r)] = p /\ todo'[Run(r)] = q
  BY <1>1, <1>2, <1>3
<1>5. OnContainer'
  <2> SUFFICES ASSUME NEW s \in Runs, pc'[Run(s)] \in Near PROVE at'[s] \in Containers
    BY DEF OnContainer
  <2>1. CASE s = r
    BY <1>4, <2>1
  <2>2. CASE s # r
    <3>1. Run(s) # Run(r) /\ Run(s) \in Actors
      BY <2>2, ActorsDiffer
    <3>2. QED
      BY <1>1, <1>4, <2>2, <3>1 DEF OnContainer
  <2>3. QED
    BY <2>1, <2>2
<1>6. lock' \in Actors \union {None} /\ (lock' = Worker => lock = Worker)
  BY <1>1, <1>2, NobodyAssumption
<1>7. QED
  BY <1>4, <1>5, <1>6 DEF Places, Todos

(* Any other actor goes on.                                                *)
LEMMA GotoOther ==
  ASSUME TypeInv, NEW a \in Actors, \A r \in Runs : a # Run(r), NEW p \in PassPc,
         NEW q \in Seq(Typed), Goto(a, p, q), at' = at, lock' = lock \/ lock' = None \/ lock' = a
  PROVE  /\ Places' /\ Todos'
         /\ \A b \in Actors : b # a => pc'[b] = pc[b] /\ todo'[b] = todo[b]
         /\ pc'[a] = p /\ todo'[a] = q
<1>1. /\ pc \in [Actors -> RunPc \union PassPc] /\ todo \in [Actors -> Seq(Typed)]
      /\ lock \in Actors \union {None} /\ OnContainer /\ at \in [Runs -> Containers \union {None}]
  BY DEF TypeInv, Places, Todos
<1>2. /\ pc' = [pc EXCEPT ![a] = p] /\ todo' = [todo EXCEPT ![a] = q]
  BY DEF Goto
<1>3. /\ pc' \in [Actors -> RunPc \union PassPc] /\ todo' \in [Actors -> Seq(Typed)]
      /\ \A b \in Actors : b # a => pc'[b] = pc[b] /\ todo'[b] = todo[b]
      /\ pc'[a] = p /\ todo'[a] = q
  BY <1>1, <1>2
<1>4. OnContainer'
  <2> SUFFICES ASSUME NEW s \in Runs, pc'[Run(s)] \in Near PROVE at'[s] \in Containers
    BY DEF OnContainer
  <2>1. Run(s) # a /\ Run(s) \in Actors
    BY ActorsDiffer
  <2>2. QED
    BY <1>1, <1>3, <2>1 DEF OnContainer
<1>5. QED
  BY <1>1, <1>3, <1>4 DEF Places, Todos

(* What is left alone keeps its type.                                      *)
LEMMA TablesStay ==
  ASSUME TypeInv, UNCHANGED db
  PROVE  Tables'
BY DEF TypeInv, Tables, db

LEMMA MemoryStays ==
  ASSUME TypeInv, UNCHANGED <<tracked, holds, seen, suspected, up>>,
         pc'[Watch] = pc[Watch] \/ pc'[Watch] = "off", lock' = Worker => lock = Worker
  PROVE  Memory'
BY DEF TypeInv, Memory, Looking, HasOne

LEMMA EngineTypes ==
  ASSUME TypeInv, NEW c \in Containers, NEW state \in EngineState, EngineMoves(c, state)
  PROVE  engine' \in [Containers -> EngineState] /\ serving' \subseteq Runs
BY DEF TypeInv, World, EngineMoves

LEMMA MishapTypes ==
  ASSUME TypeInv, mishaps' = mishaps \/ (mishaps < MaxMishaps /\ mishaps' = mishaps + 1)
  PROVE  mishaps' \in 0..MaxMishaps
BY ConstAssumption DEF TypeInv, World

LEMMA WorldStays ==
  ASSUME TypeInv, UNCHANGED <<engine, serving>>, mishaps' \in 0..MaxMishaps
  PROVE  World'
BY DEF TypeInv, World

(* A run at a given place.                                                 *)
LEMMA InRunFacts ==
  ASSUME TypeInv, NEW r \in Runs, NEW p, InRun(r, p)
  PROVE  /\ up /\ pc[Run(r)] = p /\ todo[Run(r)] = <<>> /\ todo[Boot] = <<>>
         /\ p \in Near => at[r] \in Containers
BY DEF InRun, Free, TypeInv, Places, OnContainer

-----------------------------------------------------------------------------
(* The steps of a run                                                      *)

LEMMA UptimeTyped ==
  ASSUME NEW c \in Containers, NEW state
  PROVE  Uptime(state, c) \in Seq(Typed)
<1>1. St("close", c) \in Typed /\ St("open", c) \in Typed
  BY PlainTyped DEF Plain, Ops, Writes
<1>2. QED
  BY <1>1 DEF Uptime

LEMMA DestroyTyped ==
  ASSUME NEW c \in Containers
  PROVE  Destroy(c) \in Seq(Typed)
<1>1. St("delete", c) \in Typed /\ St("unname", c) \in Typed /\ St("beginRemoval", c) \in Typed
  BY PlainTyped DEF Plain, Ops, Writes
<1>2. QED
  BY <1>1 DEF Destroy

(* A step of a run that leaves the memory of the process alone.            *)
LEMMA RunGoes ==
  ASSUME TypeInv, NEW r \in Runs, NEW p \in RunPc, NEW q \in Seq(Typed), Goto(Run(r), p, q),
         at' \in [Runs -> Containers \union {None}], \A s \in Runs : s # r => at'[s] = at[s],
         p \in Near => at'[r] \in Containers,
         lock' = lock \/ lock' = None \/ lock' = Run(r),
         UNCHANGED <<tracked, holds, seen, suspected, up>>, Tables', World'
  PROVE  TypeInv'
<1>1. /\ Places' /\ Todos'
      /\ \A a \in Actors : a # Run(r) => pc'[a] = pc[a] /\ todo'[a] = todo[a]
      /\ lock' = Worker => lock = Worker
  BY GotoRun
<1>2. pc'[Watch] = pc[Watch]
  BY <1>1, ActorsDiffer, PassesDiffer
<1>3. Memory'
  BY <1>1, <1>2, MemoryStays
<1>4. QED
  BY <1>1, <1>3 DEF TypeInv

(* And one that stays with its container.                                  *)
LEMMA RunStays ==
  ASSUME TypeInv, NEW r \in Runs, NEW p \in RunPc, NEW q \in Seq(Typed), Goto(Run(r), p, q),
         at' = at, at[r] \in Containers, UNCHANGED <<lock, tracked, holds, seen, suspected, up>>,
         Tables', World'
  PROVE  TypeInv'
<1>1. at' \in [Runs -> Containers \union {None}]
  BY DEF TypeInv, Places
<1>2. QED
  BY <1>1, RunGoes

LEMMA NoStatements == <<>> \in Seq(Typed)
OBVIOUS

LEMMA EnterLadderTypes ==
  ASSUME TypeInv, NEW r \in Runs, EnterLadder(r)
  PROVE  TypeInv'
<1> DEFINE q == IF pc[Run(r)] = "new" THEN AdoptUnpooled ELSE <<>>
<1>1. q \in Seq(Typed)
  <2>1. CASE named \in Containers
    <3>1. /\ StTo("adoptUnpooled", named, "idle") \in Typed
          /\ StTo("adoptUnpooled", named, "suspended") \in Typed
      BY <2>1, WriteTyped DEF Writes, Written
    <3>2. QED
      BY <3>1 DEF AdoptUnpooled
  <2>2. CASE named \notin Containers
    BY <2>2 DEF AdoptUnpooled
  <2>3. QED
    BY <2>1, <2>2
<1>2. Goto(Run(r), "decide", q)
  BY DEF EnterLadder
<1> HIDE DEF q
<1>3. at' = at /\ at \in [Runs -> Containers \union {None}] /\ lock' = Run(r)
  BY DEF EnterLadder, TypeInv, Places
<1>4. "decide" \in RunPc /\ "decide" \notin Near
  BY DEF RunPc, Near
<1>5. Tables' /\ World'
  BY TablesStay, MishapTypes, WorldStays DEF EnterLadder
<1>6. UNCHANGED <<tracked, holds, seen, suspected, up>>
  BY DEF EnterLadder
<1>7. QED
  BY <1>1, <1>2, <1>3, <1>4, <1>5, <1>6, RunGoes

LEMMA DecideTypes ==
  ASSUME TypeInv, NEW r \in Runs, Decide(r)
  PROVE  TypeInv'
<1>1. at \in [Runs -> Containers \union {None}]
  BY DEF TypeInv, Places
<1>2. Tables' /\ World' /\ lock' = lock /\ UNCHANGED <<tracked, holds, seen, suspected, up>>
  BY TablesStay, MishapTypes, WorldStays DEF Decide
<1>3. ASSUME NEW p \in RunPc, NEW q \in Seq(Typed), Goto(Run(r), p, q),
             at' = at, p \notin Near
      PROVE  TypeInv'
  BY <1>1, <1>2, <1>3, RunGoes
<1>4. ASSUME NEW p \in RunPc, NEW q \in Seq(Typed), Goto(Run(r), p, q),
             NEW c \in Containers, at' = [at EXCEPT ![r] = c]
      PROVE  TypeInv'
  <2>1. at' \in [Runs -> Containers \union {None}] /\ at'[r] = c /\ \A s \in Runs : s # r => at'[s] = at[s]
    BY <1>1, <1>4
  <2>2. QED
    BY <1>2, <1>4, <2>1, RunGoes
<1>5. \/ \E c \in Containers \ outdated : Goto(Run(r), "inspect", <<>>) /\ at' = [at EXCEPT ![r] = c]
      \/ \E c \in Containers \ outdated : Goto(Run(r), "resume", <<>>) /\ at' = [at EXCEPT ![r] = c]
      \/ \E c \in Containers :
            /\ Goto(Run(r), "request", <<StTo("show", c, "creating"), St("provisional", c)>>)
            /\ at' = [at EXCEPT ![r] = c]
      \/ \E c \in outdated : Goto(Run(r), "retry", IF NotHeld(c) THEN Destroy(c) ELSE <<>>) /\ at' = at
      \/ Goto(Run(r), "failed", <<>>) /\ at' = at
  BY DEF Decide
<1>6. {"inspect", "resume", "request", "retry", "failed"} \subseteq RunPc
      /\ "retry" \notin Near /\ "failed" \notin Near
  BY DEF RunPc, Near
<1>7. ASSUME NEW c \in Containers PROVE <<StTo("show", c, "creating"), St("provisional", c)>> \in Seq(Typed)
  <2>1. StTo("show", c, "creating") \in Typed
    BY ShowTyped DEF ShownState
  <2>2. St("provisional", c) \in Typed
    BY PlainTyped DEF Plain, Ops, Writes
  <2>3. QED
    BY <2>1, <2>2
<1>8. ASSUME NEW c \in outdated PROVE (IF NotHeld(c) THEN Destroy(c) ELSE <<>>) \in Seq(Typed)
  BY <1>8, DestroyTyped, NoStatements DEF TypeInv, Tables
<1>9. CASE \E c \in Containers \ outdated : Goto(Run(r), "inspect", <<>>) /\ at' = [at EXCEPT ![r] = c]
  BY <1>4, <1>6, <1>9, NoStatements
<1>10. CASE \E c \in Containers \ outdated : Goto(Run(r), "resume", <<>>) /\ at' = [at EXCEPT ![r] = c]
  BY <1>4, <1>6, <1>10, NoStatements
<1>11. CASE \E c \in Containers :
              /\ Goto(Run(r), "request", <<StTo("show", c, "creating"), St("provisional", c)>>)
              /\ at' = [at EXCEPT ![r] = c]
  BY <1>4, <1>6, <1>7, <1>11
<1>12. CASE \E c \in outdated : Goto(Run(r), "retry", IF NotHeld(c) THEN Destroy(c) ELSE <<>>) /\ at' = at
  BY <1>3, <1>6, <1>8, <1>12
<1>13. CASE Goto(Run(r), "failed", <<>>) /\ at' = at
  BY <1>3, <1>6, <1>13, NoStatements
<1>14. QED
  BY <1>5, <1>9, <1>10, <1>11, <1>12, <1>13

(* The statements there are.                                               *)
LEMMA StatementsTyped ==
  ASSUME NEW c \in Containers
  PROVE  /\ \A op \in Plain : St(op, c) \in Typed
         /\ \A to \in Written : StTo("set", c, to) \in Typed /\ StTo("upsert", c, to) \in Typed
         /\ \A to \in ShownState : StTo("show", c, to) \in Typed /\ StTo("showIfNamed", c, to) \in Typed
<1>1. \A op \in Plain : St(op, c) \in Typed
  BY PlainTyped
<1>2. \A to \in Written : StTo("set", c, to) \in Typed /\ StTo("upsert", c, to) \in Typed
  BY WriteTyped DEF Writes
<1>3. \A to \in ShownState : StTo("show", c, to) \in Typed /\ StTo("showIfNamed", c, to) \in Typed
  BY ShowTyped
<1>4. QED
  BY <1>1, <1>2, <1>3

LEMMA OpsPlain ==
  {"open", "close", "adopt", "discard", "provisional", "delete", "release", "unclaim",
   "markRunning", "beginStop", "beginRemoval", "name", "unname", "showGone", "endRuns",
   "cancel"} \subseteq Plain
BY DEF Plain, Ops, Writes

LEMMA Expected ==
  {"new", "again", "decide", "inspect", "resume", "request", "creating", "start", "setup",
   "claim", "claimed", "working", "running", "ending", "retry", "failed"} \subseteq RunPc
BY DEF RunPc

LEMMA InspectTypes ==
  ASSUME TypeInv, NEW r \in Runs, Inspect(r)
  PROVE  TypeInv'
<1> DEFINE c == at[r]
<1>1. c \in Containers
  BY InRunFacts DEF Inspect, Near
<1>2. Tables' /\ World' /\ at' = at /\ UNCHANGED <<lock, tracked, holds, seen, suspected, up>>
  BY TablesStay, MishapTypes, WorldStays DEF Inspect
<1>3. \/ Goto(Run(r), "retry", <<St("close", c), St("delete", c)>>)
      \/ Goto(Run(r), "retry", <<StTo("set", c, "suspended")>>)
      \/ Goto(Run(r), "claim", <<>>)
  BY DEF Inspect
<1> HIDE DEF c
<1>4. St("close", c) \in Typed /\ St("delete", c) \in Typed /\ StTo("set", c, "suspended") \in Typed
  BY <1>1, StatementsTyped, OpsPlain DEF Written
<1>5. /\ <<St("close", c), St("delete", c)>> \in Seq(Typed)
      /\ <<StTo("set", c, "suspended")>> \in Seq(Typed)
  BY <1>4
<1>6. QED
  BY <1>1, <1>2, <1>3, <1>5, Expected, NoStatements, RunStays DEF c

LEMMA ResumeTypes ==
  ASSUME TypeInv, NEW r \in Runs, Resume(r)
  PROVE  TypeInv'
<1> DEFINE c == at[r]
<1>1. c \in Containers
  BY InRunFacts DEF Resume, Near
<1>2. Tables' /\ at' = at /\ UNCHANGED <<lock, tracked, holds, seen, suspected, up>>
  BY TablesStay DEF Resume
<1>3. \/ /\ EngineMoves(c, "running") /\ mishaps' = mishaps
         /\ Goto(Run(r), "claim", <<StTo("set", c, "idle"), St("name", c)>>)
      \/ /\ Goto(Run(r), "retry", <<St("close", c), St("delete", c)>>)
         /\ UNCHANGED <<engine, serving, mishaps>>
      \/ /\ mishaps' = mishaps \/ (mishaps < MaxMishaps /\ mishaps' = mishaps + 1)
         /\ Goto(Run(r), "failed", <<>>) /\ UNCHANGED <<engine, serving>>
  BY DEF Resume, Mishap
<1> HIDE DEF c
<1>4. /\ St("close", c) \in Typed /\ St("delete", c) \in Typed /\ St("name", c) \in Typed
      /\ StTo("set", c, "idle") \in Typed
  BY <1>1, StatementsTyped, OpsPlain DEF Written
<1>5. /\ <<St("close", c), St("delete", c)>> \in Seq(Typed)
      /\ <<StTo("set", c, "idle"), St("name", c)>> \in Seq(Typed)
  BY <1>4
<1>6. World'
  <2>1. "running" \in EngineState
    BY DEF EngineState
  <2>2. mishaps' \in 0..MaxMishaps
    BY <1>3, MishapTypes
  <2>3. CASE EngineMoves(c, "running")
    BY <1>1, <2>1, <2>2, <2>3, EngineTypes DEF World
  <2>4. CASE UNCHANGED <<engine, serving>>
    BY <2>2, <2>4, WorldStays
  <2>5. QED
    BY <1>3, <2>3, <2>4
<1>7. QED
  BY <1>1, <1>2, <1>3, <1>5, <1>6, Expected, NoStatements, RunStays DEF c

LEMMA RequestCreateTypes ==
  ASSUME TypeInv, NEW r \in Runs, RequestCreate(r)
  PROVE  TypeInv'
<1>1. at[r] \in Containers
  BY InRunFacts DEF RequestCreate, Near
<1>2. Tables' /\ at' = at /\ UNCHANGED <<lock, tracked, holds, seen, suspected, up>>
  BY TablesStay DEF RequestCreate
<1>3. World'
  <2>1. "requested" \in EngineState
    BY DEF EngineState
  <2>2. QED
    BY <1>1, <2>1, EngineTypes, MishapTypes DEF RequestCreate, World
<1>4. Goto(Run(r), "creating", <<>>)
  BY DEF RequestCreate
<1>5. QED
  BY <1>1, <1>2, <1>3, <1>4, Expected, NoStatements, RunStays

LEMMA CreateAnswersTypes ==
  ASSUME TypeInv, NEW r \in Runs, CreateAnswers(r)
  PROVE  TypeInv'
<1> DEFINE c == at[r]
<1>1. c \in Containers
  BY InRunFacts DEF CreateAnswers, Near
<1>2. Tables' /\ World' /\ at' = at /\ UNCHANGED <<lock, tracked, holds, seen, suspected, up>>
  BY TablesStay, MishapTypes, WorldStays DEF CreateAnswers
<1>3. Goto(Run(r), "start", <<St("adopt", c), StTo("upsert", c, "creating")>>)
  BY DEF CreateAnswers
<1> HIDE DEF c
<1>4. St("adopt", c) \in Typed /\ StTo("upsert", c, "creating") \in Typed
  BY <1>1, StatementsTyped, OpsPlain DEF Written
<1>5. <<St("adopt", c), StTo("upsert", c, "creating")>> \in Seq(Typed)
  BY <1>4
<1>6. QED
  BY <1>1, <1>2, <1>3, <1>5, Expected, RunStays DEF c

LEMMA StartCreatedTypes ==
  ASSUME TypeInv, NEW r \in Runs, StartCreated(r)
  PROVE  TypeInv'
<1> DEFINE c == at[r]
<1>1. c \in Containers
  BY InRunFacts DEF StartCreated, Near
<1>2. Tables' /\ at' = at /\ UNCHANGED <<lock, tracked, holds, seen, suspected, up>>
  BY TablesStay DEF StartCreated
<1>3. Goto(Run(r), "setup", <<St("name", c)>>)
  BY DEF StartCreated
<1>4. World'
  <2>1. "running" \in EngineState
    BY DEF EngineState
  <2>2. QED
    BY <1>1, <2>1, EngineTypes, MishapTypes DEF StartCreated, World
<1> HIDE DEF c
<1>5. <<St("name", c)>> \in Seq(Typed)
  <2>1. St("name", c) \in Typed
    BY <1>1, StatementsTyped, OpsPlain
  <2>2. QED
    BY <2>1
<1>6. QED
  BY <1>1, <1>2, <1>3, <1>4, <1>5, Expected, RunStays DEF c

LEMMA SetUpTypes ==
  ASSUME TypeInv, NEW r \in Runs, SetUp(r)
  PROVE  TypeInv'
<1> DEFINE c == at[r]
<1>1. c \in Containers
  BY InRunFacts DEF SetUp, Near
<1>2. Tables' /\ World' /\ at' = at /\ UNCHANGED <<lock, tracked, holds, seen, suspected, up>>
  BY TablesStay, MishapTypes, WorldStays DEF SetUp
<1>3. Goto(Run(r), "claim", <<StTo("upsert", c, "idle")>>)
  BY DEF SetUp
<1> HIDE DEF c
<1>4. <<StTo("upsert", c, "idle")>> \in Seq(Typed)
  <2>1. StTo("upsert", c, "idle") \in Typed
    BY <1>1, StatementsTyped DEF Written
  <2>2. QED
    BY <2>1
<1>5. QED
  BY <1>1, <1>2, <1>3, <1>4, Expected, RunStays DEF c

LEMMA ProvisionFailsTypes ==
  ASSUME TypeInv, NEW r \in Runs, ProvisionFails(r)
  PROVE  TypeInv'
<1> DEFINE c == at[r]
<1>1. c \in Containers
  BY InRunFacts DEF ProvisionFails, Near
<1>2. Tables' /\ World' /\ at' = at /\ UNCHANGED <<lock, tracked, holds, seen, suspected, up>>
  BY TablesStay, MishapTypes, WorldStays DEF ProvisionFails, Mishap
<1>3. Goto(Run(r), "failed", <<StTo("set", c, "error"), StTo("show", c, "error")>>)
  BY DEF ProvisionFails
<1> HIDE DEF c
<1>4. <<StTo("set", c, "error"), StTo("show", c, "error")>> \in Seq(Typed)
  <2>1. StTo("set", c, "error") \in Typed /\ StTo("show", c, "error") \in Typed
    BY <1>1, StatementsTyped DEF Written, ShownState
  <2>2. QED
    BY <2>1
<1>5. QED
  BY <1>1, <1>2, <1>3, <1>4, Expected, RunStays DEF c

LEMMA CreateFailsTypes ==
  ASSUME TypeInv, NEW r \in Runs, CreateFails(r)
  PROVE  TypeInv'
<1> DEFINE c == at[r]
           q == <<StTo("show", c, "error")>>
<1>1. c \in Containers
  BY InRunFacts DEF CreateFails, Near
<1>2. /\ Tables' /\ World' /\ at' = at /\ lock' = lock
      /\ UNCHANGED <<tracked, holds, seen, suspected, up>>
  BY TablesStay, MishapTypes, WorldStays DEF CreateFails, Mishap
<1>3. /\ pc' = [pc EXCEPT ![Run(r)] = "failed", ![Cleanup(c)] = "lookup"]
      /\ todo' = [todo EXCEPT ![Run(r)] = q]
  BY DEF CreateFails
<1> HIDE DEF c
<1>4. q \in Seq(Typed)
  <2>1. StTo("show", c, "error") \in Typed
    BY <1>1, StatementsTyped DEF ShownState
  <2>2. QED
    BY <2>1
<1> HIDE DEF q
<1>5. /\ pc \in [Actors -> RunPc \union PassPc] /\ todo \in [Actors -> Seq(Typed)]
      /\ lock \in Actors \union {None} /\ OnContainer /\ at \in [Runs -> Containers \union {None}]
  BY DEF TypeInv, Places, Todos
<1>6. /\ Run(r) \in Actors /\ Cleanup(c) \in Actors /\ Run(r) # Cleanup(c) /\ Watch \in Actors
      /\ Watch # Run(r) /\ Watch # Cleanup(c)
  BY <1>1, ActorsDiffer, PassesDiffer
<1>7. "failed" \in RunPc /\ "failed" \notin Near /\ "lookup" \in PassPc
  BY DEF RunPc, Near, PassPc
<1>8. /\ pc' \in [Actors -> RunPc \union PassPc] /\ todo' \in [Actors -> Seq(Typed)]
      /\ pc'[Watch] = pc[Watch] /\ pc'[Run(r)] = "failed"
      /\ \A a \in Actors : a # Run(r) /\ a # Cleanup(c) => pc'[a] = pc[a]
  BY <1>3, <1>4, <1>5, <1>6, <1>7
<1>9. OnContainer'
  <2> SUFFICES ASSUME NEW s \in Runs, pc'[Run(s)] \in Near PROVE at'[s] \in Containers
    BY DEF OnContainer
  <2>1. s # r /\ Run(s) # Run(r) /\ Run(s) # Cleanup(c) /\ Run(s) \in Actors
    BY <1>7, <1>8, ActorsDiffer
  <2>2. QED
    BY <1>2, <1>5, <1>8, <2>1 DEF OnContainer
<1>10. Memory'
  BY <1>2, <1>8, MemoryStays
<1>11. QED
  BY <1>2, <1>5, <1>8, <1>9, <1>10 DEF TypeInv, Places, Todos

LEMMA ClaimTypes ==
  ASSUME TypeInv, NEW r \in Runs, Claim(r)
  PROVE  TypeInv'
<1> DEFINE c == at[r]
<1>1. c \in Containers
  BY InRunFacts DEF Claim, Near
<1>2. /\ at' = at /\ UNCHANGED <<lock, tracked, holds, seen, suspected, up>>
      /\ UNCHANGED <<outdated, bill, prov, named, shown, live, engine, mishaps>>
  BY DEF Claim
<1>3. \/ /\ Goto(Run(r), "claimed", Uptime("busy", c))
         /\ row' = [row EXCEPT ![c] = "busy"]
         /\ serving' = IF engine[c] = "running" THEN serving \union {r} ELSE serving
      \/ Goto(Run(r), "retry", <<>>) /\ UNCHANGED <<row, serving>>
  BY DEF Claim
<1> HIDE DEF c
<1>4. row' \in [Containers -> RowState] /\ serving' \subseteq Runs
  BY <1>3 DEF TypeInv, Tables, World, RowState
<1>5. Tables' /\ World'
  BY <1>2, <1>4 DEF TypeInv, Tables, World
<1>6. Uptime("busy", c) \in Seq(Typed)
  BY <1>1, UptimeTyped
<1>7. QED
  BY <1>1, <1>2, <1>3, <1>5, <1>6, Expected, NoStatements, RunStays DEF c

LEMMA LeaveLadderTypes ==
  ASSUME TypeInv, NEW r \in Runs, LeaveLadder(r)
  PROVE  TypeInv'
<1>1. Tables' /\ World' /\ lock' = None /\ UNCHANGED <<tracked, holds, seen, suspected, up>>
  BY TablesStay, MishapTypes, WorldStays DEF LeaveLadder
<1>2. at \in [Runs -> Containers \union {None}]
  BY DEF TypeInv, Places
<1>3. CASE InRun(r, "claimed") /\ Goto(Run(r), "working", <<>>) /\ at' = at
  <2>1. at[r] \in Containers
    BY <1>3, InRunFacts DEF Near
  <2>2. QED
    BY <1>1, <1>2, <1>3, <2>1, Expected, NoStatements, RunGoes
<1>4. ASSUME NEW p \in {"again", "new"}, Goto(Run(r), p, <<>>), at' = [at EXCEPT ![r] = None]
      PROVE  TypeInv'
  <2>1. at' \in [Runs -> Containers \union {None}] /\ \A s \in Runs : s # r => at'[s] = at[s]
    BY <1>2, <1>4
  <2>2. p \in RunPc /\ p \notin Near
    BY <1>4 DEF RunPc, Near
  <2>3. QED
    BY <1>1, <1>4, <2>1, <2>2, NoStatements, RunGoes
<1>5. \/ InRun(r, "claimed") /\ Goto(Run(r), "working", <<>>) /\ at' = at
      \/ Goto(Run(r), "again", <<>>) /\ at' = [at EXCEPT ![r] = None]
      \/ Goto(Run(r), "new", <<>>) /\ at' = [at EXCEPT ![r] = None]
  BY DEF LeaveLadder
<1>6. QED
  BY <1>3, <1>4, <1>5

LEMMA AttributeTypes ==
  ASSUME TypeInv, NEW r \in Runs, Attribute(r)
  PROVE  TypeInv'
<1>1. at[r] \in Containers
  BY InRunFacts DEF Attribute, Near
<1>2. Tables' /\ World' /\ at' = at /\ UNCHANGED <<lock, tracked, holds, seen, suspected, up>>
  BY DEF Attribute, TypeInv, Tables, World
<1>3. Goto(Run(r), "running", <<>>)
  BY DEF Attribute
<1>4. QED
  BY <1>1, <1>2, <1>3, Expected, NoStatements, RunStays

LEMMA EndTypes ==
  ASSUME TypeInv, NEW r \in Runs, End(r)
  PROVE  TypeInv'
<1>1. at[r] \in Containers
  BY InRunFacts DEF End, Near
<1>2. Tables' /\ World' /\ at' = at /\ UNCHANGED <<lock, tracked, holds, seen, suspected, up>>
  BY DEF End, TypeInv, Tables, World
<1>3. Goto(Run(r), "ending", Teardown(r))
  BY DEF End
<1>4. Teardown(r) \in Seq(Typed)
  <2>1. St("release", at[r]) \in Typed
    BY <1>1, StatementsTyped, OpsPlain
  <2>2. QED
    BY <2>1 DEF Teardown
<1>5. QED
  BY <1>1, <1>2, <1>3, <1>4, Expected, RunStays

LEMMA EndedTypes ==
  ASSUME TypeInv, NEW r \in Runs, Ended(r)
  PROVE  TypeInv'
<1>1. Tables' /\ World' /\ lock' = lock /\ UNCHANGED <<tracked, holds, seen, suspected, up>>
  BY TablesStay, MishapTypes, WorldStays DEF Ended
<1>2. at \in [Runs -> Containers \union {None}]
  BY DEF TypeInv, Places
<1>3. at' \in [Runs -> Containers \union {None}] /\ \A s \in Runs : s # r => at'[s] = at[s]
  BY <1>2 DEF Ended
<1>4. Goto(Run(r), "new", <<>>) /\ "new" \in RunPc /\ "new" \notin Near
  BY DEF Ended, RunPc, Near
<1>5. QED
  BY <1>1, <1>3, <1>4, NoStatements, RunGoes

LEMMA RunStepTypes ==
  ASSUME TypeInv, NEW r \in Runs, RunStep(r)
  PROVE  TypeInv'
BY EnterLadderTypes, DecideTypes, InspectTypes, ResumeTypes, RequestCreateTypes,
   CreateAnswersTypes, CreateFailsTypes, StartCreatedTypes, SetUpTypes, ProvisionFailsTypes,
   ClaimTypes, LeaveLadderTypes, AttributeTypes, EndTypes, EndedTypes DEF RunStep

-----------------------------------------------------------------------------
(* The other actors' steps                                                 *)

(* A step of an actor other than a run, the cron or the worker.            *)
LEMMA OtherGoes ==
  ASSUME TypeInv, NEW a \in Actors, \A r \in Runs : a # Run(r), a # Watch, a # Worker,
         NEW p \in PassPc, NEW q \in Seq(Typed), Goto(a, p, q), at' = at,
         lock' = lock \/ lock' = None \/ lock' = a,
         tracked' \in [Containers -> {"none", "stop", "remove"}], suspected' \subseteq Containers,
         UNCHANGED <<holds, seen, up>>, Tables', World'
  PROVE  TypeInv'
<1>1. Places' /\ Todos' /\ \A b \in Actors : b # a => pc'[b] = pc[b] /\ todo'[b] = todo[b]
  BY GotoOther
<1>2. pc'[Watch] = pc[Watch] /\ (lock' = Worker => lock = Worker)
  BY <1>1, NobodyAssumption, ActorsDiffer, PassesDiffer
<1>3. Memory'
  BY <1>2 DEF TypeInv, Memory, Looking, HasOne
<1>4. QED
  BY <1>1, <1>3 DEF TypeInv

LEMMA OtherStays ==
  ASSUME TypeInv, NEW a \in Actors, \A r \in Runs : a # Run(r), a # Watch, a # Worker,
         NEW p \in PassPc, NEW q \in Seq(Typed), Goto(a, p, q),
         UNCHANGED <<at, lock, tracked, suspected, holds, seen, up>>, Tables', World'
  PROVE  TypeInv'
<1>1. tracked' \in [Containers -> {"none", "stop", "remove"}] /\ suspected' \subseteq Containers
  BY DEF TypeInv, Memory
<1>2. QED
  BY <1>1, OtherGoes

LEMMA PassPcs ==
  {"off", "sync", "memory", "liveness", "calling", "settling", "lookup", "removing", "starting", "on"}
     \subseteq PassPc
BY DEF PassPc

(* An engine call by anybody, with or without a mishap.                    *)
LEMMA WorldMoves ==
  ASSUME TypeInv, NEW c \in Containers, NEW state \in EngineState,
         EngineMoves(c, state) \/ UNCHANGED <<engine, serving>>,
         mishaps' = mishaps \/ (mishaps < MaxMishaps /\ mishaps' = mishaps + 1)
  PROVE  World'
BY MishapTypes, WorldStays, EngineTypes DEF World

LEMMA StopTypes ==
  ASSUME TypeInv, NEW c \in Containers, StopAnswers(c) \/ StopFails(c)
  PROVE  TypeInv'
<1>1. Tables' /\ UNCHANGED <<at, lock, tracked, holds, seen, suspected, up>>
  BY TablesStay DEF StopAnswers, StopFails
<1>2. \/ Goto(Stop(c), "settling", <<StTo("showIfNamed", c, "stopped"), StTo("set", c, "suspended"),
                                     St("endRuns", c)>>)
      \/ Goto(Stop(c), "settling", <<StTo("showIfNamed", c, "error"), St("endRuns", c)>>)
  BY DEF StopAnswers, StopFails
<1>3. /\ StTo("showIfNamed", c, "stopped") \in Typed /\ StTo("showIfNamed", c, "error") \in Typed
      /\ StTo("set", c, "suspended") \in Typed /\ St("endRuns", c) \in Typed
  BY StatementsTyped, OpsPlain DEF ShownState, Written
<1>4. /\ <<StTo("showIfNamed", c, "stopped"), StTo("set", c, "suspended"), St("endRuns", c)>> \in Seq(Typed)
      /\ <<StTo("showIfNamed", c, "error"), St("endRuns", c)>> \in Seq(Typed)
  BY <1>3
<1>5. World'
  <2>1. "stopped" \in EngineState /\ "stopping" \in EngineState
    BY DEF EngineState
  <2>2. QED
    BY <2>1, WorldMoves DEF StopAnswers, StopFails, Mishap
<1>6. Stop(c) \in Actors /\ (\A r \in Runs : Stop(c) # Run(r)) /\ Stop(c) # Watch /\ Stop(c) # Worker
  BY ActorsDiffer, PassesDiffer
<1>7. QED
  BY <1>1, <1>2, <1>4, <1>5, <1>6, PassPcs, OtherStays

LEMMA RemovalTypes ==
  ASSUME TypeInv, NEW c \in Containers, RemovalAnswers(c) \/ RemovalFails(c)
  PROVE  TypeInv'
<1>1. Tables' /\ UNCHANGED <<at, lock, tracked, holds, seen, suspected, up>>
  BY TablesStay DEF RemovalAnswers, RemovalFails
<1>2. Goto(Removal(c), "settling", <<St("close", c)>>) \/ Goto(Removal(c), "settling", <<>>)
  BY DEF RemovalAnswers, RemovalFails
<1>3. St("close", c) \in Typed
  BY StatementsTyped, OpsPlain
<1>4. <<St("close", c)>> \in Seq(Typed) /\ "gone" \in EngineState
  BY <1>3 DEF EngineState
<1>5. World'
  BY <1>4, WorldMoves DEF RemovalAnswers, RemovalFails, Mishap
<1>6. /\ Removal(c) \in Actors /\ (\A r \in Runs : Removal(c) # Run(r))
      /\ Removal(c) # Watch /\ Removal(c) # Worker
  BY ActorsDiffer, PassesDiffer
<1>7. QED
  BY <1>1, <1>2, <1>4, <1>5, <1>6, PassPcs, NoStatements, OtherStays

LEMMA CallSettlesTypes ==
  ASSUME TypeInv, NEW c \in Containers, CallSettles(c)
  PROVE  TypeInv'
<1>1. PICK kind \in {"stop", "remove"} :
        LET a == IF kind = "stop" THEN Stop(c) ELSE Removal(c) IN
        /\ Free(a) /\ pc[a] = "settling"
        /\ Goto(a, "off", <<>>)
        /\ tracked' = [tracked EXCEPT ![c] = IF @ = kind THEN "none" ELSE @]
        /\ UNCHANGED <<db, engine, lock, at, holds, seen, suspected, up, serving, mishaps>>
  BY DEF CallSettles
<1> DEFINE a == IF kind = "stop" THEN Stop(c) ELSE Removal(c)
<1>2. a \in Actors /\ (\A r \in Runs : a # Run(r)) /\ a # Watch /\ a # Worker
  BY ActorsDiffer, PassesDiffer
<1>3. Goto(a, "off", <<>>) /\ UNCHANGED <<db, engine, lock, at, holds, seen, suspected, up, serving, mishaps>>
  BY <1>1
<1> HIDE DEF a
<1>4. Tables' /\ World'
  BY <1>3, TablesStay, MishapTypes, WorldStays
<1>5. tracked' \in [Containers -> {"none", "stop", "remove"}] /\ suspected' \subseteq Containers
  BY <1>1 DEF TypeInv, Memory
<1>6. QED
  BY <1>2, <1>3, <1>4, <1>5, PassPcs, NoStatements, OtherGoes

LEMMA CleanupTypes ==
  ASSUME TypeInv, NEW c \in Containers, LookUpCreate(c) \/ RemoveCreated(c)
  PROVE  TypeInv'
<1>1. Tables' /\ UNCHANGED <<at, lock, tracked, holds, seen, suspected, up>>
  BY TablesStay DEF LookUpCreate, RemoveCreated
<1>2. \/ Goto(Cleanup(c), "removing", <<St("adopt", c)>>)
      \/ Goto(Cleanup(c), "off", <<St("discard", c)>>)
      \/ Goto(Cleanup(c), "off", <<St("close", c)>>)
      \/ Goto(Cleanup(c), "off", <<>>)
  BY DEF LookUpCreate, RemoveCreated
<1>3. St("close", c) \in Typed /\ St("adopt", c) \in Typed /\ St("discard", c) \in Typed
  BY StatementsTyped, OpsPlain
<1>4. /\ <<St("close", c)>> \in Seq(Typed) /\ <<St("adopt", c)>> \in Seq(Typed)
      /\ <<St("discard", c)>> \in Seq(Typed) /\ "gone" \in EngineState
  BY <1>3 DEF EngineState
<1>5. World'
  BY <1>4, WorldMoves DEF LookUpCreate, RemoveCreated, Mishap
<1>6. /\ Cleanup(c) \in Actors /\ (\A r \in Runs : Cleanup(c) # Run(r))
      /\ Cleanup(c) # Watch /\ Cleanup(c) # Worker
  BY ActorsDiffer, PassesDiffer
<1>7. QED
  BY <1>1, <1>2, <1>4, <1>5, <1>6, PassPcs, NoStatements, OtherStays

LEMMA BackgroundTypes ==
  ASSUME TypeInv, NEW c \in Containers, Background(c)
  PROVE  TypeInv'
BY StopTypes, RemovalTypes, CallSettlesTypes, CleanupTypes DEF Background

(* Nothing but the engine and the count of mishaps moves.                  *)
LEMMA EngineOnlyTypes ==
  ASSUME TypeInv, NEW c \in Containers, EngineCreates(c) \/ EngineStops(c) \/ Outside(c)
  PROVE  TypeInv'
<1>1. UNCHANGED <<db, process, todo>>
  BY DEF EngineCreates, EngineStops, Outside
<1>2. {"stopped", "gone"} \subseteq EngineState
  BY DEF EngineState
<1>3. World'
  BY <1>2, WorldMoves DEF EngineCreates, EngineStops, Outside, Mishap
<1>4. Tables'
  BY <1>1, TablesStay
<1>5. Places' /\ Memory' /\ Todos'
  BY <1>1 DEF process, TypeInv, Places, Memory, Todos, OnContainer, Looking, HasOne
<1>6. QED
  BY <1>3, <1>4, <1>5 DEF TypeInv

LEMMA SettingsChangeTypes ==
  ASSUME TypeInv, SettingsChange
  PROVE  TypeInv'
<1>1. /\ UNCHANGED <<row, bill, prov, named, shown, live, engine, process, todo, serving>>
      /\ outdated' = {c \in Containers : row[c] # "none"}
      /\ mishaps < MaxMishaps /\ mishaps' = mishaps + 1
  BY DEF SettingsChange, Mishap
<1>2. Tables'
  BY <1>1 DEF TypeInv, Tables
<1>3. World'
  BY <1>1, MishapTypes, WorldStays
<1>4. Places' /\ Memory' /\ Todos'
  BY <1>1 DEF process, TypeInv, Places, Memory, Todos, OnContainer, Looking, HasOne
<1>5. QED
  BY <1>2, <1>3, <1>4 DEF TypeInv

LEMMA RetireTypes ==
  ASSUME TypeInv, Retire \/ RetireDone
  PROVE  TypeInv'
<1>1. /\ UNCHANGED <<db, engine, at, tracked, holds, seen, suspected, up, serving, mishaps>>
      /\ lock' = None \/ lock' = Retirer
      /\ \/ \E c \in Containers : Goto(Retirer, "on", <<St("beginStop", c)>>)
         \/ \E c \in Containers : Goto(Retirer, "on", Destroy(c))
         \/ Goto(Retirer, "off", <<>>)
  BY DEF Retire, RetireDone
<1>2. Tables' /\ World'
  BY <1>1, TablesStay, MishapTypes, WorldStays
<1>3. tracked' \in [Containers -> {"none", "stop", "remove"}] /\ suspected' \subseteq Containers
  BY <1>1 DEF TypeInv, Memory
<1>4. ASSUME NEW c \in Containers PROVE <<St("beginStop", c)>> \in Seq(Typed)
  <2>1. St("beginStop", c) \in Typed
    BY StatementsTyped, OpsPlain
  <2>2. QED
    BY <2>1
<1>5. /\ Retirer \in Actors /\ (\A r \in Runs : Retirer # Run(r))
      /\ Retirer # Watch /\ Retirer # Worker
  BY ActorsDiffer, PassesDiffer
<1>6. ASSUME NEW p \in PassPc, NEW q \in Seq(Typed), Goto(Retirer, p, q) PROVE TypeInv'
  BY <1>1, <1>2, <1>3, <1>5, <1>6, OtherGoes
<1>7. QED
  BY <1>1, <1>4, <1>6, DestroyTyped, NoStatements, PassPcs

LEMMA OperatorTypes ==
  ASSUME TypeInv, NEW c \in Containers, OperatorRemoves(c)
  PROVE  TypeInv'
<1>1. Tables' /\ UNCHANGED <<at, lock, tracked, holds, seen, suspected, up>>
  BY TablesStay DEF OperatorRemoves
<1>2. \/ Goto(Operator, "off", <<St("close", c), St("delete", c), St("unname", c), St("endRuns", c)>>)
      \/ Goto(Operator, "off", <<St("delete", c), St("unname", c), St("endRuns", c)>>)
  BY DEF OperatorRemoves
<1>3. /\ St("close", c) \in Typed /\ St("delete", c) \in Typed /\ St("unname", c) \in Typed
      /\ St("endRuns", c) \in Typed
  BY StatementsTyped, OpsPlain
<1>4. /\ <<St("close", c), St("delete", c), St("unname", c), St("endRuns", c)>> \in Seq(Typed)
      /\ <<St("delete", c), St("unname", c), St("endRuns", c)>> \in Seq(Typed)
      /\ "gone" \in EngineState
  BY <1>3 DEF EngineState
<1>5. World'
  BY <1>4, WorldMoves DEF OperatorRemoves, Mishap
<1>6. /\ Operator \in Actors /\ (\A r \in Runs : Operator # Run(r))
      /\ Operator # Watch /\ Operator # Worker
  BY ActorsDiffer, PassesDiffer
<1>7. QED
  BY <1>1, <1>2, <1>4, <1>5, <1>6, PassPcs, OtherStays

LEMMA SweepTypes ==
  ASSUME TypeInv, Sweep
  PROVE  TypeInv'
<1>1. Tables' /\ UNCHANGED <<db, lock, at, tracked, holds, seen, up>>
  BY TablesStay DEF Sweep
<1>2. suspected' \subseteq Containers
  BY DEF Sweep, Sightings
<1>3. \/ /\ UNCHANGED <<pc, todo, engine, serving>>
         /\ mishaps' = mishaps \/ (mishaps < MaxMishaps /\ mishaps' = mishaps + 1)
      \/ \E c \in Containers :
            /\ EngineMoves(c, "gone") /\ mishaps' = mishaps
            /\ Goto(Reaper, "off", <<St("adopt", c), St("close", c)>>)
  BY DEF Sweep, Mishap
<1>4. CASE /\ UNCHANGED <<pc, todo, engine, serving>>
           /\ mishaps' = mishaps \/ (mishaps < MaxMishaps /\ mishaps' = mishaps + 1)
  <2>1. World'
    BY <1>4, MishapTypes, WorldStays
  <2>2. Places' /\ Memory' /\ Todos'
    BY <1>1, <1>2, <1>4 DEF TypeInv, Places, Memory, Todos, OnContainer, Looking, HasOne
  <2>3. QED
    BY <1>1, <2>1, <2>2 DEF TypeInv
<1>5. ASSUME NEW c \in Containers, EngineMoves(c, "gone"), mishaps' = mishaps,
             Goto(Reaper, "off", <<St("adopt", c), St("close", c)>>)
      PROVE  TypeInv'
  <2>1. St("adopt", c) \in Typed /\ St("close", c) \in Typed
    BY StatementsTyped, OpsPlain
  <2>2. <<St("adopt", c), St("close", c)>> \in Seq(Typed) /\ "gone" \in EngineState
    BY <2>1 DEF EngineState
  <2>3. World'
    BY <1>5, <2>2, WorldMoves
  <2>4. tracked' \in [Containers -> {"none", "stop", "remove"}]
    BY <1>1 DEF TypeInv, Memory
  <2>5. /\ Reaper \in Actors /\ (\A r \in Runs : Reaper # Run(r)) /\ Reaper # Watch /\ Reaper # Worker
    BY ActorsDiffer, PassesDiffer
  <2>6. QED
    BY <1>1, <1>2, <1>5, <2>2, <2>3, <2>4, <2>5, PassPcs, OtherGoes
<1>6. QED
  BY <1>3, <1>4, <1>5

(* Nobody goes anywhere.                                                   *)
LEMMA HoldTypes ==
  ASSUME TypeInv, HoldRunning \/ ReleaseHold
  PROVE  TypeInv'
<1>1. UNCHANGED <<db, engine, lock, pc, at, tracked, seen, suspected, up, todo, serving, mishaps>>
  BY DEF HoldRunning, ReleaseHold
<1>2. holds' \subseteq Containers
  BY DEF HoldRunning, ReleaseHold, TypeInv, Memory
<1>3. Tables' /\ World'
  BY <1>1, TablesStay, MishapTypes, WorldStays
<1>4. Places' /\ Memory' /\ Todos'
  BY <1>1, <1>2 DEF TypeInv, Places, Memory, Todos, OnContainer, Looking, HasOne
<1>5. QED
  BY <1>3, <1>4 DEF TypeInv

LEMMA NothingRead == Nothing \in Reading
BY DEF Nothing, Reading, ShownState

LEMMA EnsureRunningTypes ==
  ASSUME TypeInv, EnsureRunning
  PROVE  TypeInv'
<1>1. /\ UNCHANGED <<db, engine, at, tracked, holds, suspected, up, serving, mishaps>>
      /\ lock' = Worker /\ named \in Containers
      /\ seen' = [seen EXCEPT !["worker"] = [c |-> named, state |-> ""]]
  BY DEF EnsureRunning
<1>2. \/ Goto(Worker, "on", <<>>) \/ Goto(Worker, "starting", <<>>)
      \/ Goto(Worker, "on", <<StTo("show", named, "running")>>)
  BY DEF EnsureRunning
<1>3. StTo("show", named, "running") \in Typed
  BY <1>1, StatementsTyped, OpsPlain DEF ShownState
<1>4. <<StTo("show", named, "running")>> \in Seq(Typed)
  BY <1>3
<1>5. Tables' /\ World'
  BY <1>1, TablesStay, MishapTypes, WorldStays
<1>6. Worker \in Actors /\ (\A r \in Runs : Worker # Run(r)) /\ Worker # Watch /\ Watch \in Actors
  BY ActorsDiffer, PassesDiffer
<1>7. Places' /\ Todos' /\ pc'[Watch] = pc[Watch]
  BY <1>1, <1>2, <1>4, <1>6, PassPcs, NoStatements, GotoOther
<1>8. [c |-> named, state |-> ""] \in Reading
  BY <1>1 DEF Reading
<1>9. /\ seen' \in [{"watch", "worker"} -> Reading]
      /\ seen'["worker"].c = named /\ seen'["watch"] = seen["watch"]
  BY <1>1, <1>8 DEF TypeInv, Memory
<1>10. Memory'
  BY <1>1, <1>7, <1>9 DEF TypeInv, Memory, Looking, HasOne
<1>11. QED
  BY <1>5, <1>7, <1>10 DEF TypeInv

LEMMA EnsureStartsTypes ==
  ASSUME TypeInv, EnsureStarts
  PROVE  TypeInv'
<1> DEFINE c == seen["worker"].c
           q == <<St("markRunning", c), StTo("show", c, "running")>>
<1>1. /\ UNCHANGED <<db, lock, at, tracked, holds, seen, suspected, up, mishaps>>
      /\ EngineMoves(c, "running") /\ Goto(Worker, "on", q) /\ lock = Worker
  BY DEF EnsureStarts
<1>2. c \in Containers
  BY <1>1 DEF TypeInv, Memory, HasOne
<1>3. StTo("show", c, "running") \in Typed /\ St("markRunning", c) \in Typed
  BY <1>2, StatementsTyped, OpsPlain DEF ShownState
<1>4. q \in Seq(Typed) /\ "running" \in EngineState
  BY <1>3 DEF EngineState
<1>5. Tables' /\ World'
  BY <1>1, <1>2, <1>4, TablesStay, WorldMoves
<1>6. Worker \in Actors /\ (\A r \in Runs : Worker # Run(r)) /\ Worker # Watch /\ Watch \in Actors
  BY ActorsDiffer, PassesDiffer
<1> HIDE DEF c, q
<1>7. Places' /\ Todos' /\ pc'[Watch] = pc[Watch]
  BY <1>1, <1>4, <1>6, PassPcs, GotoOther
<1>8. Memory'
  BY <1>1, <1>7 DEF TypeInv, Memory, Looking, HasOne
<1>9. QED
  BY <1>5, <1>7, <1>8 DEF TypeInv

LEMMA EnsureDoneTypes ==
  ASSUME TypeInv, EnsureFails \/ EnsureDone
  PROVE  TypeInv'
<1>1. /\ UNCHANGED <<db, engine, at, tracked, suspected, up, serving, mishaps>> /\ lock' = None
      /\ lock = Worker /\ holds' \in {holds, holds \union {seen["worker"].c}}
      /\ seen' = [seen EXCEPT !["worker"] = Nothing] /\ Goto(Worker, "off", <<>>)
  BY DEF EnsureFails, EnsureDone
<1>2. Tables' /\ World'
  BY <1>1, TablesStay, MishapTypes, WorldStays
<1>3. Worker \in Actors /\ (\A r \in Runs : Worker # Run(r)) /\ Worker # Watch /\ Watch \in Actors
  BY ActorsDiffer, PassesDiffer
<1>4. Places' /\ Todos' /\ pc'[Watch] = pc[Watch]
  BY <1>1, <1>3, PassPcs, NoStatements, GotoOther
<1>5. seen' \in [{"watch", "worker"} -> Reading] /\ seen'["watch"] = seen["watch"]
  BY <1>1, NothingRead DEF TypeInv, Memory
<1>6. holds' \subseteq Containers /\ lock' # Worker
  BY <1>1, <1>3, NobodyAssumption DEF TypeInv, Memory, HasOne
<1>7. Memory'
  BY <1>1, <1>4, <1>5, <1>6 DEF TypeInv, Memory, Looking, HasOne
<1>8. QED
  BY <1>2, <1>4, <1>7 DEF TypeInv

(* A step of the cron that changes no table: what it read and where it is. *)
LEMMA WatchGoes ==
  ASSUME TypeInv, NEW p \in PassPc, NEW q \in Seq(Typed), Goto(Watch, p, q), UNCHANGED db,
         UNCHANGED <<lock, at, tracked, holds, suspected, up>>, World',
         NEW x \in Reading, seen' = [seen EXCEPT !["watch"] = x],
         p \in {"sync", "memory", "liveness"} => x.c \in Containers
  PROVE  TypeInv'
<1>1. /\ Watch \in Actors /\ (\A r \in Runs : Watch # Run(r))
  BY ActorsDiffer, PassesDiffer
<1>2. Places' /\ Todos' /\ pc'[Watch] = p
  BY <1>1, GotoOther
<1>3. /\ seen' \in [{"watch", "worker"} -> Reading]
      /\ seen'["watch"] = x /\ seen'["worker"] = seen["worker"]
  BY DEF TypeInv, Memory
<1>4. Memory'
  BY <1>2, <1>3 DEF TypeInv, Memory, Looking, HasOne
<1>5. QED
  BY <1>2, <1>4, TablesStay DEF TypeInv

LEMMA LivenessReadsTypes ==
  ASSUME TypeInv, NEW c \in Containers, LivenessReads(c)
  PROVE  TypeInv'
<1>1. /\ UNCHANGED <<db, engine, lock, at, tracked, holds, suspected, up, serving, mishaps>>
      /\ Goto(Watch, "liveness", <<>>)
  BY DEF LivenessReads
<1>2. World'
  BY <1>1, MishapTypes, WorldStays
<1>3. ASSUME NEW state \in RowState \union {"unsettled", "provisional"},
             seen' = [seen EXCEPT !["watch"] = [c |-> c, state |-> state]]
      PROVE  TypeInv'
  <2> DEFINE x == [c |-> c, state |-> state]
  <2>1. x \in Reading /\ x.c \in Containers
    BY <1>3 DEF Reading
  <2>2. seen' = [seen EXCEPT !["watch"] = x]
    BY <1>3
  <2> HIDE DEF x
  <2>3. QED
    BY <1>1, <1>2, <2>1, <2>2, PassPcs, NoStatements, WatchGoes
<1>4. row[c] \in RowState
  BY DEF TypeInv, Tables
<1>5. QED
  BY <1>3, <1>4 DEF LivenessReads

LEMMA TransitionTyped ==
  ASSUME NEW c \in Containers
  PROVE  Transition(c) \in Seq(Typed)
<1>1. St("cancel", c) \in Typed /\ St("endRuns", c) \in Typed /\ St("unclaim", c) \in Typed
  BY StatementsTyped, OpsPlain
<1>2. QED
  BY <1>1 DEF Transition

LEMMA VerdictTyped ==
  ASSUME TypeInv, NEW c \in Containers, NEW state
  PROVE  Verdict(c, state) \in Seq(Typed)
<1>1. /\ St("adopt", c) \in Typed /\ St("discard", c) \in Typed /\ St("close", c) \in Typed
      /\ St("open", c) \in Typed /\ St("markRunning", c) \in Typed /\ St("delete", c) \in Typed
      /\ StTo("set", c, "suspended") \in Typed
  BY StatementsTyped, OpsPlain DEF Written
<1>2. /\ <<St("adopt", c)>> \in Seq(Typed) /\ <<St("discard", c)>> \in Seq(Typed)
      /\ <<St("close", c)>> \in Seq(Typed) /\ <<St("open", c)>> \in Seq(Typed)
      /\ <<St("markRunning", c)>> \in Seq(Typed) /\ <<St("close", c), St("delete", c)>> \in Seq(Typed)
      /\ <<StTo("set", c, "suspended")>> \in Seq(Typed)
  BY <1>1
<1>3. <<StTo("set", c, "suspended")>> \o Transition(c) \in Seq(Typed)
  BY <1>2, TransitionTyped
<1>4. engine[c] \in EngineState
  BY DEF TypeInv, World
<1>5. UnsettledVerdict(c, state) \in Seq(Typed)
  BY <1>2, NoStatements DEF UnsettledVerdict
<1>6. RunningVerdict(c, state) \in Seq(Typed)
  BY <1>2, NoStatements DEF RunningVerdict
<1>7. RestVerdict(c, state) \in Seq(Typed)
  BY <1>2, <1>3, NoStatements, TransitionTyped DEF RestVerdict
<1>8. QED
  BY <1>2, <1>4, <1>5, <1>6, <1>7, NoStatements DEF Verdict, Exists, EngineState

LEMMA LivenessJudgesTypes ==
  ASSUME TypeInv, LivenessJudges \/ LivenessFailsWedged
  PROVE  TypeInv'
<1> DEFINE c == seen["watch"].c
           state == seen["watch"].state
<1>1. /\ UNCHANGED <<db, engine, lock, at, tracked, holds, suspected, up, serving>>
      /\ mishaps' = mishaps \/ (mishaps < MaxMishaps /\ mishaps' = mishaps + 1)
      /\ seen' = [seen EXCEPT !["watch"] = Nothing]
      /\ \/ Goto(Watch, "off", <<>>) \/ Goto(Watch, "off", Verdict(c, state))
         \/ Goto(Watch, "off", <<StTo("set", c, "error")>>)
      /\ pc[Watch] = "liveness"
  BY DEF LivenessJudges, LivenessFailsWedged, Mishap
<1>2. c \in Containers
  BY <1>1 DEF TypeInv, Memory, Looking
<1> HIDE DEF c, state
<1>3. StTo("set", c, "error") \in Typed
  BY <1>2, StatementsTyped DEF Written
<1>4. <<StTo("set", c, "error")>> \in Seq(Typed) /\ Verdict(c, state) \in Seq(Typed)
  BY <1>2, <1>3, VerdictTyped
<1>5. World'
  BY <1>1, MishapTypes, WorldStays
<1>6. "off" \in PassPc /\ "off" \notin {"sync", "memory", "liveness"}
  BY DEF PassPc
<1>7. QED
  BY <1>1, <1>4, <1>5, <1>6, NothingRead, NoStatements, WatchGoes

LEMMA SyncReadsTypes ==
  ASSUME TypeInv, SyncReads
  PROVE  TypeInv'
<1> DEFINE x == [c |-> named, state |-> shown]
<1>1. /\ UNCHANGED <<db, engine, lock, at, tracked, holds, suspected, up, serving, mishaps>>
      /\ Goto(Watch, "sync", <<>>) /\ named \in Containers /\ seen' = [seen EXCEPT !["watch"] = x]
  BY DEF SyncReads
<1>2. x \in Reading /\ x.c \in Containers
  BY <1>1 DEF Reading, TypeInv, Tables
<1> HIDE DEF x
<1>3. World'
  BY <1>1, MishapTypes, WorldStays
<1>4. QED
  BY <1>1, <1>2, <1>3, PassPcs, NoStatements, WatchGoes

(* What the status sync writes.                                            *)
LEMMA SyncTyped ==
  ASSUME NEW c \in Containers, NEW ended \in Seq(Typed)
  PROVE  /\ <<St("showGone", c)>> \o ended \in Seq(Typed)
         /\ <<StTo("show", c, "stopped"), StTo("set", c, "suspended")>> \o ended \in Seq(Typed)
         /\ <<StTo("show", c, "error"), StTo("set", c, "suspended"), St("endRuns", c)>> \o ended \in Seq(Typed)
         /\ <<StTo("show", c, "error"), St("endRuns", c)>> \o ended \in Seq(Typed)
         /\ <<StTo("show", c, "stopped")>> \in Seq(Typed)
         /\ <<StTo("show", c, "running")>> \in Seq(Typed)
<1>1. /\ St("showGone", c) \in Typed /\ St("endRuns", c) \in Typed
      /\ StTo("show", c, "stopped") \in Typed /\ StTo("show", c, "running") \in Typed
      /\ StTo("show", c, "error") \in Typed /\ StTo("set", c, "suspended") \in Typed
  BY StatementsTyped, OpsPlain DEF Written, ShownState
<1>2. /\ <<St("showGone", c)>> \in Seq(Typed)
      /\ <<StTo("show", c, "stopped"), StTo("set", c, "suspended")>> \in Seq(Typed)
      /\ <<StTo("show", c, "error"), StTo("set", c, "suspended"), St("endRuns", c)>> \in Seq(Typed)
      /\ <<StTo("show", c, "error"), St("endRuns", c)>> \in Seq(Typed)
      /\ <<StTo("show", c, "stopped")>> \in Seq(Typed) /\ <<StTo("show", c, "running")>> \in Seq(Typed)
  BY <1>1
<1>3. ASSUME NEW q \in Seq(Typed) PROVE q \o ended \in Seq(Typed)
  OBVIOUS
<1>4. QED
  BY <1>2, <1>3

LEMMA SyncTypes ==
  ASSUME TypeInv, SyncJudges \/ SyncMeasures \/ SyncWithinLimit \/ SyncStopsOverLimit
  PROVE  TypeInv'
<1> DEFINE c == seen["watch"].c
           ended == IF seen["watch"].state = "running" THEN Transition(c) ELSE <<>>
<1>1. /\ UNCHANGED db /\ UNCHANGED <<lock, at, tracked, holds, suspected, up>>
      /\ mishaps' = mishaps \/ (mishaps < MaxMishaps /\ mishaps' = mishaps + 1)
      /\ EngineMoves(c, "stopped") \/ UNCHANGED <<engine, serving>>
      /\ pc[Watch] \in {"sync", "memory"}
  BY DEF SyncJudges, SyncMeasures, SyncWithinLimit, SyncStopsOverLimit, Mishap
<1>2. \/ /\ \/ Goto(Watch, "off", <<>>)
            \/ Goto(Watch, "off", <<St("showGone", c)>> \o ended)
            \/ Goto(Watch, "off", <<StTo("show", c, "stopped"), StTo("set", c, "suspended")>> \o ended)
            \/ Goto(Watch, "off", <<StTo("show", c, "stopped")>>)
            \/ Goto(Watch, "off", <<StTo("show", c, "running")>>)
            \/ Goto(Watch, "off", <<StTo("show", c, "error"), StTo("set", c, "suspended"),
                                    St("endRuns", c)>> \o ended)
            \/ Goto(Watch, "off", <<StTo("show", c, "error"), St("endRuns", c)>> \o ended)
         /\ seen' = [seen EXCEPT !["watch"] = Nothing]
      \/ Goto(Watch, "memory", <<StTo("show", c, "running")>>) /\ seen' = seen
  BY DEF SyncJudges, SyncMeasures, SyncWithinLimit, SyncStopsOverLimit
<1>3. c \in Containers
  BY <1>1 DEF TypeInv, Memory, Looking
<1>4. ended \in Seq(Typed)
  BY <1>3, TransitionTyped, NoStatements
<1>5. seen["watch"] \in Reading /\ seen = [seen EXCEPT !["watch"] = seen["watch"]]
  BY DEF TypeInv, Memory
<1>6. seen["watch"].c \in Containers
  BY <1>3
<1> HIDE DEF c, ended
<1>7. World'
  <2>1. "stopped" \in EngineState
    BY DEF EngineState
  <2>2. QED
    BY <1>1, <1>3, <2>1, WorldMoves
<1>8. "off" \in PassPc /\ "off" \notin {"sync", "memory", "liveness"} /\ "memory" \in PassPc
  BY DEF PassPc
<1>9. ASSUME NEW q \in Seq(Typed), Goto(Watch, "off", q), seen' = [seen EXCEPT !["watch"] = Nothing]
      PROVE  TypeInv'
  BY <1>1, <1>7, <1>8, <1>9, NothingRead, WatchGoes
<1>10. CASE Goto(Watch, "memory", <<StTo("show", c, "running")>>) /\ seen' = seen
  BY <1>1, <1>3, <1>4, <1>5, <1>6, <1>7, <1>8, <1>10, SyncTyped, WatchGoes
<1>11. QED
  BY <1>2, <1>3, <1>4, <1>9, <1>10, SyncTyped, NoStatements

-----------------------------------------------------------------------------
(* Statements                                                              *)

LEMMA HeadTyped ==
  ASSUME TypeInv, NEW a \in Actors, Exec(a)
  PROVE  /\ up /\ todo[a] # <<>> /\ todo[a] \in Seq(Typed)
         /\ Head(todo[a]) \in Typed /\ Head(todo[a]).c \in Containers
         /\ Tail(todo[a]) \in Seq(Typed)
         /\ Head(todo[a]).op \in Writes => Head(todo[a]).to \in Written
         /\ Head(todo[a]).op \in {"show", "showIfNamed"} => Head(todo[a]).to \in ShownState
<1>1. up /\ todo[a] # <<>> /\ todo[a] \in Seq(Typed)
  BY DEF Exec, TypeInv, Todos
<1>2. Head(todo[a]) \in Typed /\ Tail(todo[a]) \in Seq(Typed)
  BY <1>1
<1> DEFINE x == Head(todo[a])
<1>3. x \in Typed
  BY <1>2
<1> HIDE DEF x
<1>4. x.c \in Containers /\ (x.op \in Writes => x.to \in Written)
      /\ (x.op \in {"show", "showIfNamed"} => x.to \in ShownState)
  BY <1>3 DEF Typed, Statement
<1>5. QED
  BY <1>1, <1>2, <1>4 DEF x

(* Who is where, and what is in flight, after a statement.                 *)
Launches(c) ==
    \/ UNCHANGED <<pc, tracked>>
    \/ pc' = [pc EXCEPT ![Stop(c)] = "calling"] /\ tracked' = [tracked EXCEPT ![c] = "stop"]
    \/ pc' = [pc EXCEPT ![Removal(c)] = "calling"] /\ tracked' = [tracked EXCEPT ![c] = "remove"]

(* A statement leaves the tables well typed, and puts at most its ledger   *)
(* move in front of what its actor has still to execute.                   *)
LEMMA ExecEffect ==
  ASSUME TypeInv, NEW a \in Actors, Exec(a)
  PROVE  /\ Tables' /\ serving' \subseteq Runs /\ Launches(Head(todo[a]).c)
         /\ \/ Done(a, <<>>)
            \/ \E state \in Written : Done(a, Uptime(state, Head(todo[a]).c))
<1> DEFINE s == Head(todo[a])
           c == s.c
           Good == /\ Tables' /\ serving' \subseteq Runs /\ Launches(c)
                   /\ Done(a, <<>>) \/ \E state \in Written : Done(a, Uptime(state, c))
<1>1. /\ c \in Containers /\ (s.op \in Writes => s.to \in Written)
      /\ (s.op \in {"show", "showIfNamed"} => s.to \in ShownState)
  BY HeadTyped
<1>2. \/ /\ \/ s.op = "open" /\ OpenUptime(a, c)
            \/ s.op = "close" /\ CloseUptime(a, c)
            \/ s.op = "provisional" /\ OpenProvisional(a, c)
            \/ s.op = "adopt" /\ AdoptProvisional(a, c)
            \/ s.op = "discard" /\ DiscardProvisional(a, c)
            \/ s.op = "set" /\ SetState(a, c, s.to)
            \/ s.op = "upsert" /\ UpsertMember(a, c, s.to)
            \/ s.op = "delete" /\ ForgetMember(a, c)
            \/ s.op = "release" /\ ReleaseMember(a, c)
            \/ s.op = "unclaim" /\ Unclaim(a, c)
            \/ s.op = "markRunning" /\ MarkRunning(a, c)
            \/ s.op \in {"name", "unname", "show", "showIfNamed", "showGone"} /\ WriteProject(a, s)
            \/ s.op = "endRuns" /\ EndRuns(a, c)
         /\ UNCHANGED <<outdated, pc, tracked, serving>>
      \/ s.op = "adoptUnpooled" /\ AdoptMember(a, c, s.to) /\ UNCHANGED <<pc, tracked, serving>>
      \/ s.op = "beginStop" /\ BeginStop(a, c) /\ UNCHANGED <<outdated, serving>>
      \/ s.op = "beginRemoval" /\ BeginRemoval(a, c) /\ UNCHANGED serving
      \/ s.op = "cancel" /\ CancelLiveRuns(a, c) /\ UNCHANGED <<pc, tracked>>
  BY DEF Exec
<1> SUFFICES Good
  OBVIOUS
<1> HIDE DEF s
<1>3. Tables /\ serving \subseteq Runs
  BY DEF TypeInv, World
<1>4. /\ "idle" \in Written /\ "suspended" \in Written /\ Written \subseteq RowState
      /\ "none" \in RowState
  BY DEF Written, RowState
<1>5. CASE /\ \/ s.op = "open" /\ OpenUptime(a, c)
              \/ s.op = "close" /\ CloseUptime(a, c)
              \/ s.op = "provisional" /\ OpenProvisional(a, c)
              \/ s.op = "adopt" /\ AdoptProvisional(a, c)
              \/ s.op = "discard" /\ DiscardProvisional(a, c)
           /\ UNCHANGED <<outdated, pc, tracked, serving>>
  <2>1. bill' \in [Containers -> BOOLEAN] /\ prov' \subseteq Containers
    BY <1>1, <1>3, <1>5 DEF OpenUptime, CloseUptime, OpenProvisional, AdoptProvisional,
       DiscardProvisional, Tables
  <2>2. UNCHANGED <<row, outdated, named, shown, live, pc, tracked, serving>> /\ Done(a, <<>>)
    BY <1>5 DEF OpenUptime, CloseUptime, OpenProvisional, AdoptProvisional, DiscardProvisional
  <2>3. QED
    BY <1>3, <2>1, <2>2 DEF Tables, Launches
<1>6. CASE /\ \/ s.op = "set" /\ SetState(a, c, s.to)
              \/ s.op = "upsert" /\ UpsertMember(a, c, s.to)
           /\ UNCHANGED <<outdated, pc, tracked, serving>>
  <2>1. s.to \in Written
    BY <1>1, <1>6 DEF Writes
  <2>2. row' \in [Containers -> RowState] /\ Done(a, Uptime(s.to, c))
    BY <1>3, <1>4, <1>6, <2>1 DEF SetState, UpsertMember, Tables
  <2>3. UNCHANGED <<outdated, bill, prov, named, shown, live, pc, tracked, serving>>
    BY <1>6 DEF SetState, UpsertMember
  <2>4. QED
    BY <1>3, <2>1, <2>2, <2>3 DEF Tables, Launches
<1>7. CASE /\ \/ s.op = "delete" /\ ForgetMember(a, c)
              \/ s.op = "release" /\ ReleaseMember(a, c)
              \/ s.op = "unclaim" /\ Unclaim(a, c)
              \/ s.op = "markRunning" /\ MarkRunning(a, c)
           /\ UNCHANGED <<outdated, pc, tracked, serving>>
  <2>1. row' \in [Containers -> RowState]
    BY <1>3, <1>4, <1>7 DEF ForgetMember, ReleaseMember, Unclaim, MarkRunning, Tables
  <2>2. /\ UNCHANGED <<outdated, bill, prov, named, shown, live, pc, tracked, serving>>
        /\ Done(a, <<>>) \/ Done(a, Uptime("idle", c)) \/ Done(a, Uptime("suspended", c))
    BY <1>7 DEF ForgetMember, ReleaseMember, Unclaim, MarkRunning
  <2>3. QED
    BY <1>3, <1>4, <2>1, <2>2 DEF Tables, Launches
<1>8. CASE /\ s.op \in {"name", "unname", "show", "showIfNamed", "showGone"} /\ WriteProject(a, s)
           /\ UNCHANGED <<outdated, pc, tracked, serving>>
  <2>1. named' \in Containers \union {None}
    BY <1>1, <1>3, <1>8 DEF WriteProject, Tables
  <2>2. shown' \in ShownState
    BY <1>1, <1>3, <1>8 DEF WriteProject, Tables, ShownState
  <2>3. UNCHANGED <<row, outdated, bill, prov, live, pc, tracked, serving>> /\ Done(a, <<>>)
    BY <1>8 DEF WriteProject
  <2>4. QED
    BY <1>3, <2>1, <2>2, <2>3 DEF Tables, Launches
<1>9. CASE s.op = "endRuns" /\ EndRuns(a, c) /\ UNCHANGED <<outdated, pc, tracked, serving>>
  BY <1>3, <1>9 DEF EndRuns, Tables, Launches
<1>10. CASE s.op = "adoptUnpooled" /\ AdoptMember(a, c, s.to) /\ UNCHANGED <<pc, tracked, serving>>
  <2>1. s.to \in Written
    BY <1>1, <1>10 DEF Writes
  <2>2. row' \in [Containers -> RowState] /\ Done(a, Uptime(s.to, c)) /\ outdated' \subseteq Containers
    BY <1>1, <1>3, <1>4, <1>10, <2>1 DEF AdoptMember, Tables
  <2>3. UNCHANGED <<bill, prov, named, shown, live, pc, tracked, serving>>
    BY <1>10 DEF AdoptMember
  <2>4. QED
    BY <1>3, <2>1, <2>2, <2>3 DEF Tables, Launches
<1>11. CASE s.op = "beginStop" /\ BeginStop(a, c) /\ UNCHANGED <<outdated, serving>>
  <2>1. row' \in [Containers -> RowState] /\ Launches(c) /\ Done(a, <<>>)
    BY <1>3, <1>4, <1>11 DEF BeginStop, Tables, Launches
  <2>2. UNCHANGED <<outdated, bill, prov, named, shown, live, serving>>
    BY <1>11 DEF BeginStop
  <2>3. QED
    BY <1>3, <2>1, <2>2 DEF Tables
<1>12. CASE s.op = "beginRemoval" /\ BeginRemoval(a, c) /\ UNCHANGED serving
  BY <1>3, <1>12, TablesStay DEF BeginRemoval, Launches, db
<1>13. CASE s.op = "cancel" /\ CancelLiveRuns(a, c) /\ UNCHANGED <<pc, tracked>>
  BY <1>3, <1>13, TablesStay DEF CancelLiveRuns, Launches
<1>14. QED
  BY <1>2, <1>5, <1>6, <1>7, <1>8, <1>9, <1>10, <1>11, <1>12, <1>13

(* A statement moves no run.                                               *)
LEMMA ExecMoves ==
  ASSUME TypeInv, NEW a \in Actors, NEW c \in Containers, Launches(c)
  PROVE  /\ pc' \in [Actors -> RunPc \union PassPc]
         /\ tracked' \in [Containers -> {"none", "stop", "remove"}]
         /\ \A r \in Runs : pc'[Run(r)] = pc[Run(r)]
         /\ \A p \in Passes : pc'[p] = pc[p]
         /\ \A b \in Actors : b # Stop(c) /\ b # Removal(c) => pc'[b] = pc[b]
<1>1. /\ pc \in [Actors -> RunPc \union PassPc] /\ tracked \in [Containers -> {"none", "stop", "remove"}]
  BY DEF TypeInv, Places, Memory
<1>2. /\ pc' \in [Actors -> RunPc \union PassPc]
      /\ tracked' \in [Containers -> {"none", "stop", "remove"}]
      /\ \A b \in Actors : b # Stop(c) /\ b # Removal(c) => pc'[b] = pc[b]
  BY <1>1, PassPcs DEF Launches
<1>3. QED
  BY <1>2, ActorsDiffer

LEMMA ExecTypes ==
  ASSUME TypeInv, NEW a \in Actors, Exec(a)
  PROVE  TypeInv'
<1> DEFINE c == Head(todo[a]).c
<1>1. c \in Containers /\ Tail(todo[a]) \in Seq(Typed)
  BY HeadTyped
<1>2. /\ Tables' /\ serving' \subseteq Runs /\ Launches(c)
      /\ Done(a, <<>>) \/ \E state \in Written : Done(a, Uptime(state, c))
  BY ExecEffect
<1>3. UNCHANGED <<engine, lock, at, holds, seen, suspected, up, mishaps>>
  BY DEF Exec
<1> HIDE DEF c
<1>4. PICK more \in Seq(Typed) : Done(a, more)
  BY <1>1, <1>2, UptimeTyped, NoStatements
<1>5. Todos'
  BY <1>1, <1>4 DEF Done, TypeInv, Todos
<1>6. /\ pc' \in [Actors -> RunPc \union PassPc]
      /\ tracked' \in [Containers -> {"none", "stop", "remove"}]
      /\ \A r \in Runs : pc'[Run(r)] = pc[Run(r)]
      /\ pc'[Watch] = pc[Watch]
  BY <1>1, <1>2, ExecMoves, PassesDiffer
<1>7. Places' /\ Memory' /\ World'
  BY <1>2, <1>3, <1>6 DEF TypeInv, Places, Memory, World, OnContainer, Looking, HasOne
<1>8. QED
  BY <1>2, <1>5, <1>7 DEF TypeInv

-----------------------------------------------------------------------------
(* Crash and restart                                                       *)

LEMMA IdlePcTyped ==
  /\ IdlePc \in [Actors -> RunPc \union PassPc]
  /\ \A r \in Runs : IdlePc[Run(r)] = "new"
  /\ \A a \in Actors : (\A r \in Runs : a # Run(r)) => IdlePc[a] = "off"
<1>1. IdlePc \in [Actors -> RunPc \union PassPc]
  BY DEF IdlePc, RunPc, PassPc
<1>2. QED
  BY <1>1, ActorsDiffer DEF IdlePc

LEMMA CrashTypes ==
  ASSUME TypeInv, Crash
  PROVE  TypeInv'
<1>1. /\ up' = FALSE /\ lock' = None /\ pc' = IdlePc /\ at' = [r \in Runs |-> None]
      /\ todo' = [a \in Actors |-> <<>>] /\ tracked' = [c \in Containers |-> "none"]
      /\ holds' = {} /\ seen' = [p \in DOMAIN seen |-> Nothing] /\ suspected' = {} /\ serving' = {}
      /\ UNCHANGED <<db, engine>> /\ mishaps < MaxMishaps /\ mishaps' = mishaps + 1
  BY DEF Crash, Mishap
<1>2. Tables' /\ World'
  BY <1>1, TablesStay, MishapTypes DEF TypeInv, World
<1>3. Places'
  <2>1. OnContainer'
    BY <1>1, IdlePcTyped DEF OnContainer, Near
  <2>2. QED
    BY <1>1, <2>1, IdlePcTyped DEF Places
<1>4. Memory'
  <2>1. pc'[Watch] = "off" /\ lock' # Worker
    BY <1>1, IdlePcTyped, ActorsDiffer, PassesDiffer, NobodyAssumption
  <2>2. seen' \in [{"watch", "worker"} -> Reading]
    BY <1>1, NothingRead DEF TypeInv, Memory
  <2>3. QED
    BY <1>1, <2>1, <2>2 DEF Memory, Looking, HasOne
<1>5. Todos'
  BY <1>1, NoStatements DEF Todos
<1>6. QED
  BY <1>2, <1>3, <1>4, <1>5 DEF TypeInv

LEMMA RestartTypes ==
  ASSUME TypeInv, Restart
  PROVE  TypeInv'
<1> DEFINE claimed == {c \in Containers : row[c] = "busy"}
<1>1. /\ up' = TRUE /\ live' = {} /\ row' = [c \in Containers |-> AfterRestart(row[c])]
      /\ \E order \in SetToSeqs(claimed) :
            todo' = [todo EXCEPT ![Boot] = [i \in DOMAIN order |-> St("open", order[i])]]
      /\ UNCHANGED <<outdated, bill, prov, named, shown, engine, lock, pc, at, tracked, holds, seen,
                     suspected, serving, mishaps>>
  BY DEF Restart
<1>2. row' \in [Containers -> RowState]
  <2>1. ASSUME NEW c \in Containers PROVE AfterRestart(row[c]) \in RowState
    BY DEF AfterRestart, RowState, TypeInv, Tables
  <2>2. QED
    BY <1>1, <2>1
<1>3. Tables'
  BY <1>1, <1>2 DEF TypeInv, Tables
<1>4. World' /\ Places' /\ Memory'
  BY <1>1 DEF TypeInv, World, Places, Memory, OnContainer, Looking, HasOne
<1>5. Todos'
  <2>1. PICK order \in SetToSeqs(claimed) :
           todo' = [todo EXCEPT ![Boot] = [i \in DOMAIN order |-> St("open", order[i])]]
    BY <1>1
  <2>2. IsFiniteSet(claimed)
    BY ConstAssumption, FS_Subset
  <2>3. Cardinality(claimed) \in Nat
    BY <2>2, FS_CardinalityType
  <2>4. order \in [1..Cardinality(claimed) -> claimed]
    BY DEF SetToSeqs
  <2> DEFINE q == [i \in DOMAIN order |-> St("open", order[i])]
             n == Cardinality(claimed)
  <2>5. q \in [1..n -> Typed]
    <3>1. DOMAIN order = 1..n
      BY <2>4
    <3>2. ASSUME NEW i \in 1..n PROVE St("open", order[i]) \in Typed
      <4>1. order[i] \in Containers
        BY <2>4
      <4>2. QED
        BY <4>1, StatementsTyped, OpsPlain
    <3>3. QED
      BY <3>1, <3>2
  <2>6. n \in Nat
    BY <2>3
  <2>7. todo' = [todo EXCEPT ![Boot] = q]
    BY <2>1
  <2> HIDE DEF q, n
  <2>8. q \in Seq(Typed)
    BY <2>5, <2>6
  <2>9. QED
    BY <2>7, <2>8 DEF TypeInv, Todos
<1>6. QED
  BY <1>3, <1>4, <1>5 DEF TypeInv

-----------------------------------------------------------------------------

LEMMA NextTypes ==
  ASSUME TypeInv, [Next]_vars
  PROVE  TypeInv'
<1>1. CASE UNCHANGED vars
  BY <1>1 DEF vars, db, process, TypeInv, Tables, World, Places, Memory, Todos, OnContainer,
     Looking, HasOne
<1>2. CASE Next
  BY <1>2, ExecTypes, RunStepTypes, BackgroundTypes, EngineOnlyTypes, RetireTypes, HoldTypes,
     EnsureRunningTypes, EnsureStartsTypes, EnsureDoneTypes, LivenessReadsTypes, LivenessJudgesTypes, SyncReadsTypes,
     SyncTypes, OperatorTypes, SweepTypes, SettingsChangeTypes, CrashTypes, RestartTypes DEF Next
<1>3. QED
  BY <1>1, <1>2

(* Every table, map and list of statements keeps its shape: every state    *)
(* written to a row is one the schema has, nothing is asked of a container *)
(* that was never picked, and the passes never judge a container they did  *)
(* not read.                                                               *)
THEOREM TypeCorrect == Spec => []TypeOK
<1>1. TypeInv /\ [Next]_vars => TypeInv'
  BY NextTypes
<1>2. QED
  BY <1>1, TypesInit, TypesFollow, PTL DEF Spec

-----------------------------------------------------------------------------
(* Every claim has a holder                                                *)

(* A run that has claimed its container and not yet released it.           *)
Holder(r) ==
    \/ pc[Run(r)] \in {"claimed", "working", "running"}
    \/ pc[Run(r)] = "ending" /\ todo[Run(r)] = <<St("release", at[r])>>

(* Stronger than ClaimHasHolder: what an ending run has ahead of it is     *)
(* its release and nothing else.                                           *)
Holders ==
    up => \A c \in Containers : row[c] = "busy" => \E r \in Runs : at[r] = c /\ Holder(r)

LEMMA HoldersFollow == Holders => ClaimHasHolder
<1>1. ASSUME NEW x PROVE <<x>> # <<>>
  OBVIOUS
<1>2. QED
  BY <1>1 DEF Holders, Holder, ClaimHasHolder

(* Holders goes on holding while no claim appears and no holder leaves.    *)
LEMMA HoldersStay ==
  ASSUME Holders, up' => up, \A c \in Containers : row'[c] = "busy" => row[c] = "busy",
         \A r \in Runs : Holder(r) => Holder(r)' /\ at'[r] = at[r]
  PROVE  Holders'
BY DEF Holders

LEMMA HolderStays ==
  ASSUME NEW r \in Runs, Holder(r), pc'[Run(r)] = pc[Run(r)], todo'[Run(r)] = todo[Run(r)],
         at'[r] = at[r]
  PROVE  Holder(r)'
BY DEF Holder

LEMMA GotoLeaves ==
  ASSUME TypeInv, NEW a \in Actors, NEW p, NEW q, Goto(a, p, q)
  PROVE  /\ \A b \in Actors : b # a => pc'[b] = pc[b] /\ todo'[b] = todo[b]
         /\ pc'[a] = p /\ todo'[a] = q
BY DEF Goto, TypeInv, Places, Todos

(* A step of a run that is no holder, which claims nothing.                *)
LEMMA ClimberKeepsHolders ==
  ASSUME TypeInv, Holders, NEW r \in Runs, ~Holder(r),
         \A s \in Runs : s # r =>
            at'[s] = at[s] /\ pc'[Run(s)] = pc[Run(s)] /\ todo'[Run(s)] = todo[Run(s)],
         UNCHANGED <<row, up>>
  PROVE  Holders'
BY HoldersStay, HolderStays

(* A step in which no run moves.                                           *)
LEMMA OthersKeepHolders ==
  ASSUME TypeInv, Holders, up' => up,
         \A c \in Containers : row'[c] = "busy" => row[c] = "busy",
         \A s \in Runs : at'[s] = at[s] /\ pc'[Run(s)] = pc[Run(s)] /\ todo'[Run(s)] = todo[Run(s)]
  PROVE  Holders'
BY HoldersStay, HolderStays

(* A run moves, and nobody else.                                           *)
LEMMA RunMoves ==
  ASSUME TypeInv, NEW r \in Runs, RunStep(r)
  PROVE  /\ \A s \in Runs : s # r =>
               at'[s] = at[s] /\ pc'[Run(s)] = pc[Run(s)] /\ todo'[Run(s)] = todo[Run(s)]
         /\ up' = up
<1>1. up' = up
  BY DEF RunStep, EnterLadder, Decide, Inspect, Resume, RequestCreate, CreateAnswers, CreateFails,
     StartCreated, SetUp, ProvisionFails, Claim, LeaveLadder, Attribute, End, Ended
<1>2. at \in [Runs -> Containers \union {None}]
  BY DEF TypeInv, Places
<1>3. ASSUME NEW s \in Runs, s # r PROVE at'[s] = at[s]
  BY <1>2, <1>3 DEF RunStep, EnterLadder, Decide, Inspect, Resume, RequestCreate, CreateAnswers,
     CreateFails, StartCreated, SetUp, ProvisionFails, Claim, LeaveLadder, Attribute, End, Ended
<1>4. ASSUME NEW s \in Runs, s # r
      PROVE  pc'[Run(s)] = pc[Run(s)] /\ todo'[Run(s)] = todo[Run(s)]
  <2>1. Run(s) # Run(r) /\ Run(s) \in Actors /\ Run(r) \in Actors /\ \A c : Run(s) # Cleanup(c)
    BY <1>4, ActorsDiffer
  <2>2. CASE CreateFails(r)
    BY <2>1, <2>2 DEF CreateFails, TypeInv, Places, Todos
  <2>3. CASE \E p, q : Goto(Run(r), p, q)
    BY <2>1, <2>3, GotoLeaves
  <2>4. CreateFails(r) \/ \E p, q : Goto(Run(r), p, q)
    BY DEF RunStep, EnterLadder, Decide, Inspect, Resume, RequestCreate, CreateAnswers,
       StartCreated, SetUp, ProvisionFails, Claim, LeaveLadder, Attribute, End, Ended
  <2>5. QED
    BY <2>2, <2>3, <2>4
<1>5. QED
  BY <1>1, <1>3, <1>4

LEMMA RunKeepsHolders ==
  ASSUME TypeInv, Holders, NEW r \in Runs, RunStep(r)
  PROVE  Holders'
<1>1. /\ \A s \in Runs : s # r =>
             at'[s] = at[s] /\ pc'[Run(s)] = pc[Run(s)] /\ todo'[Run(s)] = todo[Run(s)]
      /\ up' = up
  BY RunMoves
<1>2. Run(r) \in Actors
  BY ActorsDiffer
<1>3. ASSUME NEW p, pc[Run(r)] = p,
             p \in {"new", "again", "decide", "inspect", "resume", "request", "creating", "start",
                    "setup", "claim", "retry", "failed"},
             row' = row
      PROVE  Holders'
  <2>1. ~Holder(r)
    BY <1>3 DEF Holder
  <2>2. QED
    BY <1>1, <1>3, <2>1, ClimberKeepsHolders
<1>4. CASE \/ EnterLadder(r) \/ Decide(r) \/ Inspect(r) \/ Resume(r) \/ RequestCreate(r)
           \/ CreateAnswers(r) \/ CreateFails(r) \/ StartCreated(r) \/ SetUp(r)
           \/ ProvisionFails(r)
  BY <1>3, <1>4 DEF EnterLadder, Decide, Inspect, Resume, RequestCreate, CreateAnswers, CreateFails,
     StartCreated, SetUp, ProvisionFails, InRun, db
<1>5. CASE Claim(r)
  <2>1. pc[Run(r)] = "claim" /\ at' = at
    BY <1>5 DEF Claim, InRun
  <2>2. CASE row' = row
    BY <1>3, <2>1, <2>2
  <2>3. CASE row' = [row EXCEPT ![at[r]] = "busy"] /\ Goto(Run(r), "claimed", Uptime("busy", at[r]))
    <3>1. pc'[Run(r)] = "claimed"
      BY <1>2, <2>3, GotoLeaves
    <3>2. ASSUME NEW c \in Containers, row'[c] = "busy", up
          PROVE  \E s \in Runs : at'[s] = c /\ Holder(s)'
      <4>1. CASE c = at[r]
        BY <2>1, <3>1, <4>1 DEF Holder
      <4>2. CASE c # at[r]
        <5>1. row[c] = "busy"
          BY <2>3, <3>2, <4>2 DEF TypeInv, Tables
        <5>2. PICK s \in Runs : at[s] = c /\ Holder(s)
          BY <3>2, <5>1 DEF Holders
        <5>3. QED
          BY <1>1, <2>1, <4>2, <5>2, HolderStays
      <4>3. QED
        BY <4>1, <4>2
    <3>3. QED
      BY <1>1, <3>2 DEF Holders
  <2>4. QED
    BY <1>5, <2>2, <2>3 DEF Claim
<1>6. CASE LeaveLadder(r)
  <2>1. row' = row
    BY <1>6 DEF LeaveLadder, db
  <2>2. CASE InRun(r, "claimed") /\ Goto(Run(r), "working", <<>>) /\ at' = at
    <3>1. pc'[Run(r)] = "working"
      BY <1>2, <2>2, GotoLeaves
    <3>2. Holder(r)'
      BY <3>1 DEF Holder
    <3>3. ASSUME NEW s \in Runs, Holder(s) PROVE Holder(s)' /\ at'[s] = at[s]
      BY <1>1, <2>2, <3>2, <3>3, HolderStays
    <3>4. QED
      BY <1>1, <2>1, <3>3, HoldersStay
  <2>3. CASE pc[Run(r)] \in {"retry", "failed"}
    BY <1>3, <2>1, <2>3
  <2>4. QED
    BY <1>6, <2>2, <2>3 DEF LeaveLadder, InRun
<1>7. CASE Attribute(r) \/ End(r)
  <2>1. row' = row /\ at' = at
    BY <1>7 DEF Attribute, End
  <2>2. Holder(r)'
    <3>1. CASE Attribute(r)
      <4>1. pc'[Run(r)] = "running"
        BY <1>2, <3>1, GotoLeaves DEF Attribute
      <4>2. QED
        BY <4>1 DEF Holder
    <3>2. CASE End(r)
      <4>1. pc'[Run(r)] = "ending" /\ todo'[Run(r)] = Teardown(r)
        BY <1>2, <3>2, GotoLeaves DEF End
      <4>2. QED
        BY <2>1, <4>1 DEF Holder, Teardown
    <3>3. QED
      BY <1>7, <3>1, <3>2
  <2>3. ASSUME NEW s \in Runs, Holder(s) PROVE Holder(s)' /\ at'[s] = at[s]
    BY <1>1, <2>1, <2>2, <2>3, HolderStays
  <2>4. QED
    BY <1>1, <2>1, <2>3, HoldersStay
<1>8. CASE Ended(r)
  <2>1. ~Holder(r) /\ row' = row
    BY <1>8 DEF Ended, InRun, Free, Holder, db
  <2>2. QED
    BY <1>1, <2>1, ClimberKeepsHolders
<1>9. QED
  BY <1>4, <1>5, <1>6, <1>7, <1>8 DEF RunStep

(* No statement makes a claim; and only a release ends its actor's.        *)
LEMMA ExecClaims ==
  ASSUME TypeInv, NEW a \in Actors, Exec(a)
  PROVE  /\ \A c \in Containers : row'[c] = "busy" => row[c] = "busy"
         /\ Head(todo[a]).op = "release" => row'[Head(todo[a]).c] # "busy"
<1> DEFINE s == Head(todo[a])
<1>1. /\ s.c \in Containers /\ (s.op \in Writes => s.to \in Written)
      /\ row \in [Containers -> RowState]
  BY HeadTyped DEF TypeInv, Tables
<1>2. \/ row' = row /\ s.op # "release"
      \/ s.op = "set" /\ SetState(a, s.c, s.to)
      \/ s.op = "upsert" /\ UpsertMember(a, s.c, s.to)
      \/ s.op = "delete" /\ ForgetMember(a, s.c)
      \/ s.op = "release" /\ ReleaseMember(a, s.c)
      \/ s.op = "unclaim" /\ Unclaim(a, s.c)
      \/ s.op = "markRunning" /\ MarkRunning(a, s.c)
      \/ s.op = "adoptUnpooled" /\ AdoptMember(a, s.c, s.to)
      \/ s.op = "beginStop" /\ BeginStop(a, s.c)
  BY DEF Exec, OpenUptime, CloseUptime, OpenProvisional, AdoptProvisional, DiscardProvisional,
     WriteProject, EndRuns, BeginRemoval, CancelLiveRuns, db
<1> HIDE DEF s
<1>3. CASE s.op = "set" \/ s.op = "upsert" \/ s.op = "adoptUnpooled"
  <2>1. s.to # "busy"
    BY <1>1, <1>3 DEF Writes, Written
  <2>2. QED
    BY <1>1, <1>2, <1>3, <2>1 DEF SetState, UpsertMember, AdoptMember, s
<1>4. CASE s.op \notin {"set", "upsert", "adoptUnpooled"}
  BY <1>1, <1>2, <1>4 DEF ForgetMember, ReleaseMember, Unclaim, MarkRunning, BeginStop, s
<1>5. QED
  BY <1>3, <1>4

LEMMA ExecKeepsHolders ==
  ASSUME TypeInv, Holders, NEW a \in Actors, Exec(a)
  PROVE  Holders'
<1> DEFINE x == Head(todo[a])
<1>1. /\ \A c \in Containers : row'[c] = "busy" => row[c] = "busy"
      /\ x.op = "release" => row'[x.c] # "busy"
  BY ExecClaims
<1>2. x.c \in Containers /\ todo[a] # <<>> /\ up
  BY HeadTyped
<1>3. /\ \A r \in Runs : pc'[Run(r)] = pc[Run(r)]
  BY <1>2, ExecEffect, ExecMoves
<1>4. at' = at /\ up' = up
  BY DEF Exec
<1>5. \A b \in Actors : b # a => todo'[b] = todo[b]
  BY ExecEffect DEF Done, TypeInv, Todos
<1> HIDE DEF x
<1>6. CASE \E r \in Runs : a = Run(r) /\ pc[a] = "ending" /\ todo[a] = <<St("release", at[r])>>
  <2>1. PICK r \in Runs : a = Run(r) /\ pc[a] = "ending" /\ todo[a] = <<St("release", at[r])>>
    BY <1>6
  <2>2. x = St("release", at[r])
    BY <2>1 DEF x
  <2>3. x.op = "release" /\ x.c = at[r]
    BY <2>2 DEF St
  <2>4. ASSUME NEW c \in Containers, row'[c] = "busy"
        PROVE  \E s \in Runs : at'[s] = c /\ Holder(s)'
    <3>1. c # at[r] /\ row[c] = "busy"
      BY <1>1, <2>3, <2>4
    <3>2. PICK s \in Runs : at[s] = c /\ Holder(s)
      BY <1>2, <3>1 DEF Holders
    <3>3. s # r /\ Run(s) # a /\ Run(s) \in Actors
      BY <2>1, <3>1, <3>2, ActorsDiffer
    <3>4. QED
      BY <1>3, <1>4, <1>5, <3>2, <3>3, HolderStays
  <2>5. QED
    BY <2>4 DEF Holders
<1>7. CASE ~\E r \in Runs : a = Run(r) /\ pc[a] = "ending" /\ todo[a] = <<St("release", at[r])>>
  <2>1. ASSUME NEW r \in Runs, Holder(r) PROVE Holder(r)' /\ at'[r] = at[r]
    <3>1. CASE pc[Run(r)] \in {"claimed", "working", "running"}
      BY <1>3, <1>4, <3>1 DEF Holder
    <3>2. CASE pc[Run(r)] = "ending" /\ todo[Run(r)] = <<St("release", at[r])>>
      <4>1. Run(r) # a /\ Run(r) \in Actors
        BY <1>7, <3>2, ActorsDiffer
      <4>2. QED
        BY <1>3, <1>4, <1>5, <2>1, <4>1, HolderStays
    <3>3. QED
      BY <2>1, <3>1, <3>2 DEF Holder
  <2>2. QED
    BY <1>1, <1>4, <2>1, HoldersStay
<1>8. QED
  BY <1>6, <1>7

(* The steps that are neither a run's, nor a statement, nor the end or the *)
(* beginning of the process.                                               *)
PassStep ==
    \/ \E c \in Containers :
          \/ Background(c) \/ EngineCreates(c) \/ EngineStops(c) \/ Outside(c)
          \/ LivenessReads(c) \/ OperatorRemoves(c)
    \/ Retire \/ RetireDone \/ HoldRunning \/ EnsureRunning \/ EnsureStarts \/ EnsureFails \/ EnsureDone \/ ReleaseHold
    \/ LivenessJudges \/ LivenessFailsWedged
    \/ SyncReads \/ SyncJudges \/ SyncMeasures \/ SyncWithinLimit \/ SyncStopsOverLimit
    \/ Sweep \/ SettingsChange

LEMMA NextKinds ==
  ASSUME Next
  PROVE  \/ \E a \in Actors : Exec(a)
         \/ \E r \in Runs : RunStep(r)
         \/ PassStep \/ Crash \/ Restart
BY DEF Next, PassStep

(* They write no row and move no run.                                      *)
LEMMA PassesLeaveRuns ==
  ASSUME TypeInv, PassStep
  PROVE  /\ \A s \in Runs : pc'[Run(s)] = pc[Run(s)] /\ todo'[Run(s)] = todo[Run(s)]
         /\ UNCHANGED <<row, at, up>>
<1>1. UNCHANGED <<row, at, up>>
  BY DEF PassStep, Background, StopAnswers, StopFails, RemovalAnswers, RemovalFails, CallSettles,
     LookUpCreate, RemoveCreated, EngineCreates, EngineStops, Outside, LivenessReads,
     OperatorRemoves, Retire, RetireDone, HoldRunning, EnsureRunning, EnsureStarts,
     EnsureFails, EnsureDone, ReleaseHold,
     LivenessJudges, LivenessFailsWedged, SyncReads, SyncJudges, SyncMeasures, SyncWithinLimit,
     SyncStopsOverLimit, Sweep, SettingsChange, db, process
<1>2. ASSUME NEW a \in Actors, \A s \in Runs : a # Run(s), NEW p, NEW q, Goto(a, p, q)
      PROVE  \A s \in Runs : pc'[Run(s)] = pc[Run(s)] /\ todo'[Run(s)] = todo[Run(s)]
  BY <1>2, ActorsDiffer, GotoLeaves
<1>3. ASSUME NEW c \in Containers
      PROVE  /\ Background(c) => \E p, q : Goto(Stop(c), p, q) \/ Goto(Removal(c), p, q) \/ Goto(Cleanup(c), p, q)
             /\ LivenessReads(c) => \E p, q : Goto(Watch, p, q)
             /\ OperatorRemoves(c) => \E p, q : Goto(Operator, p, q)
             /\ EngineCreates(c) \/ EngineStops(c) \/ Outside(c) => UNCHANGED <<pc, todo>>
  BY DEF Background, StopAnswers, StopFails, RemovalAnswers, RemovalFails, CallSettles,
     LookUpCreate, RemoveCreated, EngineCreates, EngineStops, Outside, LivenessReads,
     OperatorRemoves, process
<1>4. /\ Retire \/ RetireDone => \E p, q : Goto(Retirer, p, q)
      /\ EnsureRunning \/ EnsureStarts \/ EnsureFails \/ EnsureDone => \E p, q : Goto(Worker, p, q)
      /\ LivenessJudges \/ LivenessFailsWedged => \E p, q : Goto(Watch, p, q)
      /\ SyncReads \/ SyncJudges \/ SyncMeasures \/ SyncWithinLimit \/ SyncStopsOverLimit =>
            \E p, q : Goto(Watch, p, q)
      /\ Sweep => UNCHANGED <<pc, todo>> \/ \E p, q : Goto(Reaper, p, q)
      /\ HoldRunning \/ ReleaseHold \/ SettingsChange => UNCHANGED <<pc, todo>>
  BY DEF Retire, RetireDone, HoldRunning, EnsureRunning, EnsureStarts,
     EnsureFails, EnsureDone, ReleaseHold,
     LivenessJudges, LivenessFailsWedged, SyncReads, SyncJudges, SyncMeasures, SyncWithinLimit,
     SyncStopsOverLimit, Sweep, SettingsChange, process
<1>5. /\ Passes \subseteq Actors /\ \A p \in Passes, s \in Runs : p # Run(s)
      /\ \A c \in Containers : /\ {Stop(c), Removal(c), Cleanup(c)} \subseteq Actors
                               /\ \A s \in Runs : Stop(c) # Run(s) /\ Removal(c) # Run(s) /\ Cleanup(c) # Run(s)
  BY ActorsDiffer
<1>6. {Retirer, Worker, Watch, Operator, Reaper} \subseteq Passes
  BY PassesDiffer
<1>7. \A s \in Runs : pc'[Run(s)] = pc[Run(s)] /\ todo'[Run(s)] = todo[Run(s)]
  BY <1>2, <1>3, <1>4, <1>5, <1>6 DEF PassStep
<1>8. QED
  BY <1>1, <1>7

LEMMA NextKeepsHolders ==
  ASSUME TypeInv, Holders, [Next]_vars
  PROVE  Holders'
<1>1. CASE UNCHANGED vars
  BY <1>1 DEF vars, db, process, Holders, Holder
<1>2. CASE PassStep
  BY <1>2, PassesLeaveRuns, OthersKeepHolders
<1>3. CASE Crash
  BY <1>3 DEF Crash, Holders
<1>4. CASE Restart
  <2>1. ASSUME NEW c \in Containers PROVE row'[c] # "busy"
    BY <1>4 DEF Restart, AfterRestart
  <2>2. QED
    BY <2>1 DEF Holders
<1>5. QED
  BY <1>1, <1>2, <1>3, <1>4, NextKinds, ExecKeepsHolders, RunKeepsHolders

(* No claim is leaked, whatever fails, whoever interferes and however      *)
(* often the process dies: a member reads busy only while a run of this    *)
(* process has its release still ahead of it (claimPoolMember in the       *)
(* ladder, releasePoolMember in the finally of a run,                      *)
(* reclaimBusyPoolMembers at startup; no other statement writes busy).     *)
THEOREM ClaimsReturned == Spec => []ClaimHasHolder
<1>1. Init => Holders
  <2>1. ASSUME Init, NEW c \in Containers PROVE row[c] # "busy"
    BY <2>1 DEF Init
  <2>2. QED
    BY <2>1 DEF Holders
<1>2. TypeInv /\ Holders /\ [Next]_vars => TypeInv' /\ Holders'
  BY NextTypes, NextKeepsHolders
<1>3. QED
  BY <1>1, <1>2, TypesInit, HoldersFollow, PTL DEF Spec
=============================================================================
