----------------------- MODULE ContainerPoolDiscipline -----------------------
(* Who may write what.  Every writer of the pool's tables decides first    *)
(* and writes later, statement by statement, so an invariant about a row   *)
(* has to survive whatever anyone has pending.  Discipline says which      *)
(* statements each actor may have pending and who needs the lifecycle lock *)
(* for which; Used, that whatever a statement or a run refers to has been  *)
(* asked of the engine.  Both are shown inductive here, and both are the   *)
(* ground ContainerPoolExclusion stands on.                                *)
EXTENDS ContainerPoolProofs

-----------------------------------------------------------------------------
(* Statements that are pending                                             *)

(* What a list of statements holds.                                        *)
Of(q) == {q[i] : i \in DOMAIN q}

LEMMA OfNone == Of(<<>>) = {}
BY DEF Of

LEMMA OfOne == ASSUME NEW x PROVE Of(<<x>>) = {x}
BY DEF Of

LEMMA OfTwo == ASSUME NEW x, NEW y PROVE Of(<<x, y>>) = {x, y}
<1>1. DOMAIN <<x, y>> = {1, 2}
  OBVIOUS
<1>2. QED
  BY <1>1 DEF Of

LEMMA OfThree == ASSUME NEW x, NEW y, NEW z PROVE Of(<<x, y, z>>) = {x, y, z}
<1>1. DOMAIN <<x, y, z>> = {1, 2, 3}
  OBVIOUS
<1>2. QED
  BY <1>1 DEF Of

LEMMA OfFour == ASSUME NEW x, NEW y, NEW z, NEW w PROVE Of(<<x, y, z, w>>) = {x, y, z, w}
<1>1. DOMAIN <<x, y, z, w>> = {1, 2, 3, 4}
  OBVIOUS
<1>2. QED
  BY <1>1 DEF Of

LEMMA OfTail ==
  ASSUME NEW S, NEW q \in Seq(S), q # <<>>
  PROVE  Of(Tail(q)) \subseteq Of(q) /\ Head(q) \in Of(q) /\ Of(q) \subseteq S
<1>1. ASSUME NEW i \in 1..Len(Tail(q)) PROVE Tail(q)[i] \in Of(q)
  <2>1. i + 1 \in DOMAIN q /\ Tail(q)[i] = q[i + 1]
    OBVIOUS
  <2>2. QED
    BY <2>1 DEF Of
<1>2. Of(Tail(q)) \subseteq Of(q)
  BY <1>1 DEF Of
<1>3. Head(q) = q[1] /\ 1 \in DOMAIN q
  OBVIOUS
<1>4. QED
  BY <1>2, <1>3 DEF Of

LEMMA OfJoined ==
  ASSUME NEW S, NEW p \in Seq(S), NEW q \in Seq(S), NEW x \in Of(p \o q)
  PROVE  x \in Of(p) \/ x \in Of(q)
<1>1. PICK i \in 1..Len(p \o q) : x = (p \o q)[i]
  BY DEF Of
<1>2. CASE i \in 1..Len(p)
  BY <1>1, <1>2 DEF Of
<1>3. CASE i \notin 1..Len(p)
  <2>1. i - Len(p) \in DOMAIN q /\ (p \o q)[i] = q[i - Len(p)]
    BY <1>3
  <2>2. QED
    BY <1>1, <2>1 DEF Of
<1>4. QED
  BY <1>2, <1>3

Climb == {"inspect", "resume", "request", "creating", "start", "setup", "claim"}
Inside == Climb \union {"decide", "claimed", "retry", "failed"}

(* The ladder, the retirer and the worker exclude each other; nobody       *)
(* outside the ladder or before its decision has a container in hand.      *)
Seats ==
    /\ \A r \in Runs : pc[Run(r)] \in Inside => lock = Run(r)
    /\ todo[Retirer] # <<>> => lock = Retirer
    /\ todo[Worker] # <<>> => lock = Worker
    /\ \A r \in Runs : pc[Run(r)] \in {"new", "again", "decide"} => at[r] = None
Down ==
    ~up => /\ lock = None /\ serving = {} /\ holds = {}
           /\ \A a \in Actors : todo[a] = <<>>
           /\ \A r \in Runs : pc[Run(r)] = "new"
           /\ \A c \in Containers :
                 pc[Stop(c)] = "off" /\ pc[Removal(c)] = "off" /\ pc[Cleanup(c)] = "off"

(* A run, about its own container, at one of these steps.                  *)
ByRun(a, c, P) == \E s \in Runs : a = Run(s) /\ c = at[s] /\ pc[a] \in P

Deciding(a) == \E s \in Runs : a = Run(s) /\ pc[a] = "decide"

(* Retirement: the pass, or a run that replaces an outdated member.        *)
Retires(a) == a = Retirer \/ \E s \in Runs : a = Run(s) /\ pc[a] = "retry" /\ at[s] = None

(* Which statements an actor may have ahead of it.                         *)
Mine(a, x) ==
    /\ x.op = "set" => \/ ByRun(a, x.c, {"claim", "retry", "failed"})
                       \/ a = Stop(x.c) /\ x.to = "suspended"
                       \/ a = Watch /\ x.to \in {"suspended", "error"}
    /\ x.op \in {"upsert", "name"} => ByRun(a, x.c, {"start", "setup", "claim"})
    /\ x.op = "adoptUnpooled" => Deciding(a)
    /\ x.op = "release" => ByRun(a, x.c, {"ending"}) /\ todo[a] = <<x>>
    /\ x.op = "markRunning" => a = Watch \/ (a = Worker /\ x.c = seen["worker"].c)
    /\ x.op = "beginStop" => a = Retirer
    /\ x.op = "beginRemoval" =>
          /\ Retires(a)
          /\ todo[a] = Destroy(x.c) \/ todo[a] = <<St("unname", x.c), x>> \/ todo[a] = <<x>>
    /\ x.op = "delete" => \/ a \in {Operator, Watch}
                          \/ ByRun(a, x.c, {"retry"})
                          \/ Retires(a) /\ todo[a] = Destroy(x.c)
    /\ x.op = "close" =>
          \/ a \in {Stop(x.c), Removal(x.c), Cleanup(x.c), Reaper, Operator, Watch}
          \/ ByRun(a, x.c, {"start", "setup", "claim", "retry", "failed"})
          \/ Deciding(a)
    /\ x.op = "unname" => Retires(a) \/ a = Operator
    /\ x.op \in {"unclaim", "showGone"} => a = Watch
Own == \A a \in Actors : \A x \in Of(todo[a]) : Mine(a, x)

Discipline == Seats /\ Down /\ Own

(* What an actor has ahead of it is judged by its own state.               *)
LEMMA MineStays ==
  ASSUME NEW b \in Actors, NEW x, Mine(b, x), pc'[b] = pc[b], todo'[b] = todo[b],
         \A s \in Runs : b = Run(s) => at'[s] = at[s],
         b = Worker => seen'["worker"] = seen["worker"]
  PROVE  Mine(b, x)'
<1>1. \A c, P : ByRun(b, c, P) => ByRun(b, c, P)'
  BY DEF ByRun
<1>2. (Deciding(b) => Deciding(b)') /\ (Retires(b) => Retires(b)')
  BY DEF Deciding, Retires
<1>3. QED
  BY <1>1, <1>2 DEF Mine

(* One actor moves: what it then has to execute must be its own.           *)
LEMMA OwnGoto ==
  ASSUME TypeInv, Own, NEW a \in Actors, \A x \in Of(todo'[a]) : Mine(a, x)',
         \A b \in Actors : b # a => todo'[b] = todo[b] /\ (pc'[b] = pc[b] \/ Of(todo[b]) = {}),
         \A s \in Runs : Run(s) # a => at'[s] = at[s],
         a # Worker => seen'["worker"] = seen["worker"]
  PROVE  Own'
<1> SUFFICES ASSUME NEW b \in Actors, NEW x \in Of(todo'[b]) PROVE Mine(b, x)'
  BY DEF Own
<1>1. CASE b = a
  BY <1>1
<1>2. CASE b # a
  <2>1. todo'[b] = todo[b] /\ pc'[b] = pc[b]
    BY <1>2
  <2>2. Mine(b, x)
    BY <2>1 DEF Own
  <2>3. \A s \in Runs : b = Run(s) => at'[s] = at[s]
    BY <1>2
  <2>4. b = Worker => seen'["worker"] = seen["worker"]
    BY <1>2
  <2>5. QED
    BY <2>1, <2>2, <2>3, <2>4, MineStays
<1>3. QED
  BY <1>1, <1>2

(* Statements anybody may have ahead.                                      *)
Harmless == {"open", "adopt", "discard", "provisional", "show", "showIfNamed", "endRuns", "cancel"}

LEMMA HarmlessMine ==
  ASSUME NEW a \in Actors, NEW x, x.op \in Harmless
  PROVE  Mine(a, x)'
BY DEF Mine, Harmless

(* A run's statement about its own container.                              *)
LEMMA RunMine ==
  ASSUME NEW r \in Runs, NEW x, x.c = at'[r],
         \/ x.op = "set" /\ pc'[Run(r)] \in {"claim", "retry", "failed"}
         \/ x.op \in {"upsert", "name"} /\ pc'[Run(r)] \in {"start", "setup", "claim"}
         \/ x.op = "delete" /\ pc'[Run(r)] = "retry"
         \/ x.op = "close" /\ pc'[Run(r)] \in {"start", "setup", "claim", "retry", "failed"}
         \/ x.op = "release" /\ pc'[Run(r)] = "ending" /\ todo'[Run(r)] = <<x>>
  PROVE  Mine(Run(r), x)'
<1>1. ASSUME NEW P, pc'[Run(r)] \in P PROVE ByRun(Run(r), x.c, P)'
  BY <1>1 DEF ByRun
<1>2. CASE x.op = "set" /\ pc'[Run(r)] \in {"claim", "retry", "failed"}
  BY <1>1, <1>2 DEF Mine
<1>3. CASE x.op \in {"upsert", "name"} /\ pc'[Run(r)] \in {"start", "setup", "claim"}
  BY <1>1, <1>3 DEF Mine
<1>4. CASE x.op = "delete" /\ pc'[Run(r)] = "retry"
  BY <1>1, <1>4 DEF Mine
<1>5. CASE x.op = "close" /\ pc'[Run(r)] \in {"start", "setup", "claim", "retry", "failed"}
  BY <1>1, <1>5 DEF Mine
<1>6. CASE x.op = "release" /\ pc'[Run(r)] = "ending" /\ todo'[Run(r)] = <<x>>
  BY <1>1, <1>6 DEF Mine
<1>7. QED
  BY <1>2, <1>3, <1>4, <1>5, <1>6

LEMMA StIs ==
  \A op, c : St(op, c).op = op /\ St(op, c).c = c
BY DEF St

LEMMA StToIs ==
  \A op, c, to : StTo(op, c, to).op = op /\ StTo(op, c, to).c = c /\ StTo(op, c, to).to = to
BY DEF StTo

(* The steps of a run give it only statements that are its own.            *)
LEMMA RunWrites ==
  ASSUME TypeInv, Seats, NEW r \in Runs, RunStep(r)
  PROVE  \A x \in Of(todo'[Run(r)]) : Mine(Run(r), x)'
<1>1. Run(r) \in Actors
  BY ActorsDiffer
<1> DEFINE c == at[r]
           Fine == \A x \in Of(todo'[Run(r)]) : Mine(Run(r), x)'
<1>2. ASSUME NEW p, Goto(Run(r), p, <<>>) PROVE Fine
  <2>1. todo'[Run(r)] = <<>>
    BY <1>1, <1>2, GotoLeaves
  <2>2. QED
    BY <2>1, OfNone
<1>3. CASE EnterLadder(r)
  <2>1. pc'[Run(r)] = "decide" /\ todo'[Run(r)] = IF pc[Run(r)] = "new" THEN AdoptUnpooled ELSE <<>>
    BY <1>1, <1>3, GotoLeaves DEF EnterLadder
  <2>2. SUFFICES ASSUME NEW x \in Of(todo'[Run(r)]) PROVE Mine(Run(r), x)'
    OBVIOUS
  <2>3. x.op = "adoptUnpooled"
    BY <2>1, <2>2, OfNone, OfOne, StIs, StToIs DEF AdoptUnpooled
  <2>4. Deciding(Run(r))'
    BY <2>1 DEF Deciding
  <2>5. QED
    BY <2>3, <2>4 DEF Mine
<1>4. CASE Decide(r)
  <2>1. at[r] = None
    BY <1>4 DEF Decide, InRun, Seats
  <2>2. ASSUME NEW d \in Containers,
               Goto(Run(r), "request", <<StTo("show", d, "creating"), St("provisional", d)>>)
        PROVE  Fine
    <3>1. todo'[Run(r)] = <<StTo("show", d, "creating"), St("provisional", d)>>
      BY <1>1, <2>2, GotoLeaves
    <3>2. \A x \in Of(todo'[Run(r)]) : x.op \in Harmless
      BY <3>1, OfTwo, StIs, StToIs DEF Harmless
    <3>3. QED
      BY <1>1, <3>2, HarmlessMine
  <2>3. ASSUME NEW d \in outdated, Goto(Run(r), "retry", Destroy(d)), at' = at
        PROVE  Fine
    <3>1. todo'[Run(r)] = Destroy(d) /\ pc'[Run(r)] = "retry"
      BY <1>1, <2>3, GotoLeaves
    <3>2. Retires(Run(r))'
      BY <2>1, <2>3, <3>1 DEF Retires
    <3>3. ASSUME NEW x \in Of(todo'[Run(r)]) PROVE Mine(Run(r), x)'
      <4>1. x = St("delete", d) \/ x = St("unname", d) \/ x = St("beginRemoval", d)
        BY <3>1, <3>3, OfThree DEF Destroy
      <4>2. x.op \in {"delete", "unname", "beginRemoval"} /\ x.c = d
        BY <4>1, StIs, StToIs
      <4>3. QED
        BY <3>1, <3>2, <4>2 DEF Mine
    <3>4. QED
      BY <3>3
  <2>4. QED
    BY <1>2, <1>4, <2>2, <2>3 DEF Decide
<1>5. CASE Inspect(r)
  <2>1. at' = at
    BY <1>5 DEF Inspect
  <2>2. ASSUME Goto(Run(r), "retry", <<St("close", c), St("delete", c)>>) PROVE Fine
    <3>1. todo'[Run(r)] = <<St("close", c), St("delete", c)>> /\ pc'[Run(r)] = "retry"
      BY <1>1, <2>2, GotoLeaves
    <3>2. \A x \in Of(todo'[Run(r)]) : x.op \in {"close", "delete"} /\ x.c = c
      BY <3>1, OfTwo, StIs, StToIs
    <3>3. QED
      BY <2>1, <3>1, <3>2, RunMine
  <2>3. ASSUME Goto(Run(r), "retry", <<StTo("set", c, "suspended")>>) PROVE Fine
    <3>1. todo'[Run(r)] = <<StTo("set", c, "suspended")>> /\ pc'[Run(r)] = "retry"
      BY <1>1, <2>3, GotoLeaves
    <3>2. \A x \in Of(todo'[Run(r)]) : x.op = "set" /\ x.c = c
      BY <3>1, OfOne, StIs, StToIs
    <3>3. QED
      BY <2>1, <3>1, <3>2, RunMine
  <2>4. QED
    BY <1>2, <1>5, <2>2, <2>3 DEF Inspect
<1>6. CASE Resume(r)
  <2>1. at' = at
    BY <1>6 DEF Resume
  <2>2. ASSUME Goto(Run(r), "retry", <<St("close", c), St("delete", c)>>) PROVE Fine
    <3>1. todo'[Run(r)] = <<St("close", c), St("delete", c)>> /\ pc'[Run(r)] = "retry"
      BY <1>1, <2>2, GotoLeaves
    <3>2. \A x \in Of(todo'[Run(r)]) : x.op \in {"close", "delete"} /\ x.c = c
      BY <3>1, OfTwo, StIs, StToIs
    <3>3. QED
      BY <2>1, <3>1, <3>2, RunMine
  <2>3. ASSUME Goto(Run(r), "claim", <<StTo("set", c, "idle"), St("name", c)>>) PROVE Fine
    <3>1. todo'[Run(r)] = <<StTo("set", c, "idle"), St("name", c)>> /\ pc'[Run(r)] = "claim"
      BY <1>1, <2>3, GotoLeaves
    <3>2. \A x \in Of(todo'[Run(r)]) : x.op \in {"set", "name"} /\ x.c = c
      BY <3>1, OfTwo, StIs, StToIs
    <3>3. QED
      BY <2>1, <3>1, <3>2, RunMine
  <2>4. QED
    BY <1>2, <1>6, <2>2, <2>3 DEF Resume
<1>7. CASE CreateAnswers(r)
  <2>1. at' = at
    BY <1>7 DEF CreateAnswers
  <2>2. todo'[Run(r)] = <<St("adopt", c), StTo("upsert", c, "creating")>> /\ pc'[Run(r)] = "start"
    BY <1>1, <1>7, GotoLeaves DEF CreateAnswers
  <2>3. \A x \in Of(todo'[Run(r)]) : x.op \in {"adopt", "upsert"} /\ x.c = c
    BY <2>2, OfTwo, StIs, StToIs
  <2>4. \A x \in Of(todo'[Run(r)]) : x.op = "adopt" => Mine(Run(r), x)'
    BY <1>1, HarmlessMine DEF Harmless
  <2>5. QED
    BY <2>1, <2>2, <2>3, <2>4, RunMine
<1>8. CASE CreateFails(r)
  <2>1. todo'[Run(r)] = <<StTo("show", c, "error")>>
    BY <1>1, <1>8 DEF CreateFails, TypeInv, Todos
  <2>2. \A x \in Of(todo'[Run(r)]) : x.op \in Harmless
    BY <2>1, OfOne, StIs, StToIs DEF Harmless
  <2>3. QED
    BY <1>1, <2>2, HarmlessMine
<1>9. CASE StartCreated(r)
  <2>1. at' = at
    BY <1>9 DEF StartCreated
  <2>2. todo'[Run(r)] = <<St("name", c)>> /\ pc'[Run(r)] = "setup"
    BY <1>1, <1>9, GotoLeaves DEF StartCreated
  <2>3. \A x \in Of(todo'[Run(r)]) : x.op = "name" /\ x.c = c
    BY <2>2, OfOne, StIs, StToIs
  <2>4. QED
    BY <2>1, <2>2, <2>3, RunMine
<1>10. CASE SetUp(r)
  <2>1. at' = at
    BY <1>10 DEF SetUp
  <2>2. todo'[Run(r)] = <<StTo("upsert", c, "idle")>> /\ pc'[Run(r)] = "claim"
    BY <1>1, <1>10, GotoLeaves DEF SetUp
  <2>3. \A x \in Of(todo'[Run(r)]) : x.op = "upsert" /\ x.c = c
    BY <2>2, OfOne, StIs, StToIs
  <2>4. QED
    BY <2>1, <2>2, <2>3, RunMine
<1>11. CASE ProvisionFails(r)
  <2>1. at' = at
    BY <1>11 DEF ProvisionFails
  <2>2. /\ todo'[Run(r)] = <<StTo("set", c, "error"), StTo("show", c, "error")>>
        /\ pc'[Run(r)] = "failed"
    BY <1>1, <1>11, GotoLeaves DEF ProvisionFails
  <2>3. \A x \in Of(todo'[Run(r)]) : x.op \in {"set", "show"} /\ x.c = c
    BY <2>2, OfTwo, StIs, StToIs
  <2>4. \A x \in Of(todo'[Run(r)]) : x.op = "show" => Mine(Run(r), x)'
    BY <1>1, HarmlessMine DEF Harmless
  <2>5. QED
    BY <2>1, <2>2, <2>3, <2>4, RunMine
<1>12. CASE Claim(r)
  <2>1. ASSUME Goto(Run(r), "claimed", Uptime("busy", c)) PROVE Fine
    <3>1. todo'[Run(r)] = <<St("open", c)>>
      BY <1>1, <2>1, GotoLeaves DEF Uptime
    <3>2. \A x \in Of(todo'[Run(r)]) : x.op \in Harmless
      BY <3>1, OfOne, StIs, StToIs DEF Harmless
    <3>3. QED
      BY <1>1, <3>2, HarmlessMine
  <2>2. QED
    BY <1>2, <1>12, <2>1 DEF Claim
<1>13. CASE End(r)
  <2>1. at' = at
    BY <1>13 DEF End
  <2>2. todo'[Run(r)] = <<St("release", c)>> /\ pc'[Run(r)] = "ending"
    BY <1>1, <1>13, GotoLeaves DEF End, Teardown
  <2>3. \A x \in Of(todo'[Run(r)]) : x = St("release", c) /\ x.op = "release" /\ x.c = c
    BY <2>2, OfOne, StIs, StToIs
  <2>4. QED
    BY <2>1, <2>2, <2>3, RunMine
<1>14. CASE RequestCreate(r) \/ LeaveLadder(r) \/ Attribute(r) \/ Ended(r)
  BY <1>2, <1>14 DEF RequestCreate, LeaveLadder, Attribute, Ended
<1>15. QED
  BY <1>3, <1>4, <1>5, <1>6, <1>7, <1>8, <1>9, <1>10, <1>11, <1>12, <1>13, <1>14 DEF RunStep

(* How a run moves, for the lock and for what it has in hand.              *)
LEMMA RunSeat ==
  ASSUME TypeInv, Seats, NEW r \in Runs, RunStep(r)
  PROVE  /\ up
         /\ \/ lock' = lock
            \/ lock = None /\ lock' = Run(r)
            \/ lock = Run(r) /\ lock' = None /\ pc'[Run(r)] \notin Inside
         /\ pc'[Run(r)] \in Inside => lock' = Run(r)
         /\ pc'[Run(r)] \in {"new", "again", "decide"} => at'[r] = None
<1>1. Run(r) \in Actors /\ at \in [Runs -> Containers \union {None}] /\ pc \in [Actors -> RunPc \union PassPc]
  BY ActorsDiffer DEF TypeInv, Places
<1>2. up
  BY DEF RunStep, EnterLadder, Decide, Inspect, Resume, RequestCreate, CreateAnswers, CreateFails,
     StartCreated, SetUp, ProvisionFails, Claim, LeaveLadder, Attribute, End, Ended, InRun, Free
<1>3. CASE EnterLadder(r)
  <2>1. pc'[Run(r)] = "decide" /\ at[r] = None
    BY <1>1, <1>3, GotoLeaves DEF EnterLadder, InRun, Seats
  <2>2. QED
    BY <1>2, <1>3, <2>1 DEF EnterLadder, LockFree, Inside
<1>4. CASE LeaveLadder(r)
  <2>1. pc'[Run(r)] \in {"working", "again", "new"}
    BY <1>1, <1>4, GotoLeaves DEF LeaveLadder
  <2>2. pc'[Run(r)] # "working" => at'[r] = None
    BY <1>1, <1>4, GotoLeaves DEF LeaveLadder
  <2>3. QED
    BY <1>2, <1>4, <2>1, <2>2 DEF LeaveLadder, Inside, Climb
<1>5. CASE Attribute(r) \/ End(r) \/ Ended(r)
  <2>1. pc'[Run(r)] \in {"running", "ending", "new"} /\ lock' = lock
    BY <1>1, <1>5, GotoLeaves DEF Attribute, End, Ended
  <2>2. pc'[Run(r)] = "new" => at'[r] = None
    BY <1>1, <1>5, GotoLeaves DEF Attribute, End, Ended
  <2>3. QED
    BY <1>2, <2>1, <2>2 DEF Inside, Climb
<1>6. CASE \/ Decide(r) \/ Inspect(r) \/ Resume(r) \/ RequestCreate(r) \/ CreateAnswers(r)
           \/ CreateFails(r) \/ StartCreated(r) \/ SetUp(r) \/ ProvisionFails(r) \/ Claim(r)
  <2>1. lock' = lock /\ lock = Run(r)
    BY <1>6 DEF Decide, Inspect, Resume, RequestCreate, CreateAnswers, CreateFails, StartCreated,
       SetUp, ProvisionFails, Claim, InRun, Seats, Inside, Climb
  <2>2. pc'[Run(r)] \notin {"new", "again", "decide"}
    <3>1. CASE CreateFails(r)
      <4>1. pc'[Run(r)] = "failed"
        BY <1>1, <3>1, ActorsDiffer DEF CreateFails
      <4>2. QED
        BY <4>1
    <3>2. CASE Decide(r) \/ Inspect(r) \/ Resume(r)
      <4>1. \E p \in {"inspect", "resume", "request", "retry", "failed", "claim"} :
               \E q : Goto(Run(r), p, q)
        BY <3>2 DEF Decide, Inspect, Resume
      <4>2. QED
        BY <1>1, <4>1, GotoLeaves
    <3>3. CASE \/ RequestCreate(r) \/ CreateAnswers(r) \/ StartCreated(r) \/ SetUp(r)
               \/ ProvisionFails(r) \/ Claim(r)
      BY <1>1, <3>3, GotoLeaves DEF RequestCreate, CreateAnswers, StartCreated, SetUp,
         ProvisionFails, Claim
    <3>4. QED
      BY <1>6, <3>1, <3>2, <3>3
  <2>3. QED
    BY <1>2, <2>1, <2>2
<1>7. QED
  BY <1>3, <1>4, <1>5, <1>6 DEF RunStep

(* A run's step leaves everybody else's list alone.                        *)
LEMMA RunLists ==
  ASSUME TypeInv, NEW r \in Runs, RunStep(r)
  PROVE  /\ \A b \in Actors : b # Run(r) => todo'[b] = todo[b]
         /\ \A b \in Actors : b # Run(r) /\ (\A c \in Containers : b # Cleanup(c)) => pc'[b] = pc[b]
         /\ UNCHANGED <<tracked, holds, seen, up>>
         /\ \/ \A b \in Actors : b # Run(r) => pc'[b] = pc[b]
            \/ CreateFails(r)
<1>1. Run(r) \in Actors
  BY ActorsDiffer
<1>2. UNCHANGED <<tracked, holds, seen, up>>
  BY DEF RunStep, EnterLadder, Decide, Inspect, Resume, RequestCreate, CreateAnswers, CreateFails,
     StartCreated, SetUp, ProvisionFails, Claim, LeaveLadder, Attribute, End, Ended
<1>3. CASE CreateFails(r)
  <2>1. at[r] \in Containers
    BY <1>3, InRunFacts DEF CreateFails, Near
  <2>2. QED
    BY <1>1, <1>2, <1>3, <2>1 DEF CreateFails, TypeInv, Places, Todos
<1>4. CASE \E p, q : Goto(Run(r), p, q)
  BY <1>1, <1>2, <1>4, GotoLeaves
<1>5. CreateFails(r) \/ \E p, q : Goto(Run(r), p, q)
  BY DEF RunStep, EnterLadder, Decide, Inspect, Resume, RequestCreate, CreateAnswers,
     StartCreated, SetUp, ProvisionFails, Claim, LeaveLadder, Attribute, End, Ended
<1>6. QED
  BY <1>3, <1>4, <1>5

LEMMA RunDiscipline ==
  ASSUME TypeInv, Discipline, NEW r \in Runs, RunStep(r)
  PROVE  Discipline'
<1>1. Seats /\ Own
  BY DEF Discipline
<1>2. /\ up
      /\ \/ lock' = lock
         \/ lock = None /\ lock' = Run(r)
         \/ lock = Run(r) /\ lock' = None /\ pc'[Run(r)] \notin Inside
      /\ pc'[Run(r)] \in Inside => lock' = Run(r)
      /\ pc'[Run(r)] \in {"new", "again", "decide"} => at'[r] = None
  BY <1>1, RunSeat
<1>3. /\ \A b \in Actors : b # Run(r) => todo'[b] = todo[b]
      /\ \A b \in Actors : b # Run(r) /\ (\A c \in Containers : b # Cleanup(c)) => pc'[b] = pc[b]
      /\ UNCHANGED <<tracked, holds, seen, up>>
  BY RunLists
<1>4. \A s \in Runs : s # r => at'[s] = at[s] /\ pc'[Run(s)] = pc[Run(s)]
  BY RunMoves
<1>5. /\ Retirer \in Actors /\ Worker \in Actors /\ Watch \in Actors /\ Operator \in Actors
      /\ Run(r) \notin {Retirer, Worker, Watch, Operator, None} /\ None \notin {Retirer, Worker}
      /\ \A c \in Containers : Watch # Cleanup(c)
      /\ \A s \in Runs : s # r => Run(s) # Run(r)
      /\ \A s \in Runs : Run(s) # None
  BY ActorsDiffer, PassesDiffer, NobodyAssumption
<1>6. Seats'
  <2>1. ASSUME NEW s \in Runs, pc'[Run(s)] \in Inside PROVE lock' = Run(s)
    <3>1. CASE s = r
      BY <1>2, <2>1, <3>1
    <3>2. CASE s # r
      <4>1. lock = Run(s)
        BY <1>1, <1>4, <2>1, <3>2 DEF Seats
      <4>2. QED
        BY <1>2, <1>5, <3>2, <4>1
    <3>3. QED
      BY <3>1, <3>2
  <2>2. /\ todo'[Retirer] # <<>> => lock' = Retirer
        /\ todo'[Worker] # <<>> => lock' = Worker
    BY <1>1, <1>2, <1>3, <1>5 DEF Seats
  <2>3. \A s \in Runs : pc'[Run(s)] \in {"new", "again", "decide"} => at'[s] = None
    BY <1>1, <1>2, <1>4 DEF Seats
  <2>4. QED
    BY <2>1, <2>2, <2>3 DEF Seats
<1>7. Own'
  <2>1. \A x \in Of(todo'[Run(r)]) : Mine(Run(r), x)'
    BY <1>1, RunWrites
  <2>2. ASSUME NEW b \in Actors, NEW x \in Of(todo'[b]) PROVE Mine(b, x)'
    <3>1. CASE b = Run(r)
      BY <2>1, <2>2, <3>1
    <3>2. CASE b # Run(r)
      <4>1. todo'[b] = todo[b] /\ Mine(b, x)
        BY <1>1, <1>3, <2>2, <3>2 DEF Own
      <4>2. CASE \A c \in Containers : b # Cleanup(c)
        <5>1. pc'[b] = pc[b]
          BY <1>3, <3>2, <4>2
        <5>2. \A s \in Runs : b = Run(s) => at'[s] = at[s]
          BY <1>4, <3>2
        <5>3. QED
          BY <1>3, <4>1, <5>1, <5>2, MineStays
      <4>3. CASE \E c \in Containers : b = Cleanup(c)
        <5>1. /\ b # Worker /\ b # Retirer /\ \A s \in Runs : b # Run(s)
              /\ b \notin {Operator, Watch} /\ \A c \in Containers : b # Stop(c)
          BY <4>3, ActorsDiffer, PassesDiffer
        <5>2. ~ByRun(b, x.c, {"claim", "retry", "failed"}) /\ ~Deciding(b) /\ ~Retires(b)
              /\ \A P : ~ByRun(b, x.c, P)
          BY <5>1 DEF ByRun, Deciding, Retires
        <5>3. QED
          BY <4>1, <5>1, <5>2 DEF Mine
      <4>4. QED
        BY <4>2, <4>3
    <3>3. QED
      BY <3>1, <3>2
  <2>3. QED
    BY <2>2 DEF Own
<1>8. Down'
  BY <1>2, <1>3 DEF Down
<1>9. QED
  BY <1>6, <1>7, <1>8 DEF Discipline

(* What a statement adds in front of the ones that are left.               *)
LEMMA ExecList ==
  ASSUME TypeInv, NEW a \in Actors, Exec(a)
  PROVE  LET x == Head(todo[a]) IN
         \/ Done(a, <<>>)
         \/ Done(a, <<St("open", x.c)>>) /\ x.op \in Writes \union {"release", "markRunning"}
         \/ Done(a, <<St("close", x.c)>>) /\ x.op \in Writes \union {"unclaim"}
<1> DEFINE x == Head(todo[a])
<1>1. \/ Done(a, <<>>)
      \/ x.op \in Writes /\ Done(a, Uptime(x.to, x.c))
      \/ x.op \in {"release", "markRunning"} /\ Done(a, Uptime("idle", x.c))
      \/ x.op = "unclaim" /\ Done(a, Uptime("suspended", x.c))
  BY DEF Exec, OpenUptime, CloseUptime, OpenProvisional, AdoptProvisional, DiscardProvisional,
     SetState, UpsertMember, ForgetMember, ReleaseMember, Unclaim, MarkRunning, AdoptMember,
     BeginStop, WriteProject, EndRuns, BeginRemoval, CancelLiveRuns, Writes
<1>2. Uptime("idle", x.c) = <<St("open", x.c)>> /\ Uptime("suspended", x.c) = <<St("close", x.c)>>
  BY DEF Uptime
<1>3. Uptime(x.to, x.c) \in {<<>>, <<St("open", x.c)>>, <<St("close", x.c)>>}
  BY DEF Uptime
<1>4. QED
  BY <1>1, <1>2, <1>3

LEMMA ExecOwn ==
  ASSUME TypeInv, Discipline, NEW a \in Actors, Exec(a)
  PROVE  Own'
<1> DEFINE x == Head(todo[a])
           q == Tail(todo[a])
<1>1. /\ todo[a] # <<>> /\ todo[a] \in Seq(Typed) /\ x.c \in Containers /\ q \in Seq(Typed)
  BY HeadTyped
<1>2. x \in Of(todo[a]) /\ Of(q) \subseteq Of(todo[a])
  BY <1>1, OfTail
<1>3. Mine(a, x) /\ \A y \in Of(q) : Mine(a, y)
  BY <1>2 DEF Discipline, Own
<1>4. /\ \/ Done(a, <<>>)
         \/ Done(a, <<St("open", x.c)>>) /\ x.op \in Writes \union {"release", "markRunning"}
         \/ Done(a, <<St("close", x.c)>>) /\ x.op \in Writes \union {"unclaim"}
  BY ExecList
<1>5. /\ \A r \in Runs : pc'[Run(r)] = pc[Run(r)]
      /\ \A p \in Passes : pc'[p] = pc[p]
      /\ \A b \in Actors : b # Stop(x.c) /\ b # Removal(x.c) => pc'[b] = pc[b]
  BY <1>1, ExecEffect, ExecMoves
<1>6. at' = at /\ seen' = seen
  BY DEF Exec
<1>7. /\ \A b \in Actors : b # a => todo'[b] = todo[b]
      /\ \/ todo'[a] = <<>> \o q
         \/ /\ todo'[a] = <<St("open", x.c)>> \o q
            /\ x.op \in Writes \union {"release", "markRunning"}
         \/ todo'[a] = <<St("close", x.c)>> \o q /\ x.op \in Writes \union {"unclaim"}
  BY <1>4 DEF Done, TypeInv, Todos
<1>8. /\ \A b, c, P : ByRun(b, c, P) => ByRun(b, c, P)'
      /\ \A b : (Deciding(b) => Deciding(b)') /\ (Retires(b) => Retires(b)')
  BY <1>5, <1>6 DEF ByRun, Deciding, Retires
<1>9. ASSUME NEW b \in Actors, b # a, NEW y \in Of(todo'[b]) PROVE Mine(b, y)'
  <2>1. todo'[b] = todo[b] /\ Mine(b, y)
    BY <1>7, <1>9 DEF Discipline, Own
  <2>2. QED
    BY <1>6, <1>8, <2>1 DEF Mine
<1>10. ASSUME NEW y \in Of(q) PROVE Mine(a, y)'
  <2>1. Mine(a, y)
    BY <1>3
  <2>2. y.op # "release"
    <3>1. SUFFICES ASSUME y.op = "release" PROVE FALSE
      OBVIOUS
    <3>2. todo[a] = <<y>>
      BY <2>1, <3>1 DEF Mine
    <3>3. q = <<>>
      BY <3>2
    <3>4. QED
      BY <3>3, OfNone
  <2>3. ASSUME y.op \in {"beginRemoval", "delete"}, todo[a] = Destroy(y.c)
        PROVE  y.op = "beginRemoval" /\ todo'[a] = <<St("unname", y.c), y>>
    <3>1. x = St("delete", y.c) /\ q = <<St("unname", y.c), St("beginRemoval", y.c)>>
      BY <2>3 DEF Destroy
    <3>2. x.op = "delete"
      BY <3>1, StIs
    <3>3. todo'[a] = q
      BY <1>1, <1>7, <3>2 DEF Writes
    <3>4. y = St("unname", y.c) \/ y = St("beginRemoval", y.c)
      <4>1. Of(q) = {St("unname", y.c), St("beginRemoval", y.c)}
        BY ONLY <3>1, OfTwo
      <4>2. QED
        BY ONLY <1>10, <4>1
    <3>5. y.op # "delete" /\ y.op # "unname"
      BY <2>3, <3>4, StIs
    <3>6. y = St("beginRemoval", y.c)
      BY <3>4, <3>5, StIs
    <3>7. QED
      BY <2>3, <3>1, <3>3, <3>5, <3>6
  <2>4. ASSUME y.op = "beginRemoval", todo[a] = <<St("unname", y.c), y>>
        PROVE  todo'[a] = <<y>>
    <3>1. x = St("unname", y.c) /\ q = <<y>>
      BY <2>4
    <3>2. x.op = "unname"
      BY <3>1, StIs
    <3>3. todo'[a] = q
      BY <1>1, <1>7, <3>2 DEF Writes
    <3>4. QED
      BY <3>1, <3>3
  <2>5. ASSUME y.op = "beginRemoval", todo[a] = <<y>> PROVE FALSE
    <3>1. q = <<>>
      BY <2>5
    <3>2. QED
      BY <1>10, <3>1, OfNone
  <2>6. y.op = "beginRemoval" =>
           /\ Retires(a)'
           /\ todo'[a] = <<St("unname", y.c), y>> \/ todo'[a] = <<y>>
    BY <1>8, <2>1, <2>3, <2>4, <2>5 DEF Mine
  <2>7. y.op = "delete" => a \in {Operator, Watch} \/ ByRun(a, y.c, {"retry"})'
    BY <1>8, <2>1, <2>3 DEF Mine
  <2>8. QED
    BY <1>6, <1>8, <2>1, <2>2, <2>6, <2>7 DEF Mine
<1>11. ASSUME NEW y, y = St("close", x.c), x.op \in Writes \union {"unclaim"} PROVE Mine(a, y)'
  <2>1. y.op = "close" /\ y.c = x.c
    BY <1>11, StIs
  <2>2. \/ a \in {Stop(x.c), Watch}
        \/ ByRun(a, x.c, {"claim", "retry", "failed"})
        \/ ByRun(a, x.c, {"start", "setup", "claim"})
        \/ Deciding(a)
    BY <1>3, <1>11 DEF Mine, Writes
  <2>3. \/ a \in {Stop(x.c), Watch}
        \/ ByRun(a, x.c, {"start", "setup", "claim", "retry", "failed"})
        \/ Deciding(a)
    BY <2>2 DEF ByRun
  <2>4. QED
    BY <1>8, <2>1, <2>3 DEF Mine
<1>12. ASSUME NEW y, y = St("open", x.c) PROVE Mine(a, y)'
  <2>1. y.op = "open"
    BY <1>12, StIs
  <2>2. QED
    BY <2>1, HarmlessMine DEF Harmless
<1>13. ASSUME NEW y \in Of(todo'[a]) PROVE Mine(a, y)'
  <2>1. St("open", x.c) \in Typed /\ St("close", x.c) \in Typed
    BY <1>1, StatementsTyped, OpsPlain
  <2>2. /\ <<St("open", x.c)>> \in Seq(Typed) /\ <<St("close", x.c)>> \in Seq(Typed)
    BY <2>1
  <2>3. \/ y \in Of(q) \/ y = St("open", x.c)
        \/ y = St("close", x.c) /\ x.op \in Writes \union {"unclaim"}
    <3>1. CASE todo'[a] = <<>> \o q
      <4>1. y \in Of(<<>>) \/ y \in Of(q)
        BY <1>1, <1>13, <3>1, NoStatements, OfJoined
      <4>2. QED
        BY <4>1, OfNone
    <3>2. CASE todo'[a] = <<St("open", x.c)>> \o q
      <4>1. y \in Of(<<St("open", x.c)>>) \/ y \in Of(q)
        BY <1>1, <1>13, <2>2, <3>2, OfJoined
      <4>2. QED
        BY <4>1, OfOne
    <3>3. CASE todo'[a] = <<St("close", x.c)>> \o q /\ x.op \in Writes \union {"unclaim"}
      <4>1. y \in Of(<<St("close", x.c)>>) \/ y \in Of(q)
        BY <1>1, <1>13, <2>2, <3>3, OfJoined
      <4>2. QED
        BY <3>3, <4>1, OfOne
    <3>4. QED
      BY <1>7, <3>1, <3>2, <3>3
  <2>4. QED
    BY <1>10, <1>11, <1>12, <2>3
<1>14. QED
  BY <1>9, <1>13 DEF Own

LEMMA ExecDiscipline ==
  ASSUME TypeInv, Discipline, NEW a \in Actors, Exec(a)
  PROVE  Discipline'
<1>1. up /\ todo[a] # <<>> /\ Head(todo[a]).c \in Containers
  BY HeadTyped
<1>2. \A r \in Runs : pc'[Run(r)] = pc[Run(r)]
  BY <1>1, ExecEffect, ExecMoves
<1>3. UNCHANGED <<lock, at, up>>
  BY DEF Exec
<1>4. \A b \in Actors : b # a => todo'[b] = todo[b]
  BY ExecEffect DEF Done, TypeInv, Todos
<1>5. \A b \in Actors : todo'[b] # <<>> => todo[b] # <<>>
  BY <1>1, <1>4
<1>6. {Retirer, Worker} \subseteq Actors
  BY ActorsDiffer
<1>7. Seats'
  BY <1>2, <1>3, <1>5, <1>6 DEF Discipline, Seats
<1>8. Down'
  BY <1>1, <1>3 DEF Down
<1>9. QED
  BY <1>7, <1>8, ExecOwn DEF Discipline

(* A step of an actor that is no run.                                      *)
LEMMA PassSeat ==
  ASSUME TypeInv, Discipline, NEW a \in Actors, \A r \in Runs : a # Run(r),
         NEW p, NEW q, Goto(a, p, q), \A x \in Of(q) : Mine(a, x)', at' = at, up, up' = up,
         a # Worker => seen'["worker"] = seen["worker"],
         \/ lock' = lock /\ (a \in {Retirer, Worker} => lock = a)
         \/ lock = None /\ lock' = a /\ a \in {Retirer, Worker}
         \/ lock = a /\ lock' = None /\ q = <<>> /\ a \in {Retirer, Worker}
  PROVE  Discipline'
<1>1. /\ \A b \in Actors : b # a => pc'[b] = pc[b] /\ todo'[b] = todo[b]
      /\ todo'[a] = q
  BY GotoLeaves
<1>2. /\ {Retirer, Worker} \subseteq Actors
      /\ None \notin {Retirer, Worker} /\ Retirer # Worker
      /\ \A r \in Runs : Run(r) \in Actors /\ Run(r) # None /\ Run(r) \notin {Retirer, Worker}
  BY ActorsDiffer, PassesDiffer, NobodyAssumption
<1>3. Seats
  BY DEF Discipline
<1>4. Seats'
  <2>1. ASSUME NEW r \in Runs
        PROVE  /\ pc'[Run(r)] \in Inside => lock' = Run(r)
               /\ pc'[Run(r)] \in {"new", "again", "decide"} => at'[r] = None
    BY <1>1, <1>2, <1>3 DEF Seats
  <2>2. todo'[Retirer] # <<>> => lock' = Retirer
    BY <1>1, <1>2, <1>3 DEF Seats
  <2>3. todo'[Worker] # <<>> => lock' = Worker
    BY <1>1, <1>2, <1>3 DEF Seats
  <2>4. QED
    BY <2>1, <2>2, <2>3 DEF Seats
<1>5. Own'
  <2>1. \A x \in Of(todo'[a]) : Mine(a, x)'
    BY <1>1
  <2>2. Own
    BY DEF Discipline
  <2>3. QED
    BY <1>1, <2>1, <2>2, OwnGoto
<1>6. Down'
  BY DEF Down
<1>7. QED
  BY <1>4, <1>5, <1>6 DEF Discipline

(* Nobody moves.                                                           *)
LEMMA StillDiscipline ==
  ASSUME TypeInv, Discipline, UNCHANGED <<pc, todo, at, lock, up, seen>>,
         ~up => serving' \subseteq serving /\ holds' = holds
  PROVE  Discipline'
<1>1. Seats' /\ Down'
  BY DEF Discipline, Seats, Down
<1>2. Own'
  BY DEF Discipline, Own, Mine, ByRun, Deciding, Retires
<1>3. QED
  BY <1>1, <1>2 DEF Discipline

LEMMA BackgroundDiscipline ==
  ASSUME TypeInv, Discipline, NEW c \in Containers, Background(c)
  PROVE  Discipline'
<1>1. up /\ UNCHANGED <<at, lock, up, seen>>
  BY DEF Background, StopAnswers, StopFails, RemovalAnswers, RemovalFails, CallSettles,
     LookUpCreate, RemoveCreated, Free
<1>2. /\ {Stop(c), Removal(c), Cleanup(c)} \subseteq Actors
      /\ \A r \in Runs : Run(r) \notin {Stop(c), Removal(c), Cleanup(c)}
      /\ {Watch, Worker, Retirer, Operator} \intersect {Stop(c), Removal(c), Cleanup(c)} = {}
  BY ActorsDiffer, PassesDiffer
<1>3. ASSUME NEW a \in {Stop(c), Removal(c), Cleanup(c)}, NEW p, NEW q, Goto(a, p, q),
             \A x \in Of(q) : Mine(a, x)'
      PROVE  Discipline'
  <2>1. a \in Actors /\ (\A r \in Runs : a # Run(r)) /\ a \notin {Retirer, Worker}
    BY <1>2, <1>3
  <2>2. QED
    BY <1>1, <1>3, <2>1, PassSeat
<1>4. ASSUME NEW a \in {Stop(c), Removal(c), Cleanup(c)}, NEW x, x.c = c,
             \/ x.op \in Harmless \/ x.op = "close"
             \/ x.op = "set" /\ a = Stop(c) /\ x.to = "suspended"
      PROVE  Mine(a, x)'
  BY <1>4 DEF Mine, Harmless
<1>5. CASE StopAnswers(c) \/ StopFails(c)
  <2>1. PICK q : /\ Goto(Stop(c), "settling", q)
                 /\ \/ q = <<StTo("showIfNamed", c, "stopped"), StTo("set", c, "suspended"), St("endRuns", c)>>
                    \/ q = <<StTo("showIfNamed", c, "error"), St("endRuns", c)>>
    BY <1>5 DEF StopAnswers, StopFails
  <2>2. ASSUME NEW x \in Of(q)
        PROVE  x.c = c /\ (x.op \in {"showIfNamed", "endRuns"} \/ (x.op = "set" /\ x.to = "suspended"))
    <3>1. \/ x = StTo("showIfNamed", c, "stopped") \/ x = StTo("set", c, "suspended")
          \/ x = St("endRuns", c) \/ x = StTo("showIfNamed", c, "error")
      BY <2>1, <2>2, OfTwo, OfThree
    <3>2. QED
      BY <3>1, StIs, StToIs
  <2>3. \A x \in Of(q) : Mine(Stop(c), x)'
    BY <1>4, <2>2 DEF Harmless
  <2>4. QED
    BY <1>3, <2>1, <2>3
<1>6. CASE RemovalAnswers(c) \/ RemovalFails(c)
  <2>1. PICK q : Goto(Removal(c), "settling", q) /\ (q = <<St("close", c)>> \/ q = <<>>)
    BY <1>6 DEF RemovalAnswers, RemovalFails
  <2>2. \A x \in Of(q) : x.c = c /\ x.op = "close"
    BY <2>1, OfNone, OfOne, StIs
  <2>3. \A x \in Of(q) : Mine(Removal(c), x)'
    BY <1>4, <2>2
  <2>4. QED
    BY <1>3, <2>1, <2>3
<1>7. CASE CallSettles(c)
  <2>1. \E a \in {Stop(c), Removal(c)} : Goto(a, "off", <<>>)
    BY <1>7 DEF CallSettles
  <2>2. QED
    BY <1>3, <2>1, OfNone
<1>8. CASE LookUpCreate(c) \/ RemoveCreated(c)
  <2>1. PICK q : /\ Goto(Cleanup(c), "removing", q) \/ Goto(Cleanup(c), "off", q)
                 /\ q \in {<<St("adopt", c)>>, <<St("discard", c)>>, <<St("close", c)>>, <<>>}
    BY <1>8 DEF LookUpCreate, RemoveCreated
  <2>2. ASSUME NEW x \in Of(q) PROVE x.c = c /\ x.op \in {"adopt", "discard", "close"}
    <3>1. x \in {St("adopt", c), St("discard", c), St("close", c)}
      BY <2>1, <2>2, OfNone, OfOne
    <3>2. QED
      BY <3>1, StIs
  <2>3. \A x \in Of(q) : Mine(Cleanup(c), x)'
    BY <1>4, <2>2 DEF Harmless
  <2>4. QED
    BY <1>3, <2>1, <2>3
<1>9. QED
  BY <1>5, <1>6, <1>7, <1>8 DEF Background

LEMMA EngineMonotone ==
  ASSUME TypeInv, NEW c \in Containers, NEW state \in EngineState \ {"unused"},
         EngineMoves(c, state)
  PROVE  /\ serving' \subseteq serving
         /\ \A d \in Containers : engine[d] # "unused" => engine'[d] # "unused"
         /\ \A d \in Containers : d # c => engine'[d] = engine[d]
         /\ engine'[c] = state
BY DEF EngineMoves, TypeInv, World

(* The cron's pass, step by step.                                          *)
WatchStep ==
    \/ LivenessJudges \/ LivenessFailsWedged \/ SyncReads \/ SyncJudges \/ SyncMeasures
    \/ SyncWithinLimit \/ SyncStopsOverLimit
    \/ \E c \in Containers : LivenessReads(c)

(* What it may have ahead of it.                                           *)
Watched(x) ==
    \/ x.op \in {"open", "close", "adopt", "discard", "delete", "markRunning", "unclaim", "show",
                "showGone", "endRuns", "cancel"}
    \/ x.op = "set" /\ x.to \in {"suspended", "error"}

LEMMA WatchMine ==
  ASSUME NEW x, Watched(x)
  PROVE  Mine(Watch, x)'
BY DEF Watched, Mine

LEMMA TransitionWatched ==
  ASSUME NEW c
  PROVE  \A x \in Of(Transition(c)) : Watched(x)
<1>1. Of(Transition(c)) = {St("cancel", c), St("endRuns", c), St("unclaim", c)}
  BY OfThree DEF Transition
<1>2. QED
  BY <1>1, StIs DEF Watched

LEMMA VerdictWatched ==
  ASSUME TypeInv, NEW c \in Containers, NEW state
  PROVE  \A x \in Of(Verdict(c, state)) : Watched(x)
<1> DEFINE rest == <<StTo("set", c, "suspended")>>
<1>1. /\ Of(<<>>) = {} /\ Of(<<St("adopt", c)>>) = {St("adopt", c)}
      /\ Of(<<St("discard", c)>>) = {St("discard", c)} /\ Of(<<St("close", c)>>) = {St("close", c)}
      /\ Of(<<St("open", c)>>) = {St("open", c)}
      /\ Of(<<St("markRunning", c)>>) = {St("markRunning", c)}
      /\ Of(<<St("close", c), St("delete", c)>>) = {St("close", c), St("delete", c)}
      /\ Of(rest) = {StTo("set", c, "suspended")}
  BY OfNone, OfOne, OfTwo
<1>2. /\ Watched(St("adopt", c)) /\ Watched(St("discard", c)) /\ Watched(St("close", c))
      /\ Watched(St("open", c)) /\ Watched(St("markRunning", c)) /\ Watched(St("delete", c))
      /\ Watched(StTo("set", c, "suspended"))
  BY StIs, StToIs DEF Watched
<1>3. rest \in Seq(Typed) /\ Transition(c) \in Seq(Typed)
  <2>1. StTo("set", c, "suspended") \in Typed
    BY StatementsTyped, OpsPlain DEF Written
  <2>2. QED
    BY <2>1, TransitionTyped
<1>4. \A x \in Of(rest \o Transition(c)) : Watched(x)
  <2>1. SUFFICES ASSUME NEW x \in Of(rest \o Transition(c)) PROVE Watched(x)
    OBVIOUS
  <2> HIDE DEF rest
  <2>2. x \in Of(rest) \/ x \in Of(Transition(c))
    BY <1>3, <2>1, OfJoined
  <2>3. QED
    BY <1>1, <1>2, <2>2, TransitionWatched
<1>5. \A x \in Of(UnsettledVerdict(c, state)) : Watched(x)
  BY <1>1, <1>2 DEF UnsettledVerdict
<1>6. \A x \in Of(RunningVerdict(c, state)) : Watched(x)
  BY <1>1, <1>2 DEF RunningVerdict
<1>7. \A x \in Of(RestVerdict(c, state)) : Watched(x)
  BY <1>1, <1>2, <1>4, TransitionWatched DEF RestVerdict
<1>8. engine[c] \in EngineState
  BY DEF TypeInv, World
<1>9. QED
  BY <1>1, <1>2, <1>5, <1>6, <1>7, <1>8 DEF Verdict, Exists, EngineState

LEMMA WatchLists ==
  ASSUME TypeInv, WatchStep
  PROVE  /\ up /\ UNCHANGED <<at, lock, up, holds, tracked, row, named>>
         /\ seen'["worker"] = seen["worker"]
         /\ \E p, q : Goto(Watch, p, q) /\ \A x \in Of(q) : Watched(x)
<1> DEFINE c == seen["watch"].c
           state == seen["watch"].state
           ended == IF state = "running" THEN Transition(c) ELSE <<>>
<1>1. up /\ UNCHANGED <<at, lock, up, holds, tracked, row, named>>
  BY DEF WatchStep, LivenessReads, LivenessJudges, LivenessFailsWedged, SyncReads, SyncJudges,
     SyncMeasures, SyncWithinLimit, SyncStopsOverLimit, Free, db
<1>2. seen'["worker"] = seen["worker"]
  BY DEF WatchStep, LivenessReads, LivenessJudges, LivenessFailsWedged, SyncReads, SyncJudges,
     SyncMeasures, SyncWithinLimit, SyncStopsOverLimit, TypeInv, Memory
<1>3. CASE SyncReads \/ SyncWithinLimit \/ \E d \in Containers : LivenessReads(d)
  <2>1. \E p : Goto(Watch, p, <<>>)
    BY <1>3 DEF SyncReads, SyncWithinLimit, LivenessReads
  <2>2. QED
    BY <1>1, <1>2, <2>1, OfNone
<1>4. CASE LivenessJudges \/ LivenessFailsWedged
  <2>1. c \in Containers
    BY <1>4 DEF LivenessJudges, LivenessFailsWedged, TypeInv, Memory, Looking
  <2>2. \A x \in Of(Verdict(c, state)) : Watched(x)
    BY <2>1, VerdictWatched
  <2>3. \A x \in Of(<<StTo("set", c, "error")>>) : Watched(x)
    BY OfOne, StToIs DEF Watched
  <2>4. \/ Goto(Watch, "off", <<>>) \/ Goto(Watch, "off", Verdict(c, state))
        \/ Goto(Watch, "off", <<StTo("set", c, "error")>>)
    BY <1>4 DEF LivenessJudges, LivenessFailsWedged
  <2>5. QED
    BY <1>1, <1>2, <2>2, <2>3, <2>4, OfNone
<1>5. CASE SyncJudges \/ SyncMeasures \/ SyncStopsOverLimit
  <2>1. c \in Containers
    BY <1>5 DEF SyncJudges, SyncMeasures, SyncStopsOverLimit, TypeInv, Memory, Looking
  <2>2. ended \in Seq(Typed) /\ \A x \in Of(ended) : Watched(x)
    BY <2>1, TransitionTyped, NoStatements, TransitionWatched, OfNone
  <2> DEFINE q1 == <<St("showGone", c)>>
             q2 == <<StTo("show", c, "stopped"), StTo("set", c, "suspended")>>
             q3 == <<StTo("show", c, "error"), StTo("set", c, "suspended"), St("endRuns", c)>>
             q4 == <<StTo("show", c, "error"), St("endRuns", c)>>
             q5 == <<StTo("show", c, "stopped")>>
             q6 == <<StTo("show", c, "running")>>
  <2>3. \/ \E p : Goto(Watch, p, <<>>) \/ Goto(Watch, p, q5) \/ Goto(Watch, p, q6)
        \/ \E p : \/ Goto(Watch, p, q1 \o ended) \/ Goto(Watch, p, q2 \o ended)
                  \/ Goto(Watch, p, q3 \o ended) \/ Goto(Watch, p, q4 \o ended)
    BY <1>5 DEF SyncJudges, SyncMeasures, SyncStopsOverLimit
  <2>4. {q1, q2, q3, q4} \subseteq Seq(Typed)
    <3>1. /\ St("showGone", c) \in Typed /\ St("endRuns", c) \in Typed
          /\ StTo("show", c, "stopped") \in Typed /\ StTo("show", c, "error") \in Typed
          /\ StTo("set", c, "suspended") \in Typed
      BY <2>1, StatementsTyped, OpsPlain DEF Written, ShownState
    <3>2. QED
      BY <3>1
  <2>5. \A q \in {q1, q2, q3, q4, q5, q6} : \A x \in Of(q) : Watched(x)
    <3>1. /\ Of(q1) = {St("showGone", c)}
          /\ Of(q2) = {StTo("show", c, "stopped"), StTo("set", c, "suspended")}
          /\ Of(q3) = {StTo("show", c, "error"), StTo("set", c, "suspended"), St("endRuns", c)}
          /\ Of(q4) = {StTo("show", c, "error"), St("endRuns", c)}
          /\ Of(q5) = {StTo("show", c, "stopped")}
          /\ Of(q6) = {StTo("show", c, "running")}
      BY OfOne, OfTwo, OfThree
    <3>2. /\ Watched(St("showGone", c)) /\ Watched(StTo("set", c, "suspended"))
          /\ Watched(St("endRuns", c)) /\ \A to : Watched(StTo("show", c, to))
      BY StIs, StToIs DEF Watched
    <3> HIDE DEF q1, q2, q3, q4, q5, q6
    <3>3. QED
      BY <3>1, <3>2
  <2> HIDE DEF q1, q2, q3, q4, q5, q6, ended
  <2>6. ASSUME NEW q \in {q1, q2, q3, q4}, NEW x \in Of(q \o ended) PROVE Watched(x)
    <3>1. x \in Of(q) \/ x \in Of(ended)
      BY <2>2, <2>4, <2>6, OfJoined
    <3>2. QED
      BY <2>2, <2>5, <3>1
  <2>7. QED
    BY <1>1, <1>2, <2>3, <2>5, <2>6, OfNone
<1>6. QED
  BY <1>3, <1>4, <1>5 DEF WatchStep

LEMMA PassDiscipline ==
  ASSUME TypeInv, Discipline, PassStep
  PROVE  Discipline'
<1>1. /\ {Retirer, Worker, Watch, Operator, Reaper} \subseteq Actors
      /\ \A r \in Runs : Run(r) \notin {Retirer, Worker, Watch, Operator, Reaper}
  BY ActorsDiffer, PassesDiffer
<1>3. ASSUME NEW c \in Containers, EngineCreates(c) \/ EngineStops(c) \/ Outside(c)
      PROVE  Discipline'
  <2>1. {"stopped", "gone"} \subseteq EngineState \ {"unused"}
    BY DEF EngineState
  <2>2. UNCHANGED <<pc, todo, at, lock, up, seen, holds>>
    BY <1>3 DEF EngineCreates, EngineStops, Outside, process
  <2>3. serving' \subseteq serving
    BY <1>3, <2>1, EngineMonotone DEF EngineCreates, EngineStops, Outside
  <2>4. QED
    BY <2>2, <2>3, StillDiscipline
<1>4. CASE HoldRunning \/ ReleaseHold \/ SettingsChange
  <2>1. UNCHANGED <<pc, todo, at, lock, up, seen, serving>> /\ (~up => holds' = holds)
    BY <1>4 DEF HoldRunning, ReleaseHold, SettingsChange, process, Free
  <2>2. QED
    BY <2>1, StillDiscipline
<1>5. ASSUME NEW c \in Containers, OperatorRemoves(c) PROVE Discipline'
  <2>1. /\ up /\ UNCHANGED <<at, lock, up, seen>>
        /\ \E q : /\ Goto(Operator, "off", q)
                  /\ \/ q = <<St("close", c), St("delete", c), St("unname", c), St("endRuns", c)>>
                     \/ q = <<St("delete", c), St("unname", c), St("endRuns", c)>>
    BY <1>5 DEF OperatorRemoves, Free, Mishap
  <2>2. PICK q : /\ Goto(Operator, "off", q)
                 /\ \/ q = <<St("close", c), St("delete", c), St("unname", c), St("endRuns", c)>>
                    \/ q = <<St("delete", c), St("unname", c), St("endRuns", c)>>
    BY <2>1
  <2>3. ASSUME NEW x \in Of(q) PROVE x.op \in {"close", "delete", "unname", "endRuns"}
    <3>1. x \in {St("close", c), St("delete", c), St("unname", c), St("endRuns", c)}
      BY <2>2, <2>3, OfThree, OfFour
    <3>2. QED
      BY <3>1, StIs
  <2>4. \A x \in Of(q) : Mine(Operator, x)'
    BY <2>3 DEF Mine
  <2>5. QED
    BY <1>1, <2>1, <2>2, <2>4, PassesDiffer, PassSeat
<1>6. CASE Retire
  <2>1. /\ up /\ UNCHANGED <<at, up, seen>> /\ lock = None /\ lock' = Retirer
        /\ \E c \in Containers : \/ Goto(Retirer, "on", <<St("beginStop", c)>>)
                                 \/ Goto(Retirer, "on", Destroy(c))
    BY <1>6 DEF Retire, Free, LockFree
  <2>2. ASSUME NEW c \in Containers, Goto(Retirer, "on", <<St("beginStop", c)>>) PROVE Discipline'
    <3>1. \A x \in Of(<<St("beginStop", c)>>) : x.op = "beginStop"
      BY OfOne, StIs
    <3>2. \A x \in Of(<<St("beginStop", c)>>) : Mine(Retirer, x)'
      BY <3>1 DEF Mine
    <3> DEFINE q == <<St("beginStop", c)>>
    <3>3. Goto(Retirer, "on", q) /\ \A x \in Of(q) : Mine(Retirer, x)'
      BY <2>2, <3>2
    <3> HIDE DEF q
    <3>4. QED
      BY <1>1, <2>1, <3>3, PassesDiffer, PassSeat
  <2>3. ASSUME NEW c \in Containers, Goto(Retirer, "on", Destroy(c)) PROVE Discipline'
    <3>1. todo'[Retirer] = Destroy(c)
      BY <1>1, <2>3, GotoLeaves
    <3>2. Retires(Retirer)'
      BY DEF Retires
    <3>3. ASSUME NEW x \in Of(Destroy(c)) PROVE Mine(Retirer, x)'
      <4>1. x \in {St("delete", c), St("unname", c), St("beginRemoval", c)}
        BY <3>3, OfThree DEF Destroy
      <4>2. x.op \in {"delete", "unname", "beginRemoval"} /\ x.c = c
        BY <4>1, StIs
      <4>3. QED
        BY <3>1, <3>2, <4>2 DEF Mine
    <3> DEFINE q == Destroy(c)
    <3>4. Goto(Retirer, "on", q) /\ \A x \in Of(q) : Mine(Retirer, x)'
      BY <2>3, <3>3
    <3> HIDE DEF q
    <3>5. QED
      BY <1>1, <2>1, <3>4, PassesDiffer, PassSeat
  <2>4. QED
    BY <2>1, <2>2, <2>3
<1>7. CASE RetireDone
  <2>1. /\ up /\ UNCHANGED <<at, up, seen>> /\ lock = Retirer /\ lock' = None
        /\ Goto(Retirer, "off", <<>>)
    BY <1>7 DEF RetireDone, Free
  <2>2. QED
    BY <1>1, <2>1, PassesDiffer, PassSeat, OfNone
<1>8. CASE EnsureRunning
  <2>1. /\ up /\ UNCHANGED <<at, up>> /\ lock = None /\ lock' = Worker
        /\ \E q : /\ q \in {<<>>, <<StTo("show", named, "running")>>}
                  /\ Goto(Worker, "on", q) \/ Goto(Worker, "starting", q)
    BY <1>8 DEF EnsureRunning, Free, LockFree
  <2>2. PICK q : /\ q \in {<<>>, <<StTo("show", named, "running")>>}
                 /\ Goto(Worker, "on", q) \/ Goto(Worker, "starting", q)
    BY <2>1
  <2>3. \A x \in Of(q) : x.op = "show"
    BY <2>2, OfNone, OfOne, StToIs
  <2>4. \A x \in Of(q) : Mine(Worker, x)'
    BY <2>3 DEF Mine
  <2>5. QED
    BY <1>1, <2>1, <2>2, <2>4, PassesDiffer, PassSeat
<1>9. CASE EnsureStarts \/ EnsureFails \/ EnsureDone
  <2>1. CASE EnsureStarts
    <3> DEFINE c == seen["worker"].c
               q == <<St("markRunning", c), StTo("show", c, "running")>>
    <3>1. /\ up /\ UNCHANGED <<at, up, lock, seen>> /\ lock = Worker /\ Goto(Worker, "on", q)
      BY <2>1 DEF EnsureStarts, Free
    <3>2. \A x \in Of(q) : x.op = "show" \/ (x.op = "markRunning" /\ x.c = c)
      BY OfTwo, StIs, StToIs
    <3> HIDE DEF q
    <3>3. \A x \in Of(q) : Mine(Worker, x)'
      BY <3>1, <3>2 DEF Mine
    <3>4. QED
      BY <1>1, <3>1, <3>3, PassesDiffer, PassSeat
  <2>2. CASE EnsureFails \/ EnsureDone
    <3>1. /\ up /\ UNCHANGED <<at, up>> /\ lock = Worker /\ lock' = None
          /\ Goto(Worker, "off", <<>>)
      BY <2>2 DEF EnsureFails, EnsureDone, Free
    <3>2. QED
      BY <1>1, <3>1, PassesDiffer, PassSeat, OfNone
  <2>3. QED
    BY <1>9, <2>1, <2>2
<1>10. CASE Sweep
  <2>1. up /\ UNCHANGED <<at, lock, up, seen, holds>>
    BY <1>10 DEF Sweep, Free
  <2>2. CASE UNCHANGED <<pc, todo>>
    BY <2>1, <2>2, StillDiscipline
  <2>3. ASSUME NEW c \in Containers, Goto(Reaper, "off", <<St("adopt", c), St("close", c)>>)
        PROVE  Discipline'
    <3> DEFINE q == <<St("adopt", c), St("close", c)>>
    <3>1. \A x \in Of(q) : x.op \in {"adopt", "close"}
      BY OfTwo, StIs
    <3>2. Goto(Reaper, "off", q)
      BY <2>3
    <3> HIDE DEF q
    <3>3. \A x \in Of(q) : Mine(Reaper, x)'
      BY <3>1 DEF Mine
    <3>4. QED
      BY <1>1, <2>1, <3>2, <3>3, PassesDiffer, PassSeat
  <2>4. QED
    BY <1>10, <2>2, <2>3 DEF Sweep
<1>11. CASE WatchStep
  <2>1. /\ up /\ UNCHANGED <<at, lock, up>> /\ seen'["worker"] = seen["worker"]
        /\ \E m, n : Goto(Watch, m, n) /\ \A x \in Of(n) : Watched(x)
    BY <1>11, WatchLists
  <2>2. PICK p, q : Goto(Watch, p, q) /\ \A x \in Of(q) : Watched(x)
    BY <2>1
  <2>3. \A x \in Of(q) : Mine(Watch, x)'
    BY <2>2, WatchMine
  <2>4. QED
    BY <1>1, <2>1, <2>2, <2>3, PassesDiffer, PassSeat
<1>12. QED
  BY <1>3, <1>4, <1>5, <1>6, <1>7, <1>8, <1>9, <1>10, <1>11, BackgroundDiscipline DEF PassStep, WatchStep

LEMMA QuietStart ==
  ASSUME pc = IdlePc, \A a \in Actors : todo[a] = <<>>, lock = None, serving = {}, holds = {},
         \A r \in Runs : at[r] = None
  PROVE  Discipline
<1>1. /\ \A r \in Runs : pc[Run(r)] = "new"
      /\ \A c \in Containers : pc[Stop(c)] = "off" /\ pc[Removal(c)] = "off" /\ pc[Cleanup(c)] = "off"
  BY IdlePcTyped, ActorsDiffer, PassesDiffer
<1>2. {Retirer, Worker, Watch, Operator} \subseteq Actors /\ "new" \notin Inside
  BY ActorsDiffer DEF Inside, Climb
<1>3. Seats /\ Down
  BY <1>1, <1>2 DEF Seats, Down
<1>4. Own
  BY OfNone DEF Own
<1>5. QED
  BY <1>3, <1>4 DEF Discipline

LEMMA CrashDiscipline ==
  ASSUME Crash
  PROVE  Discipline'
<1>1. /\ pc' = IdlePc /\ (\A a \in Actors : todo'[a] = <<>>) /\ lock' = None /\ serving' = {}
      /\ holds' = {} /\ \A r \in Runs : at'[r] = None
  BY DEF Crash
<1>2. /\ \A r \in Runs : pc'[Run(r)] = "new"
      /\ \A c \in Containers : pc'[Stop(c)] = "off" /\ pc'[Removal(c)] = "off" /\ pc'[Cleanup(c)] = "off"
  BY <1>1, IdlePcTyped, ActorsDiffer, PassesDiffer
<1>3. {Retirer, Worker, Watch, Operator} \subseteq Actors /\ "new" \notin Inside
  BY ActorsDiffer DEF Inside, Climb
<1>4. Seats' /\ Down'
  BY <1>1, <1>2, <1>3 DEF Seats, Down
<1>5. Own'
  BY <1>1, OfNone DEF Own
<1>6. QED
  BY <1>4, <1>5 DEF Discipline

(* What the startup reconciliation has to execute: it opens intervals.     *)
LEMMA RestartLists ==
  ASSUME TypeInv, Restart
  PROVE  /\ \A b \in Actors : b # Boot => todo'[b] = todo[b]
         /\ \A x \in Of(todo'[Boot]) : x.op = "open"
<1> DEFINE claimed == {c \in Containers : row[c] = "busy"}
<1>1. PICK order \in SetToSeqs(claimed) :
         todo' = [todo EXCEPT ![Boot] = [i \in DOMAIN order |-> St("open", order[i])]]
  BY DEF Restart
<1> DEFINE q == [i \in DOMAIN order |-> St("open", order[i])]
<1>2. \A x \in Of(q) : x.op = "open"
  BY StIs DEF Of
<1>3. todo' = [todo EXCEPT ![Boot] = q] /\ Boot \in Actors
  BY <1>1, ActorsDiffer
<1> HIDE DEF q
<1>4. QED
  BY <1>2, <1>3 DEF TypeInv, Todos

LEMMA RestartDiscipline ==
  ASSUME TypeInv, Discipline, Restart
  PROVE  Discipline'
<1>1. UNCHANGED <<pc, at, lock, seen>> /\ up'
  BY DEF Restart
<1>2. /\ {Retirer, Worker, Watch, Operator, Boot} \subseteq Actors
      /\ Boot \notin {Retirer, Worker, Watch, Operator}
  BY ActorsDiffer, PassesDiffer
<1>3. Seats'
  BY <1>1, <1>2, RestartLists DEF Discipline, Seats
<1>4. Own'
  <2>1. \A x \in Of(todo'[Boot]) : Mine(Boot, x)'
    BY <1>2, RestartLists, HarmlessMine DEF Harmless
  <2>2. \A b \in Actors : b # Boot => todo'[b] = todo[b] /\ pc'[b] = pc[b]
    BY <1>1, RestartLists
  <2>3. Own
    BY DEF Discipline
  <2>4. QED
    BY <1>1, <1>2, <2>1, <2>2, <2>3, OwnGoto
<1>5. Down'
  BY <1>1 DEF Down
<1>6. QED
  BY <1>3, <1>4, <1>5 DEF Discipline

LEMMA NextDiscipline ==
  ASSUME TypeInv, Discipline, [Next]_vars
  PROVE  Discipline'
<1>1. CASE UNCHANGED vars
  BY <1>1, StillDiscipline DEF vars, db, process
<1>2. QED
  BY <1>1, NextKinds, ExecDiscipline, RunDiscipline, PassDiscipline, CrashDiscipline,
     RestartDiscipline

LEMMA InitDiscipline == Init => Discipline
BY QuietStart DEF Init

-----------------------------------------------------------------------------
(* What is referred to was asked of the engine                             *)

Known(c) == engine[c] # "unused"

(* A container is picked for a create only while nothing refers to it: no  *)
(* row, no project, no climb, no retirement, no call in flight.            *)
Used ==
    /\ \A c \in Containers : row[c] # "none" \/ named = c => Known(c)
    /\ \A s \in Runs : pc[Run(s)] \in Climb \ {"request"} => Known(at[s])
    /\ \A a \in Actors : \A x \in Of(todo[a]) :
          x.op \in {"adoptUnpooled", "beginStop", "beginRemoval"} => Known(x.c)
    /\ \A c \in Containers :
          pc[Stop(c)] # "off" \/ pc[Removal(c)] # "off" \/ pc[Cleanup(c)] # "off" => Known(c)

LEMMA EngineGrows ==
  ASSUME TypeInv, Discipline, [Next]_vars, NEW c \in Containers, Known(c)
  PROVE  Known(c)'
<1>1. CASE engine' = engine
  BY <1>1 DEF Known
<1>2. CASE \E d \in Containers, state \in EngineState \ {"unused"} : EngineMoves(d, state)
  BY <1>2, EngineMonotone DEF Known
<1>3. {"requested", "stopped", "running", "stopping", "gone"} \subseteq EngineState \ {"unused"}
  BY DEF EngineState
<1>4. CASE \E a \in Actors : Exec(a)
  BY <1>1, <1>4 DEF Exec
<1>5. CASE \E r \in Runs : RunStep(r)
  <2>1. PICK r \in Runs : RunStep(r)
    BY <1>5
  <2>2. CASE Resume(r) \/ RequestCreate(r) \/ StartCreated(r)
    <3>1. at[r] \in Containers
      BY <2>2, InRunFacts DEF Resume, RequestCreate, StartCreated, Near
    <3>2. \/ engine' = engine \/ EngineMoves(at[r], "running") \/ EngineMoves(at[r], "requested")
      BY <2>2 DEF Resume, RequestCreate, StartCreated
    <3>3. QED
      BY <1>1, <1>2, <1>3, <3>1, <3>2
  <2>3. CASE ~(Resume(r) \/ RequestCreate(r) \/ StartCreated(r))
    BY <1>1, <2>1, <2>3 DEF RunStep, EnterLadder, Decide, Inspect, CreateAnswers, CreateFails, SetUp,
       ProvisionFails, Claim, LeaveLadder, Attribute, End, Ended
  <2>4. QED
    BY <2>2, <2>3
<1>6. CASE PassStep
  <2>1. ASSUME NEW d \in Containers,
               \/ Background(d) \/ EngineCreates(d) \/ EngineStops(d) \/ Outside(d)
               \/ LivenessReads(d) \/ OperatorRemoves(d)
        PROVE  Known(c)'
    <3>1. engine' = engine \/ \E state \in {"stopped", "stopping", "gone"} : EngineMoves(d, state)
      BY <2>1 DEF Background, StopAnswers, StopFails, RemovalAnswers, RemovalFails, CallSettles,
         LookUpCreate, RemoveCreated, EngineCreates, EngineStops, Outside, LivenessReads,
         OperatorRemoves
    <3>2. QED
      BY <1>1, <1>2, <1>3, <3>1
  <2>2. CASE EnsureStarts
    <3>1. seen["worker"].c \in Containers /\ EngineMoves(seen["worker"].c, "running")
      BY <2>2 DEF EnsureStarts, TypeInv, Memory, HasOne
    <3>2. QED
      BY <1>1, <1>2, <1>3, <3>1
  <2>3. CASE Sweep
    <3>1. engine' = engine \/ \E d \in Containers : EngineMoves(d, "gone")
      BY <2>3 DEF Sweep
    <3>2. QED
      BY <1>1, <1>2, <1>3, <3>1
  <2>4. CASE SyncStopsOverLimit
    <3>1. /\ seen["watch"].c \in Containers
          /\ engine' = engine \/ EngineMoves(seen["watch"].c, "stopped")
      BY <2>4 DEF SyncStopsOverLimit, TypeInv, Memory, Looking
    <3>2. QED
      BY <1>1, <1>2, <1>3, <3>1
  <2>5. CASE \/ Retire \/ RetireDone \/ HoldRunning \/ EnsureRunning \/ EnsureFails
             \/ EnsureDone \/ ReleaseHold \/ LivenessJudges
             \/ LivenessFailsWedged \/ SyncReads \/ SyncJudges \/ SyncMeasures \/ SyncWithinLimit
             \/ SettingsChange
    BY <1>1, <2>5 DEF Retire, RetireDone, HoldRunning, EnsureRunning, EnsureFails, EnsureDone,
       ReleaseHold, LivenessJudges,
       LivenessFailsWedged, SyncReads, SyncJudges, SyncMeasures, SyncWithinLimit, SettingsChange
  <2>6. QED
    BY <1>6, <2>1, <2>2, <2>3, <2>4, <2>5 DEF PassStep
<1>7. CASE Crash \/ Restart \/ UNCHANGED vars
  BY <1>1, <1>7 DEF Crash, Restart, vars
<1>8. QED
  BY <1>4, <1>5, <1>6, <1>7, NextKinds

(* What a pass may do to the lists and calls the rest relies on.           *)
LEMMA PassCalls ==
  ASSUME TypeInv, Discipline, PassStep
  PROVE  /\ UNCHANGED <<row, named, at, up>>
         /\ \A s \in Runs : pc'[Run(s)] = pc[Run(s)] /\ todo'[Run(s)] = todo[Run(s)]
         /\ ~Retire => todo'[Retirer] = todo[Retirer] \/ todo'[Retirer] = <<>>
         /\ \A c \in Containers : /\ pc'[Stop(c)] # "off" => pc[Stop(c)] # "off"
                                  /\ pc'[Removal(c)] # "off" => pc[Removal(c)] # "off"
                                  /\ pc'[Cleanup(c)] # "off" => pc[Cleanup(c)] # "off"
<1>1. UNCHANGED <<row, named, at, up>>
  BY DEF PassStep, Background, StopAnswers, StopFails, RemovalAnswers, RemovalFails, CallSettles,
     LookUpCreate, RemoveCreated, EngineCreates, EngineStops, Outside, LivenessReads,
     OperatorRemoves, Retire, RetireDone, HoldRunning, EnsureRunning, EnsureStarts,
     EnsureFails, EnsureDone, ReleaseHold,
     LivenessJudges, LivenessFailsWedged, SyncReads, SyncJudges, SyncMeasures, SyncWithinLimit,
     SyncStopsOverLimit, Sweep, SettingsChange, db, process
<1>2. /\ {Retirer, Worker, Watch, Operator, Reaper} \subseteq Actors
      /\ Retirer \notin {Worker, Watch, Operator, Reaper}
      /\ \A c \in Containers :
            /\ {Stop(c), Removal(c), Cleanup(c)} \subseteq Actors
            /\ {Stop(c), Removal(c), Cleanup(c)}
                  \intersect {Retirer, Worker, Watch, Operator, Reaper} = {}
            /\ \A d \in Containers :
                  /\ Stop(c) # Removal(d) /\ Stop(c) # Cleanup(d) /\ Removal(c) # Cleanup(d)
                  /\ Stop(c) = Stop(d) \/ Removal(c) = Removal(d) \/ Cleanup(c) = Cleanup(d) => c = d
  BY ActorsDiffer, PassesDiffer
<1> DEFINE Calm == /\ ~Retire => todo'[Retirer] = todo[Retirer] \/ todo'[Retirer] = <<>>
                   /\ \A c \in Containers : /\ pc'[Stop(c)] # "off" => pc[Stop(c)] # "off"
                                            /\ pc'[Removal(c)] # "off" => pc[Removal(c)] # "off"
                                            /\ pc'[Cleanup(c)] # "off" => pc[Cleanup(c)] # "off"
<1>3. ASSUME NEW a \in Actors, NEW p, NEW q, Goto(a, p, q), p = "off" \/ pc[a] # "off",
             a = Retirer => Retire \/ q = <<>>
      PROVE  Calm
  BY <1>2, <1>3, GotoLeaves
<1>4. ASSUME NEW a \in {Retirer, Worker, Watch, Operator, Reaper}, NEW p, NEW q, Goto(a, p, q),
             a = Retirer => Retire \/ q = <<>>
      PROVE  Calm
  BY <1>2, <1>4, GotoLeaves
<1> SUFFICES Calm
  BY <1>1, PassesLeaveRuns
<1> HIDE DEF Calm
<1>5. ASSUME NEW c \in Containers, Background(c) PROVE Calm
  <2>1. /\ StopAnswers(c) \/ StopFails(c) =>
              pc[Stop(c)] # "off" /\ \E q : Goto(Stop(c), "settling", q)
        /\ RemovalAnswers(c) \/ RemovalFails(c) =>
              pc[Removal(c)] # "off" /\ \E q : Goto(Removal(c), "settling", q)
        /\ CallSettles(c) => Goto(Stop(c), "off", <<>>) \/ Goto(Removal(c), "off", <<>>)
        /\ LookUpCreate(c) \/ RemoveCreated(c) =>
              pc[Cleanup(c)] # "off" /\ \E p, q : Goto(Cleanup(c), p, q)
    BY DEF StopAnswers, StopFails, RemovalAnswers, RemovalFails, CallSettles, LookUpCreate,
       RemoveCreated
  <2>2. {Stop(c), Removal(c), Cleanup(c)} \subseteq Actors
        /\ Retirer \notin {Stop(c), Removal(c), Cleanup(c)}
    BY <1>2
  <2>3. QED
    BY <1>3, <1>5, <2>1, <2>2 DEF Background
<1>6. ASSUME NEW c \in Containers, LivenessReads(c) \/ OperatorRemoves(c) PROVE Calm
  <2>1. (\E p, q : Goto(Watch, p, q)) \/ (\E p, q : Goto(Operator, p, q))
    BY <1>6 DEF LivenessReads, OperatorRemoves
  <2>2. QED
    BY <1>2, <1>4, <2>1
<1>7. CASE Retire \/ RetireDone
  <2>1. Retire \/ Goto(Retirer, "off", <<>>)
    BY <1>7 DEF RetireDone
  <2>2. Retire => \E p, q : Goto(Retirer, p, q)
    BY DEF Retire
  <2>3. CASE Retire
    BY <1>4, <2>2, <2>3
  <2>4. CASE Goto(Retirer, "off", <<>>)
    BY <1>4, <2>4
  <2>5. QED
    BY <2>1, <2>3, <2>4
<1>8. CASE \/ EnsureRunning \/ EnsureStarts \/ EnsureFails \/ EnsureDone \/ LivenessJudges \/ LivenessFailsWedged
           \/ SyncReads \/ SyncJudges \/ SyncMeasures \/ SyncWithinLimit \/ SyncStopsOverLimit
  <2>1. (\E p, q : Goto(Watch, p, q)) \/ (\E p, q : Goto(Worker, p, q))
    BY <1>8 DEF EnsureRunning, EnsureStarts,
     EnsureFails, EnsureDone, LivenessJudges, LivenessFailsWedged, SyncReads,
       SyncJudges, SyncMeasures, SyncWithinLimit, SyncStopsOverLimit
  <2>2. QED
    BY <1>2, <1>4, <2>1
<1>9. CASE \/ HoldRunning \/ ReleaseHold \/ SettingsChange \/ Sweep
           \/ \E c \in Containers : EngineCreates(c) \/ EngineStops(c) \/ Outside(c)
  <2>1. UNCHANGED <<pc, todo>> \/ \E p, q : Goto(Reaper, p, q)
    BY <1>9, ZenonT(60) DEF HoldRunning, ReleaseHold, SettingsChange, Sweep, EngineCreates, EngineStops,
       Outside, process
  <2>2. CASE UNCHANGED <<pc, todo>>
    BY <2>2 DEF Calm
  <2>3. QED
    BY <1>2, <1>4, <2>1, <2>2
<1>10. QED
  BY <1>5, <1>6, <1>7, <1>8, <1>9 DEF PassStep

(* What a statement does to the rows, the project and the calls in flight. *)
LEMMA ExecRow ==
  ASSUME TypeInv, Discipline, NEW a \in Actors, Exec(a), NEW x, x = Head(todo[a])
  PROVE  /\ \A c \in Containers : c # x.c => row'[c] = row[c]
         /\ \/ row'[x.c] = row[x.c] /\ x.op # "delete"
            \/ x.op = "set" /\ row[x.c] # "none" /\ row'[x.c] = x.to
            \/ x.op = "upsert" /\ row'[x.c] = x.to
            \/ x.op = "adoptUnpooled" /\ row'[x.c] = x.to /\ x.c \in outdated'
            \/ x.op = "delete" /\ row'[x.c] = "none"
            \/ x.op = "release" /\ row[x.c] \notin {"none", "suspended"} /\ row'[x.c] = "idle"
            \/ x.op = "markRunning" /\ row[x.c] = "suspended" /\ row'[x.c] = "idle"
            \/ x.op = "beginStop" /\ row[x.c] = "idle" /\ row'[x.c] = "suspended"
            \/ x.op = "unclaim" /\ row[x.c] = "busy" /\ row'[x.c] = "suspended"
         /\ outdated \subseteq outdated'
         /\ \/ named' = named /\ (x.op = "unname" => named # x.c)
            \/ named' = x.c /\ x.op = "name"
            \/ named' = None /\ x.op \in {"unname", "showGone"}
         /\ \/ UNCHANGED <<pc, tracked>> /\ x.op # "beginRemoval"
            \/ /\ x.op = "beginStop" /\ row[x.c] \in {"idle", "none"} /\ row'[x.c] \in {"suspended", "none"}
               /\ pc' = [pc EXCEPT ![Stop(x.c)] = "calling"]
               /\ tracked' = [tracked EXCEPT ![x.c] = "stop"]
            \/ /\ x.op = "beginRemoval" /\ row' = row /\ named' = named
               /\ pc' = [pc EXCEPT ![Removal(x.c)] = "calling"]
               /\ tracked' = [tracked EXCEPT ![x.c] = "remove"]
         /\ serving' \subseteq serving
<1>1. x.c \in Containers /\ (x.op \in Writes => x.to \in Written)
  BY HeadTyped
<1>2. row \in [Containers -> RowState] /\ outdated \subseteq Containers
  BY DEF TypeInv, Tables
<1>4. \/ /\ \/ x.op = "open" /\ OpenUptime(a, x.c)
            \/ x.op = "close" /\ CloseUptime(a, x.c)
            \/ x.op = "provisional" /\ OpenProvisional(a, x.c)
            \/ x.op = "adopt" /\ AdoptProvisional(a, x.c)
            \/ x.op = "discard" /\ DiscardProvisional(a, x.c)
            \/ x.op = "endRuns" /\ EndRuns(a, x.c)
         /\ UNCHANGED <<outdated, pc, tracked, serving>>
      \/ /\ \/ x.op = "set" /\ SetState(a, x.c, x.to)
            \/ x.op = "upsert" /\ UpsertMember(a, x.c, x.to)
            \/ x.op = "delete" /\ ForgetMember(a, x.c)
            \/ x.op = "release" /\ ReleaseMember(a, x.c)
            \/ x.op = "unclaim" /\ Unclaim(a, x.c)
            \/ x.op = "markRunning" /\ MarkRunning(a, x.c)
         /\ UNCHANGED <<outdated, pc, tracked, serving>>
      \/ /\ x.op \in {"name", "unname", "show", "showIfNamed", "showGone"} /\ WriteProject(a, x)
         /\ UNCHANGED <<outdated, pc, tracked, serving>>
      \/ x.op = "adoptUnpooled" /\ AdoptMember(a, x.c, x.to) /\ UNCHANGED <<pc, tracked, serving>>
      \/ x.op = "beginStop" /\ BeginStop(a, x.c) /\ UNCHANGED <<outdated, serving>>
      \/ x.op = "beginRemoval" /\ BeginRemoval(a, x.c) /\ UNCHANGED serving
      \/ x.op = "cancel" /\ CancelLiveRuns(a, x.c) /\ UNCHANGED <<pc, tracked>>
  BY DEF Exec
<1>5. CASE /\ \/ x.op = "open" /\ OpenUptime(a, x.c)
              \/ x.op = "close" /\ CloseUptime(a, x.c)
              \/ x.op = "provisional" /\ OpenProvisional(a, x.c)
              \/ x.op = "adopt" /\ AdoptProvisional(a, x.c)
              \/ x.op = "discard" /\ DiscardProvisional(a, x.c)
              \/ x.op = "endRuns" /\ EndRuns(a, x.c)
           /\ UNCHANGED <<outdated, pc, tracked, serving>>
  BY <1>5 DEF OpenUptime, CloseUptime, OpenProvisional, AdoptProvisional, DiscardProvisional, EndRuns
<1>6. CASE /\ \/ x.op = "set" /\ SetState(a, x.c, x.to)
              \/ x.op = "upsert" /\ UpsertMember(a, x.c, x.to)
              \/ x.op = "delete" /\ ForgetMember(a, x.c)
              \/ x.op = "release" /\ ReleaseMember(a, x.c)
              \/ x.op = "unclaim" /\ Unclaim(a, x.c)
              \/ x.op = "markRunning" /\ MarkRunning(a, x.c)
           /\ UNCHANGED <<outdated, pc, tracked, serving>>
  BY <1>1, <1>2, <1>6 DEF SetState, UpsertMember, ForgetMember, ReleaseMember, Unclaim,
     MarkRunning
<1>7. CASE /\ x.op \in {"name", "unname", "show", "showIfNamed", "showGone"} /\ WriteProject(a, x)
           /\ UNCHANGED <<outdated, pc, tracked, serving>>
  BY <1>7 DEF WriteProject
<1>8. CASE x.op = "adoptUnpooled" /\ AdoptMember(a, x.c, x.to) /\ UNCHANGED <<pc, tracked, serving>>
  BY <1>1, <1>2, <1>8 DEF AdoptMember
<1>9. CASE x.op = "beginStop" /\ BeginStop(a, x.c) /\ UNCHANGED <<outdated, serving>>
  BY <1>1, <1>2, <1>9 DEF BeginStop
<1>10. CASE x.op = "beginRemoval" /\ BeginRemoval(a, x.c) /\ UNCHANGED serving
  BY <1>10 DEF BeginRemoval, db
<1>11. CASE x.op = "cancel" /\ CancelLiveRuns(a, x.c) /\ UNCHANGED <<pc, tracked>>
  BY <1>11 DEF CancelLiveRuns, db
<1>12. QED
  BY <1>4, <1>5, <1>6, <1>7, <1>8, <1>9, <1>10, <1>11, ZenonT(60)

(* What was ahead of an actor that is not open or close was ahead before.  *)
LEMMA ExecOld ==
  ASSUME TypeInv, Discipline, NEW a \in Actors, Exec(a), NEW b \in Actors,
         NEW y \in Of(todo'[b])
  PROVE  y \in Of(todo[b]) \/ (b = a /\ y.op \in {"open", "close"} /\ y.c = Head(todo[a]).c)
<1> DEFINE c == Head(todo[a]).c
           q == Tail(todo[a])
<1>1. /\ todo[a] # <<>> /\ todo[a] \in Seq(Typed) /\ c \in Containers /\ q \in Seq(Typed)
  BY HeadTyped
<1>2. Of(q) \subseteq Of(todo[a]) /\ Head(todo[a]) \in Of(todo[a])
  BY <1>1, OfTail
<1>4. PICK more \in {<<>>, <<St("open", c)>>, <<St("close", c)>>} : Done(a, more)
  BY ExecList
<1>5. CASE b # a
  BY <1>4, <1>5 DEF Done, TypeInv, Todos
<1>6. CASE b = a
  <2>1. St("open", c) \in Typed /\ St("close", c) \in Typed
    BY <1>1, StatementsTyped, OpsPlain
  <2>2. more \in Seq(Typed)
    <3>1. <<St("open", c)>> \in Seq(Typed) /\ <<St("close", c)>> \in Seq(Typed)
      BY <2>1
    <3>2. QED
      BY <1>4, <3>1, NoStatements
  <2>3. todo'[a] = more \o q
    BY <1>4 DEF Done, TypeInv, Todos
  <2> HIDE DEF q, c
  <2>4. y \in Of(more) \/ y \in Of(q)
    BY <1>1, <1>6, <2>2, <2>3, OfJoined
  <2>5. y \in Of(more) => y = St("open", c) \/ y = St("close", c)
    BY <1>4, OfNone, OfOne
  <2>6. QED
    BY <1>2, <1>6, <2>4, <2>5, StIs DEF c
<1>7. QED
  BY <1>5, <1>6

LEMMA ExecUsed ==
  ASSUME TypeInv, Discipline, Used, NEW a \in Actors, Exec(a)
  PROVE  Used'
<1> DEFINE x == Head(todo[a])
<1>1. x.c \in Containers /\ x \in Of(todo[a]) /\ Mine(a, x)
  BY HeadTyped, OfTail DEF Discipline, Own
<1>2. engine' = engine /\ at' = at
  BY DEF Exec
<1>3. /\ \A c \in Containers : c # x.c => row'[c] = row[c]
      /\ row'[x.c] = row[x.c] \/ row'[x.c] = "none" \/ row[x.c] # "none" \/ x.op \in {"upsert", "adoptUnpooled"}
      /\ named' = named \/ (named' = x.c /\ x.op = "name") \/ named' = None
      /\ \/ pc' = pc
         \/ x.op = "beginStop" /\ pc' = [pc EXCEPT ![Stop(x.c)] = "calling"]
         \/ x.op = "beginRemoval" /\ pc' = [pc EXCEPT ![Removal(x.c)] = "calling"]
  BY ExecRow
<1> HIDE DEF x
<1>4. x.op \in {"upsert", "name", "adoptUnpooled", "beginStop", "beginRemoval"} => Known(x.c)
  <2>1. CASE x.op \in {"upsert", "name"}
    <3>1. PICK s \in Runs : x.c = at[s] /\ pc[Run(s)] \in {"start", "setup", "claim"}
      BY <1>1, <2>1 DEF Mine, ByRun
    <3>2. QED
      BY <3>1 DEF Used, Climb
  <2>2. QED
    BY <1>1, <2>1 DEF Used
<1>5. \A c \in Containers : Known(c)' = Known(c)
  BY <1>2 DEF Known
<1>6. ASSUME NEW c \in Containers, row'[c] # "none" \/ named' = c PROVE Known(c)'
  BY <1>3, <1>4, <1>5, <1>6, ConstAssumption DEF Used
<1>7. ASSUME NEW s \in Runs, pc'[Run(s)] \in Climb \ {"request"} PROVE Known(at[s])'
  <2>1. pc'[Run(s)] = pc[Run(s)]
    BY <1>1, ExecEffect, ExecMoves DEF x
  <2>2. QED
    BY <1>2, <1>7, <2>1 DEF Used, Known
<1>8. ASSUME NEW b \in Actors, NEW y \in Of(todo'[b]),
             y.op \in {"adoptUnpooled", "beginStop", "beginRemoval"}
      PROVE  Known(y.c)'
  <2>1. y \in Of(todo[b])
    BY <1>8, ExecOld
  <2>2. QED
    BY <1>2, <1>8, <2>1 DEF Used, Known
<1>9. ASSUME NEW c \in Containers,
             pc'[Stop(c)] # "off" \/ pc'[Removal(c)] # "off" \/ pc'[Cleanup(c)] # "off"
      PROVE  Known(c)'
  <2>1. pc \in [Actors -> RunPc \union PassPc]
    BY DEF TypeInv, Places
  <2>2. /\ {Stop(c), Removal(c), Cleanup(c), Stop(x.c), Removal(x.c)} \subseteq Actors
        /\ c # x.c => {Stop(c), Removal(c), Cleanup(c)} \intersect {Stop(x.c), Removal(x.c)} = {}
    BY <1>1, ActorsDiffer
  <2>3. CASE c = x.c
    BY <1>3, <1>4, <1>5, <1>9, <2>3 DEF Used
  <2>4. CASE c # x.c
    BY <1>3, <1>5, <1>9, <2>1, <2>2, <2>4 DEF Used
  <2>5. QED
    BY <2>3, <2>4
<1>10. QED
  BY <1>6, <1>7, <1>8, <1>9 DEF Used

(* What of a run's list others must beware of: it adopts the container the *)
(* project names, or it replaces an outdated member nobody is using.       *)
Adopts(x) ==
    /\ x.op = "adoptUnpooled" /\ x.c = named /\ named \in Containers
    /\ row[named] = "none" /\ engine[named] \in Exists
Replaces(a, x) ==
    /\ x.op = "beginRemoval" /\ x.c \in Containers /\ row[x.c] \in {"idle", "suspended"}
    /\ x.c \notin holds /\ todo'[a] = Destroy(x.c)

LEMMA RunAhead ==
  ASSUME TypeInv, Discipline, NEW r \in Runs, RunStep(r), NEW x \in Of(todo'[Run(r)]),
         x.op \in {"adoptUnpooled", "beginStop", "beginRemoval"}
  PROVE  Adopts(x) \/ Replaces(Run(r), x)
<1> DEFINE c == at[r]
<1>1. Run(r) \in Actors
  BY ActorsDiffer
<1>2. Discipline'
  BY RunDiscipline
<1>3. Mine(Run(r), x)' /\ Run(r) # Retirer
  BY <1>1, <1>2, ActorsDiffer, PassesDiffer DEF Discipline, Own
<1>4. pc'[Run(r)] \in {"decide", "retry"}
  BY <1>3, ActorsDiffer DEF Mine, Deciding, Retires
<1>5. todo'[Run(r)] # <<>>
  BY OfNone
<1>6. CASE EnterLadder(r)
  <2>1. todo'[Run(r)] = IF pc[Run(r)] = "new" THEN AdoptUnpooled ELSE <<>>
    BY <1>1, <1>6, GotoLeaves DEF EnterLadder
  <2>2. /\ named \in Containers /\ engine[named] \in Exists /\ row[named] = "none"
        /\ \E to : todo'[Run(r)] = <<StTo("adoptUnpooled", named, to)>>
    BY <1>5, <2>1 DEF AdoptUnpooled
  <2>3. PICK to : todo'[Run(r)] = <<StTo("adoptUnpooled", named, to)>>
    BY <2>2
  <2>4. x = StTo("adoptUnpooled", named, to)
    BY <2>3, OfOne
  <2>5. x.op = "adoptUnpooled" /\ x.c = named
    BY <2>4, StToIs
  <2>6. QED
    BY <2>2, <2>5 DEF Adopts
<1>7. CASE Decide(r)
  <2>1. \E p, q :
          /\ Goto(Run(r), p, q)
          /\ \/ q = <<>> \/ p = "request"
             \/ \E d \in outdated : /\ row[d] \in {"idle", "suspended"} /\ d \notin holds
                                    /\ q = Destroy(d)
    BY <1>7 DEF Decide, NotHeld
  <2>2. PICK d \in outdated : /\ row[d] \in {"idle", "suspended"} /\ d \notin holds
                              /\ todo'[Run(r)] = Destroy(d)
    BY <1>1, <1>4, <1>5, <2>1, GotoLeaves
  <2>3. x \in {St("delete", d), St("unname", d), St("beginRemoval", d)}
    BY <2>2, OfThree DEF Destroy
  <2>4. x.c = d /\ d \in Containers /\ x.op = "beginRemoval"
    BY <2>3, StIs DEF TypeInv, Tables
  <2>5. QED
    BY <2>2, <2>4 DEF Replaces
<1>8. CASE Inspect(r) \/ Resume(r) \/ Claim(r)
  <2>1. \/ pc'[Run(r)] \in {"claim", "failed", "claimed"}
        \/ todo'[Run(r)] = <<>>
        \/ todo'[Run(r)] = <<St("close", c), St("delete", c)>>
        \/ todo'[Run(r)] = <<StTo("set", c, "suspended")>>
    BY <1>1, <1>8, GotoLeaves DEF Inspect, Resume, Claim
  <2>2. x \in {St("close", c), St("delete", c), StTo("set", c, "suspended")}
    <3>1. CASE todo'[Run(r)] = <<St("close", c), St("delete", c)>>
      BY <3>1, OfTwo
    <3>2. CASE todo'[Run(r)] = <<StTo("set", c, "suspended")>>
      BY <3>2, OfOne
    <3>3. QED
      BY <1>4, <1>5, <2>1, <3>1, <3>2
  <2>3. QED
    BY <2>2, StIs, StToIs
<1>9. CASE \/ RequestCreate(r) \/ CreateAnswers(r) \/ StartCreated(r) \/ SetUp(r)
           \/ ProvisionFails(r) \/ LeaveLadder(r) \/ Attribute(r) \/ End(r) \/ Ended(r)
  <2>1. \E p \in {"creating", "start", "setup", "claim", "failed", "working", "again", "new",
                  "running", "ending"} : \E q : Goto(Run(r), p, q)
    BY <1>9 DEF RequestCreate, CreateAnswers, StartCreated, SetUp, ProvisionFails, LeaveLadder,
       Attribute, End, Ended
  <2>2. QED
    BY <1>1, <1>4, <2>1, GotoLeaves
<1>10. CASE CreateFails(r)
  <2>1. pc'[Run(r)] = "failed"
    BY <1>1, <1>10, ActorsDiffer DEF CreateFails, TypeInv, Places
  <2>2. QED
    BY <1>4, <2>1
<1>11. QED
  BY <1>6, <1>7, <1>8, <1>9, <1>10 DEF RunStep

(* Where a run's step takes it, and what it then refers to.                *)
LEMMA RunUsed ==
  ASSUME TypeInv, Discipline, Used, NEW r \in Runs, RunStep(r)
  PROVE  Used'
<1> DEFINE c == at[r]
<1>1. Run(r) \in Actors /\ pc \in [Actors -> RunPc \union PassPc] /\ at \in [Runs -> Containers \union {None}]
      /\ row \in [Containers -> RowState]
  BY ActorsDiffer DEF TypeInv, Places, Tables
<1>2. \A d \in Containers : Known(d) => Known(d)'
  BY EngineGrows DEF Next
<1>3. /\ \A b \in Actors : b # Run(r) => todo'[b] = todo[b]
      /\ \A b \in Actors : b # Run(r) /\ (\A d \in Containers : b # Cleanup(d)) => pc'[b] = pc[b]
  BY RunLists
<1>4. \A s \in Runs : s # r => at'[s] = at[s] /\ pc'[Run(s)] = pc[Run(s)]
  BY RunMoves
<1>5. TypeInv' /\ Discipline'
  BY RunStepTypes, RunDiscipline
<1>6. ASSUME NEW d \in Containers, row'[d] # "none" \/ named' = d PROVE Known(d)'
  <2>1. named' = named
    BY DEF RunStep, EnterLadder, Decide, Inspect, Resume, RequestCreate, CreateAnswers, CreateFails,
       StartCreated, SetUp, ProvisionFails, Claim, LeaveLadder, Attribute, End, Ended, db
  <2>2. row' = row \/ (row' = [row EXCEPT ![c] = "busy"] /\ row[c] = "idle")
    BY DEF RunStep, EnterLadder, Decide, Inspect, Resume, RequestCreate, CreateAnswers, CreateFails,
       StartCreated, SetUp, ProvisionFails, Claim, LeaveLadder, Attribute, End, Ended, db
  <2>3. row'[d] # "none" => row[d] # "none"
    BY <1>1, <2>2
  <2>4. QED
    BY <1>2, <1>6, <2>1, <2>3 DEF Used
<1>7. ASSUME pc'[Run(r)] \in Climb \ {"request"} PROVE Known(at[r])'
  <2>1. CASE Decide(r)
    <3>1. CASE \E d \in Containers \ outdated :
                  /\ row[d] \in {"idle", "suspended"} /\ at' = [at EXCEPT ![r] = d]
      BY <1>1, <1>2, <3>1 DEF Used, Known
    <3>2. CASE \E q : \/ Goto(Run(r), "request", q) \/ Goto(Run(r), "retry", q) \/ Goto(Run(r), "failed", q)
      BY <1>1, <1>7, <3>2, GotoLeaves DEF Climb
    <3>3. QED
      BY <2>1, <3>1, <3>2 DEF Decide
  <2>2. CASE RequestCreate(r)
    <3>1. c \in Containers /\ at' = at /\ EngineMoves(c, "requested")
      BY <2>2, InRunFacts DEF RequestCreate, Near
    <3>2. "requested" \in EngineState \ {"unused"}
      BY DEF EngineState
    <3>3. engine'[c] = "requested"
      BY <3>1, <3>2, EngineMonotone
    <3>4. QED
      BY <3>1, <3>3 DEF Known
  <2>3. CASE \/ Inspect(r) \/ Resume(r) \/ CreateAnswers(r) \/ CreateFails(r) \/ StartCreated(r)
             \/ SetUp(r) \/ ProvisionFails(r) \/ Claim(r)
    <3>1. /\ pc[Run(r)] \in {"inspect", "resume", "creating", "start", "setup", "claim"} /\ at' = at
      BY <2>3 DEF Inspect, Resume, CreateAnswers, CreateFails, StartCreated, SetUp, ProvisionFails,
         Claim, InRun
    <3>2. c \in Containers
      BY <3>1 DEF TypeInv, Places, OnContainer, Near
    <3>3. QED
      BY <1>2, <3>1, <3>2 DEF Used, Climb, Known
  <2>4. CASE EnterLadder(r) \/ LeaveLadder(r) \/ Attribute(r) \/ End(r) \/ Ended(r)
    <3>1. \E p \in {"decide", "working", "again", "new", "running", "ending"} :
             \E q : Goto(Run(r), p, q)
      BY <2>4 DEF EnterLadder, LeaveLadder, Attribute, End, Ended
    <3>2. QED
      BY <1>1, <1>7, <3>1, GotoLeaves DEF Climb
  <2>5. QED
    BY <2>1, <2>2, <2>3, <2>4 DEF RunStep
<1>8. ASSUME NEW s \in Runs, pc'[Run(s)] \in Climb \ {"request"} PROVE Known(at[s])'
  <2>1. CASE s = r
    BY <1>7, <1>8, <2>1
  <2>2. CASE s # r
    <3>1. pc[Run(s)] \in Climb \ {"request"} /\ at'[s] = at[s]
      BY <1>4, <1>8, <2>2
    <3>2. at[s] \in Containers
      BY <3>1 DEF TypeInv, Places, OnContainer, Near, Climb
    <3>3. QED
      BY <1>2, <3>1, <3>2 DEF Used, Known
  <2>3. QED
    BY <2>1, <2>2
<1>9. ASSUME NEW x \in Of(todo'[Run(r)]), x.op \in {"adoptUnpooled", "beginStop", "beginRemoval"}
      PROVE  Known(x.c)'
  <2>1. Adopts(x) \/ Replaces(Run(r), x)
    BY <1>9, RunAhead
  <2>2. CASE Adopts(x)
    BY <1>2, <2>2 DEF Adopts, Exists, Known
  <2>3. CASE Replaces(Run(r), x)
    BY <1>2, <2>3 DEF Replaces, Used
  <2>4. QED
    BY <2>1, <2>2, <2>3
<1>10. ASSUME NEW b \in Actors, NEW x \in Of(todo'[b]),
              x.op \in {"adoptUnpooled", "beginStop", "beginRemoval"}
       PROVE  Known(x.c)'
  <2>1. CASE b = Run(r)
    BY <1>9, <1>10, <2>1
  <2>2. CASE b # Run(r)
    <3>1. x \in Of(todo[b]) /\ todo[b] \in Seq(Typed)
      BY <1>3, <1>10, <2>2 DEF TypeInv, Todos
    <3>2. x \in Typed
      BY <3>1 DEF Of
    <3>3. x.c \in Containers
      BY <3>2 DEF Typed, Statement
    <3>4. QED
      BY <1>2, <1>10, <3>1, <3>3 DEF Used
  <2>3. QED
    BY <2>1, <2>2
<1>11. ASSUME NEW d \in Containers,
              pc'[Stop(d)] # "off" \/ pc'[Removal(d)] # "off" \/ pc'[Cleanup(d)] # "off"
       PROVE  Known(d)'
  <2>1. {Stop(d), Removal(d), Cleanup(d)} \subseteq Actors
        /\ Run(r) \notin {Stop(d), Removal(d), Cleanup(d)}
        /\ \A e \in Containers : Stop(d) # Cleanup(e) /\ Removal(d) # Cleanup(e)
    BY ActorsDiffer
  <2>2. pc'[Stop(d)] = pc[Stop(d)] /\ pc'[Removal(d)] = pc[Removal(d)]
    BY <1>3, <2>1
  <2>3. CASE pc'[Cleanup(d)] = pc[Cleanup(d)]
    BY <1>2, <1>11, <2>2, <2>3 DEF Used
  <2>4. CASE pc'[Cleanup(d)] # pc[Cleanup(d)]
    <3>1. CreateFails(r)
      BY <2>1, <2>4, RunLists
    <3>2. c \in Containers /\ pc[Run(r)] = "creating"
      BY <3>1, InRunFacts DEF CreateFails, Near
    <3>3. d = c
      BY <1>1, <2>1, <2>4, <3>1, <3>2, ActorsDiffer DEF CreateFails
    <3>4. QED
      BY <1>2, <3>2, <3>3 DEF Used, Climb
  <2>5. QED
    BY <2>3, <2>4
<1>12. QED
  BY <1>6, <1>8, <1>10, <1>11 DEF Used

(* The statements somebody has ahead are well typed.                       *)
LEMMA AheadTyped ==
  ASSUME TypeInv, NEW b \in Actors, NEW x \in Of(todo[b])
  PROVE  x \in Typed /\ x.c \in Containers
<1>1. todo[b] \in Seq(Typed)
  BY DEF TypeInv, Todos
<1>2. x \in Typed
  BY <1>1 DEF Of
<1>3. QED
  BY <1>2 DEF Typed, Statement

LEMMA PassUsed ==
  ASSUME TypeInv, Discipline, Used, PassStep, Discipline'
  PROVE  Used'
<1>1. /\ UNCHANGED <<row, named, at, up>>
      /\ \A s \in Runs : pc'[Run(s)] = pc[Run(s)] /\ todo'[Run(s)] = todo[Run(s)]
      /\ ~Retire => todo'[Retirer] = todo[Retirer] \/ todo'[Retirer] = <<>>
      /\ \A c \in Containers : /\ pc'[Stop(c)] # "off" => pc[Stop(c)] # "off"
                               /\ pc'[Removal(c)] # "off" => pc[Removal(c)] # "off"
                               /\ pc'[Cleanup(c)] # "off" => pc[Cleanup(c)] # "off"
  BY PassCalls
<1>2. \A d \in Containers : Known(d) => Known(d)'
  BY EngineGrows DEF PassStep, Next
<1>3. ASSUME NEW s \in Runs, pc'[Run(s)] \in Climb \ {"request"} PROVE Known(at[s])'
  <2>1. at[s] \in Containers
    BY <1>1, <1>3 DEF TypeInv, Places, OnContainer, Near, Climb
  <2>2. QED
    BY <1>1, <1>2, <1>3, <2>1 DEF Used, Known
<1>4. ASSUME NEW b \in Actors, NEW x \in Of(todo'[b]),
             x.op \in {"adoptUnpooled", "beginStop", "beginRemoval"}
      PROVE  Known(x.c)'
  <2>1. b = Retirer \/ \E s \in Runs : b = Run(s)
    BY <1>4 DEF Discipline, Own, Mine, Deciding, Retires
  <2>2. CASE x \in Of(todo[b])
    BY <1>2, <1>4, <2>2, AheadTyped DEF Used
  <2>3. CASE x \notin Of(todo[b])
    <3>1. b = Retirer /\ Retire
      BY <1>1, <1>4, <2>1, <2>3, OfNone
    <3>2. PICK c \in Containers :
             /\ row[c] # "none" \/ named = c
             /\ todo'[Retirer] = <<St("beginStop", c)>> \/ todo'[Retirer] = Destroy(c)
      BY <3>1, GotoLeaves, ActorsDiffer DEF Retire
    <3>3. x \in {St("beginStop", c), St("delete", c), St("unname", c), St("beginRemoval", c)}
      BY <1>4, <3>1, <3>2, OfOne, OfThree DEF Destroy
    <3>4. x.c = c
      BY <3>3, StIs
    <3>5. QED
      BY <1>2, <3>2, <3>4 DEF Used
  <2>4. QED
    BY <2>2, <2>3
<1>5. /\ \A c \in Containers : row'[c] # "none" \/ named' = c => Known(c)'
      /\ \A c \in Containers :
            pc'[Stop(c)] # "off" \/ pc'[Removal(c)] # "off" \/ pc'[Cleanup(c)] # "off" => Known(c)'
  BY <1>1, <1>2 DEF Used
<1>6. QED
  BY <1>3, <1>4, <1>5 DEF Used

LEMMA NextUsed ==
  ASSUME TypeInv, Discipline, Used, [Next]_vars, Discipline'
  PROVE  Used'
<1>1. CASE UNCHANGED vars
  BY <1>1 DEF vars, db, process, Used, Known
<1>2. CASE Crash
  <2>1. UNCHANGED <<row, named, engine>> /\ \A a \in Actors : todo'[a] = <<>>
    BY <1>2 DEF Crash, db
  <2>2. /\ \A r \in Runs : pc'[Run(r)] = "new"
        /\ \A c \in Containers : pc'[Stop(c)] = "off" /\ pc'[Removal(c)] = "off" /\ pc'[Cleanup(c)] = "off"
    BY <1>2 DEF Discipline, Down, Crash
  <2>3. QED
    BY <2>1, <2>2, OfNone DEF Used, Known, Climb
<1>3. CASE Restart
  <2>1. UNCHANGED <<named, engine, pc, at>>
    BY <1>3 DEF Restart
  <2>2. ASSUME NEW c \in Containers, row'[c] # "none" PROVE row[c] # "none"
    BY <1>3, <2>2 DEF Restart, AfterRestart
  <2>3. ASSUME NEW b \in Actors, NEW x \in Of(todo'[b]),
               x.op \in {"adoptUnpooled", "beginStop", "beginRemoval"}
        PROVE  Known(x.c)'
    <3>1. x \in Of(todo[b])
      BY <1>3, <2>3, RestartLists
    <3>2. QED
      BY <2>1, <2>3, <3>1 DEF Used, Known
  <2>4. QED
    BY <2>1, <2>2, <2>3 DEF Used, Known
<1>4. QED
  BY <1>1, <1>2, <1>3, NextKinds, ExecUsed, RunUsed, PassUsed
=============================================================================
