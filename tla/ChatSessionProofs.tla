------------------------- MODULE ChatSessionProofs -------------------------
(* Proofs about ChatSession, for any number of conversations, messages and *)
(* replies, and any number of closes, shutdowns and crashes.               *)
EXTENDS ChatSession, TLAPS

(* A message whose turn on the chain has come.                             *)
Ahead == {"comp", "title", "cur", "gate"}

(* A message that waits is in the chain of the runtime it found, and one   *)
(* that goes on is at its head.                                            *)
Linked(s, pc, ch) ==
    /\ pc = "chained" => \E i \in 1..Len(ch) : ch[i] = s
    /\ pc \in Ahead => ch # <<>> /\ Head(ch) = s
Chained == \A s \in Sends : Linked(s, send[s].pc, chain[At[s]][send[s].in])

(* So with the compactions and the members' memory.                        *)
Queued ==
    \A t \in Turns :
        /\ turn[t].pc = "parked" => \E i \in 1..Len(folds) : folds[i] = t
        /\ turn[t].pc = "folding" => folds # <<>> /\ Head(folds) = t

(* The types, and what keeps the chains from running empty.                *)
TypeInv == TypeOK /\ Chained /\ Queued

(* The rows of replies that are still to come have not been inserted.      *)
NotYet(s, n) == \A i \in n..Replies[s] : msg[<<s, i>>] = "none"
Fresh ==
    \A s \in Sends :
        /\ send[s].pc # "sent" => room[s].pc = "none" /\ NotYet(s, 1)
        /\ room[s].pc = "gate" => NotYet(s, room[s].i)
        /\ room[s].pc \in {"inserted", "running"} => NotYet(s, room[s].i + 1)

(* The conversation still has the runtime it started with.                 *)
Open(c) == gen[c] = 0

(* In a conversation that was never closed there is one runtime.           *)
FirstGen ==
    /\ \A s \in Sends : Open(At[s]) =>
           send[s].in = 0 /\ send[s].rt = 0 /\ room[s].own = 0 /\ room[s].in = 0
    /\ \A t \in Turns : Open(ConvoOf(t)) => turn[t].own = 0 /\ turn[t].in = 0

(* Only a group has a queue, and only between two messages to it: it is    *)
(* the queue of the message stored last.                                   *)
QueueInv ==
    /\ \A c \in Convos, g \in Gens : rt[c][g].queue # None => kind[c] = "group"
    /\ \A s \in Sends : Open(At[s]) /\ send[s].pc \in Ahead => rt[At[s]][0].queue = None
    /\ \A s \in Sends : Open(At[s]) /\ rt[At[s]][0].queue = s => last[At[s]] = s

(* A reply under way is the current one, answers the message stored last,  *)
(* is awaited by whoever interrupted it and runs for the queue.            *)
ReplyInv ==
    \A t \in Turns : Replying(t) /\ Open(ConvoOf(t)) =>
        /\ rt[ConvoOf(t)][0].cur = t
        /\ last[ConvoOf(t)] = t[1]
        /\ \A s \in Sends : At[s] = ConvoOf(t) =>
               /\ send[s].pc # "gate"
               /\ send[s].pc = "cur" => send[s].wait = t
               /\ rt[At[s]][0].queue = s => t = <<s, room[s].i>> /\ room[s].pc = "running"

(* A message past its interruption is the one stored last.                 *)
StoredLast ==
    \A s \in Sends : Open(At[s]) /\ send[s].pc = "gate" => last[At[s]] = s

(* The inductive invariant.                                                *)
Inv == TypeInv /\ Fresh /\ FirstGen /\ QueueInv /\ ReplyInv /\ StoredLast

-----------------------------------------------------------------------------
(* What a turn is: a message and one of the replies to it.                 *)
LEMMA TurnFacts ==
  /\ \A t \in Turns : /\ t[1] \in Sends /\ t[2] \in 1..Replies[t[1]] /\ t = <<t[1], t[2]>>
                      /\ ConvoOf(t) \in Convos
  /\ \A s \in Sends : \A i \in 1..Replies[s] : <<s, i>> \in Turns /\ ConvoOf(<<s, i>>) = At[s]
  /\ \A s \in Sends : Replies[s] \in Nat /\ <<s, 1>> \in Turns /\ ConvoOf(<<s, 1>>) = At[s]
  /\ None \notin Turns
  /\ None \notin Sends
<1>1. \A t \in Turns : t[1] \in Sends /\ t[2] \in 1..Replies[t[1]] /\ t = <<t[1], t[2]>>
  BY DEF Turns
<1>2. \A s \in Sends : \A i \in 1..Replies[s] : <<s, i>> \in Turns
  BY DEF Turns
<1>3. \A s \in Sends : Replies[s] \in Nat /\ 1 \in 1..Replies[s] /\ At[s] \in Convos
  BY ChatAssumption
<1>4. None \notin Turns
  BY <1>1, <1>3, ChatAssumption
<1>5. None \notin Sends
  BY ChatAssumption
<1>6. QED
  BY <1>1, <1>2, <1>3, <1>4, <1>5 DEF ConvoOf

-----------------------------------------------------------------------------
(* Types                                                                   *)

(* A runtime stays one when a field of it is written.                      *)
LEMMA RuntimeTyped ==
  ASSUME NEW R \in [Convos -> [Gens -> Runtimes]], NEW c \in Convos, NEW g \in Gens
  PROVE  /\ R[c][g].cur \in Turns \cup {None}
         /\ R[c][g].comp \in Turns \cup {None}
         /\ R[c][g].titl \in Turns \cup {None}
         /\ R[c][g].queue \in Sends \cup {None}
         /\ \A v \in Turns \cup {None} :
               /\ [R EXCEPT ![c][g].cur = v] \in [Convos -> [Gens -> Runtimes]]
               /\ [R EXCEPT ![c][g].comp = v] \in [Convos -> [Gens -> Runtimes]]
               /\ [R EXCEPT ![c][g].titl = v] \in [Convos -> [Gens -> Runtimes]]
         /\ \A v \in Sends \cup {None} :
               [R EXCEPT ![c][g].queue = v] \in [Convos -> [Gens -> Runtimes]]
<1>1. R[c][g] \in Runtimes
  OBVIOUS
<1>2. \A r \in Runtimes :
         [R EXCEPT ![c] = [R[c] EXCEPT ![g] = r]] \in [Convos -> [Gens -> Runtimes]]
  OBVIOUS
<1>3. ASSUME NEW v \in Turns \cup {None}
      PROVE  /\ [R EXCEPT ![c][g].cur = v] \in [Convos -> [Gens -> Runtimes]]
             /\ [R EXCEPT ![c][g].comp = v] \in [Convos -> [Gens -> Runtimes]]
             /\ [R EXCEPT ![c][g].titl = v] \in [Convos -> [Gens -> Runtimes]]
  <2>1. /\ [R[c][g] EXCEPT !.cur = v] \in Runtimes
        /\ [R[c][g] EXCEPT !.comp = v] \in Runtimes
        /\ [R[c][g] EXCEPT !.titl = v] \in Runtimes
    BY <1>1 DEF Runtimes
  <2>2. /\ [R EXCEPT ![c][g].cur = v]
             = [R EXCEPT ![c] = [R[c] EXCEPT ![g] = [R[c][g] EXCEPT !.cur = v]]]
        /\ [R EXCEPT ![c][g].comp = v]
             = [R EXCEPT ![c] = [R[c] EXCEPT ![g] = [R[c][g] EXCEPT !.comp = v]]]
        /\ [R EXCEPT ![c][g].titl = v]
             = [R EXCEPT ![c] = [R[c] EXCEPT ![g] = [R[c][g] EXCEPT !.titl = v]]]
    BY Zenon
  <2>3. QED
    BY <1>2, <2>1, <2>2, Zenon
<1>4. ASSUME NEW v \in Sends \cup {None}
      PROVE  [R EXCEPT ![c][g].queue = v] \in [Convos -> [Gens -> Runtimes]]
  <2>1. [R[c][g] EXCEPT !.queue = v] \in Runtimes
    BY <1>1 DEF Runtimes
  <2>2. [R EXCEPT ![c][g].queue = v]
             = [R EXCEPT ![c] = [R[c] EXCEPT ![g] = [R[c][g] EXCEPT !.queue = v]]]
    BY Zenon
  <2>3. QED
    BY <1>2, <2>1, <2>2, Zenon
<1>5. QED
  BY <1>1, <1>3, <1>4 DEF Runtimes

(* A turn stays one when it moves on, is told to stop, ends or starts.     *)
LEMMA TurnTyped ==
  ASSUME TypeOK
  PROVE  /\ \A t \in Turns : Ended(t) \in [Turns -> TurnStates] /\ Started(t) \in [Turns -> TurnStates]
         /\ \A A, C : Signalled(A, C) \in [Turns -> TurnStates]
         /\ \A t \in Turns, s \in {"complete", "interrupted", "failed"} :
               Finalized(t, s) \in [Turns -> Rows]
<1>1. turn \in [Turns -> TurnStates] /\ msg \in [Turns -> Rows] /\ 0 \in Gens
      /\ \A t \in Turns : gen[ConvoOf(t)] \in Gens
  BY TurnFacts DEF TypeOK, Gens
<1>2. ASSUME NEW t \in Turns PROVE Ended(t) \in [Turns -> TurnStates]
  <2> DEFINE b == turn[t].abort /\ kind[ConvoOf(t)] = "group"
  <2>1. b \in BOOLEAN
    OBVIOUS
  <2> HIDE DEF b
  <2>2. [NoTurn EXCEPT !.pc = "over", !.abort = b] \in TurnStates
    BY <1>1, <2>1 DEF NoTurn, TurnStates
  <2>3. QED
    BY <1>1, <2>2 DEF Ended, b
<1>3. ASSUME NEW t \in Turns PROVE Started(t) \in [Turns -> TurnStates]
  <2>1. [NoTurn EXCEPT !.pc = "acquire", !.own = gen[ConvoOf(t)]] \in TurnStates
    BY <1>1 DEF NoTurn, TurnStates
  <2>2. QED
    BY <1>1, <2>1 DEF Started
<1>4. ASSUME NEW A, NEW C PROVE Signalled(A, C) \in [Turns -> TurnStates]
  BY <1>1 DEF Signalled, TurnStates
<1>5. ASSUME NEW t \in Turns, NEW s \in {"complete", "interrupted", "failed"}
      PROVE  Finalized(t, s) \in [Turns -> Rows]
  BY <1>1 DEF Finalized, Rows
<1>6. QED
  BY <1>2, <1>3, <1>4, <1>5

(* And a send, when its fields are written.                                *)
LEMMA SendTyped ==
  ASSUME TypeOK, NEW s \in Sends
  PROVE  /\ send[s].in \in Gens /\ send[s].rt \in Gens /\ send[s].wait \in Turns \cup {None}
         /\ room[s].own \in Gens /\ room[s].in \in Gens
         /\ At[s] \in Convos /\ gen[At[s]] \in Gens
         /\ rt[At[s]][send[s].rt] \in Runtimes /\ rt[At[s]][gen[At[s]]] \in Runtimes
         /\ [send EXCEPT ![s] = Sent] \in [Sends -> SendStates]
<1>1. At[s] \in Convos /\ 0 \in Gens
  BY ChatAssumption DEF Gens
<1>2. send[s] \in SendStates /\ room[s] \in RoomStates
  BY DEF TypeOK
<1>3. Sent \in SendStates
  BY <1>1 DEF Sent, NoSend, SendStates
<1>4. QED
  BY <1>1, <1>2, <1>3 DEF TypeOK, SendStates, RoomStates

(* Taking the head off a chain or off the compactions leaves a sequence of *)
(* the same kind.                                                          *)
LEMMA TailTyped ==
  ASSUME NEW S, NEW q \in Seq(S), q # <<>>
  PROVE  /\ Tail(q) \in Seq(S) /\ Len(Tail(q)) = Len(q) - 1
         /\ \A i \in 1..Len(Tail(q)) : Tail(q)[i] = q[i + 1]
         /\ Head(q) = q[1] /\ Len(q) \in Nat /\ Len(q) # 0
  OBVIOUS

(* The chain without the send that is done, or with one more.              *)
LEMMA ChainTyped ==
  ASSUME TypeOK, NEW s \in Sends
  PROVE  /\ [chain EXCEPT ![At[s]][gen[At[s]]] = Append(@, s)] \in [Convos -> [Gens -> Seq(Sends)]]
         /\ Chained /\ send[s].pc \in Ahead => \A ok : Unchained(s, ok) \in [Convos -> [Gens -> Seq(Sends)]]
<1>1. /\ At[s] \in Convos /\ gen[At[s]] \in Gens /\ send[s].in \in Gens
      /\ chain \in [Convos -> [Gens -> Seq(Sends)]]
  BY SendTyped DEF TypeOK
<1>2. ASSUME NEW g \in Gens, NEW q \in Seq(Sends)
      PROVE  [chain EXCEPT ![At[s]][g] = q] \in [Convos -> [Gens -> Seq(Sends)]]
  BY <1>1
<1>3. Append(chain[At[s]][gen[At[s]]], s) \in Seq(Sends)
  BY <1>1
<1>4. ASSUME Chained, send[s].pc \in Ahead PROVE Tail(chain[At[s]][send[s].in]) \in Seq(Sends)
  BY <1>1, <1>4, TailTyped DEF Chained, Linked
<1>5. QED
  BY <1>1, <1>2, <1>3, <1>4 DEF Unchained

(* The reply a group queue is at is one of its message's.                  *)
LEMMA RoomTurn ==
  ASSUME TypeOK, NEW s \in Sends
  PROVE  room[s].i \in 1..Replies[s] /\ <<s, room[s].i>> \in Turns /\ <<s, 1>> \in Turns
<1>1. room[s].i \in Nat \ {0} /\ room[s].i <= Replies[s]
  BY DEF TypeOK, RoomStates
<1>2. QED
  BY <1>1, TurnFacts

(* A queue begins at its first reply, with none cancelled.                 *)
LEMMA BegunTyped ==
  ASSUME NEW g \in Gens
  PROVE  LET begun == [NoRoom EXCEPT !.pc = "gate", !.own = g, !.in = g] IN
         begun \in RoomStates /\ begun.i = 1 /\ begun.dropped = {}
<1>1. NoRoom \in RoomStates /\ NoRoom.i = 1 /\ NoRoom.dropped = {}
  BY DEF NoRoom, RoomStates, Gens
<1>2. \A r \in RoomStates : LET b == [r EXCEPT !.pc = "gate", !.own = g, !.in = g] IN
                            b \in RoomStates /\ b.i = r.i /\ b.dropped = r.dropped
  BY DEF RoomStates
<1>3. QED
  BY <1>1, <1>2

(* A message goes on: Post and the steps of sendTurn keep the types.       *)
LEMMA TypeSends ==
  ASSUME TypeInv, NEW s \in Sends, Post(s) \/ SendStep(s)
  PROVE  TypeOK'
<1>0. TypeOK /\ Chained
  BY DEF TypeInv
<1>a. /\ send \in [Sends -> SendStates] /\ gen[At[s]] \in Gens
      /\ rt[At[s]][send[s].rt].titl \in Turns \cup {None}
      /\ rt[At[s]][send[s].rt].cur \in Turns \cup {None}
      /\ rt[At[s]][gen[At[s]]].comp \in Turns \cup {None}
  BY <1>0, SendTyped DEF TypeOK, Runtimes
<1>b. /\ rt \in [Convos -> [Gens -> Runtimes]]
      /\ At[s] \in Convos /\ send[s].rt \in Gens
      /\ <<s, 1>> \in Turns
  BY <1>0, TurnFacts, SendTyped DEF TypeOK
<1>c. [send EXCEPT ![s] = Sent] \in [Sends -> SendStates]
  BY <1>0, SendTyped
<1>1. CASE Post(s)
  <2>1. send' \in [Sends -> SendStates]
    BY <1>a, <1>1, ZenonT(60) DEF Post, SendStates
  <2>2. chain' \in [Convos -> [Gens -> Seq(Sends)]]
    BY <1>0, <1>1, ChainTyped DEF Post
  <2>3. QED
    BY <1>0, <1>b, <1>c, <1>1, <2>1, <2>2 DEF Post, TypeOK
<1>2. CASE Begin(s)
  <2>1. send' \in [Sends -> SendStates]
    <3>1. PICK g \in Gens, v \in Turns \cup {None} :
             send' = [send EXCEPT ![s].pc = "comp", ![s].rt = g, ![s].wait = v]
      BY <1>a, <1>2 DEF Begin
    <3>2. send \in [Sends -> SendStates]
      BY <1>a, SMTT(40)
    <3>3. QED
      BY <3>1, <3>2, ZenonT(60) DEF SendStates
  <2>2. rt' \in [Convos -> [Gens -> Runtimes]]
    BY <1>a, <1>b, <1>2, RuntimeTyped DEF Begin
  <2>3. turn' \in [Turns -> TurnStates]
    BY <1>0, <1>b, <1>2, TurnTyped DEF Begin
  <2>4. QED
    BY <1>0, <1>b, <1>c, <1>2, <2>1, <2>2, <2>3, ZenonT(60) DEF Begin, TypeOK
<1>3. CASE StopTitling(s)
  <2>1. send' \in [Sends -> SendStates]
    BY <1>a, <1>3, ZenonT(60) DEF StopTitling, SendStates
  <2>2. QED
    BY <1>0, <1>b, <1>c, <1>3, <2>1 DEF StopTitling, TypeOK
<1>4. CASE Interrupt(s)
  <2>1. send' = [send EXCEPT ![s].pc = "cur", ![s].wait = rt[At[s]][send[s].rt].cur]
    BY <1>4 DEF Interrupt, Awaited
  <2>2. send' \in [Sends -> SendStates]
    BY <1>a, <2>1, ZenonT(60) DEF SendStates
  <2>3. turn' \in [Turns -> TurnStates]
    BY <1>0, <1>b, <1>c, <1>4, TurnTyped DEF Interrupt, TypeOK
  <2>4. QED
    BY <1>0, <1>b, <1>c, <1>4, <2>2, <2>3 DEF Interrupt, TypeOK
<1>5. CASE Store(s)
  <2>1. send' \in [Sends -> SendStates]
    BY <1>a, <1>5, ZenonT(60) DEF Store, SendStates
  <2>2. last' \in [Convos -> Sends \cup {None}]
    BY <1>0, <1>b, <1>5 DEF Store, TypeOK
  <2>3. QED
    BY <1>0, <1>b, <1>5, <2>1, <2>2 DEF Store, TypeOK
<1>6. CASE Refuse(s)
  <2>1. chain' \in [Convos -> [Gens -> Seq(Sends)]]
    BY <1>0, <1>6, ChainTyped DEF Refuse, Ahead
  <2>2. QED
    BY <1>0, <1>b, <1>c, <1>6, <2>1 DEF Refuse, TypeOK
<1>7. CASE KickTurn(s)
  <2>1. chain' \in [Convos -> [Gens -> Seq(Sends)]]
    BY <1>0, <1>7, ChainTyped DEF KickTurn, Ahead
  <2>2. rt' \in [Convos -> [Gens -> Runtimes]]
    BY <1>a, <1>b, <1>7, RuntimeTyped DEF KickTurn
  <2>3. turn' \in [Turns -> TurnStates]
    BY <1>0, <1>b, <1>7, TurnTyped DEF KickTurn
  <2>4. msg' \in [Turns -> Rows]
    BY <1>0, <1>b, <1>c, <1>7 DEF KickTurn, TypeOK, Rows
  <2>5. QED
    BY <1>0, <1>b, <1>c, <1>7, <2>1, <2>2, <2>3, <2>4 DEF KickTurn, TypeOK
<1>8. CASE KickQueue(s)
  <2>1. chain' \in [Convos -> [Gens -> Seq(Sends)]]
    BY <1>0, <1>8, ChainTyped DEF KickQueue, Ahead
  <2>2. rt' \in [Convos -> [Gens -> Runtimes]]
    BY <1>a, <1>b, <1>8, RuntimeTyped DEF KickQueue
  <2> DEFINE begun == [NoRoom EXCEPT !.pc = "gate", !.own = gen[At[s]], !.in = gen[At[s]]]
  <2>3. begun \in RoomStates /\ begun.i = 1 /\ begun.dropped = {}
    <3>1. PICK g \in Gens : g = gen[At[s]]
      BY <1>a
    <3>2. QED
      BY <3>1, BegunTyped
  <2>4. room' = [room EXCEPT ![s] = begun]
    BY <1>8 DEF KickQueue
  <2> HIDE DEF begun
  <2>5. /\ room' \in [Sends -> RoomStates]
        /\ \A q \in Sends : room'[q].i <= Replies[q] /\ room'[q].dropped \subseteq 1..Replies[q]
    <3>1. room \in [Sends -> RoomStates]
      BY <1>0 DEF TypeOK
    <3>2. room'[s] = begun /\ \A q \in Sends \ {s} : room'[q] = room[q]
      BY <3>1, <2>4
    <3>3. 1 <= Replies[s]
      BY ChatAssumption
    <3>4. QED
      BY <1>0, <1>b, <1>c, <2>3, <2>4, <3>1, <3>2, <3>3 DEF TypeOK
  <2>6. QED
    BY <1>0, <1>b, <1>c, <1>8, <2>1, <2>2, <2>5 DEF KickQueue, TypeOK
<1>9. QED
  BY <1>1, <1>2, <1>3, <1>4, <1>5, <1>6, <1>7, <1>8 DEF SendStep

(* What the queue of a group message does to the rooms.                    *)
LEMMA RoomTyped ==
  ASSUME TypeOK, NEW s \in Sends, RoomNext(s) \/ RoomOver(s)
  PROVE  /\ room' \in [Sends -> RoomStates] /\ rt' \in [Convos -> [Gens -> Runtimes]]
         /\ \A q \in Sends : room'[q].i <= Replies[q] /\ room'[q].dropped \subseteq 1..Replies[q]
<1>1. /\ room \in [Sends -> RoomStates] /\ rt \in [Convos -> [Gens -> Runtimes]] /\ 0 \in Gens
      /\ At[s] \in Convos /\ room[s].own \in Gens /\ gen[At[s]] \in Gens
      /\ \A q \in Sends : room[q].i <= Replies[q] /\ room[q].dropped \subseteq 1..Replies[q]
      /\ Replies[s] \in Nat \ {0}
  BY SendTyped, ChatAssumption, SMTT(40) DEF TypeOK, Gens
<1>2. CASE RoomOver(s)
  <2> DEFINE done == [NoRoom EXCEPT !.pc = "over"]
  <2>1. done \in RoomStates /\ done.i = 1 /\ done.dropped = {}
    BY <1>1 DEF NoRoom, RoomStates
  <2>2. room' = [room EXCEPT ![s] = done]
    BY <1>2 DEF RoomOver
  <2> HIDE DEF done
  <2>3. room'[s] = done /\ \A q \in Sends \ {s} : room'[q] = room[q]
    BY <1>1, <2>2
  <2>4. PICK v \in Sends \cup {None} : rt' = [rt EXCEPT ![At[s]][room[s].own].queue = v]
    <3> DEFINE v == IF rt[At[s]][room[s].own].queue = s THEN None ELSE rt[At[s]][room[s].own].queue
    <3>1. rt[At[s]][room[s].own].queue \in Sends \cup {None}
      BY <1>1, RuntimeTyped
    <3>2. rt' = [rt EXCEPT ![At[s]][room[s].own].queue = v]
      BY <1>2 DEF RoomOver
    <3>3. QED
      BY <3>1, <3>2
  <2>5. rt' \in [Convos -> [Gens -> Runtimes]]
    BY <1>1, <2>4, RuntimeTyped
  <2>6. QED
    BY <1>1, <2>1, <2>2, <2>3, <2>5
<1>3. CASE RoomNext(s) /\ ~RoomOver(s)
  <2>1. PICK i \in Pending(s) :
           room' = [room EXCEPT ![s].pc = "gate", ![s].in = gen[At[s]], ![s].i = i]
    BY <1>3 DEF RoomNext
  <2>2. rt' = rt
    BY <1>3 DEF RoomNext
  <2>3. i \in Nat \ {0} /\ i <= Replies[s]
    BY <1>1 DEF Pending, RoomStates
  <2>4. room' \in [Sends -> RoomStates]
    <3>1. room \in [Sends -> RoomStates] /\ gen[At[s]] \in Gens
      BY <1>1
    <3>2. QED
      BY <2>1, <2>3, <3>1, ZenonT(60) DEF RoomStates
  <2>5. /\ room'[s].i = i /\ room'[s].dropped = room[s].dropped
        /\ \A q \in Sends \ {s} : room'[q] = room[q]
    BY <1>1, <2>1 DEF RoomStates
  <2>6. QED
    BY <1>1, <2>2, <2>3, <2>4, <2>5
<1>4. QED
  BY <1>2, <1>3

(* The queue of a group message goes on.                                   *)
LEMMA TypeRooms ==
  ASSUME TypeInv, NEW s \in Sends, RoomStep(s)
  PROVE  TypeOK'
<1> USE DEF TypeInv
<1>1. /\ room \in [Sends -> RoomStates] /\ rt \in [Convos -> [Gens -> Runtimes]]
      /\ msg \in [Turns -> Rows]
      /\ room[s].i \in 1..Replies[s]
      /\ \A q \in Sends : room[q].i <= Replies[q] /\ room[q].dropped \subseteq 1..Replies[q]
      /\ At[s] \in Convos /\ room[s].in \in Gens
  BY TurnFacts, SendTyped DEF TypeOK, RoomStates
<1>2. <<s, room[s].i>> \in Turns
  BY <1>1, TurnFacts
<1>3. ASSUME NEW p \in {"inserted", "running"}, room' = [room EXCEPT ![s].pc = p]
      PROVE  /\ room' \in [Sends -> RoomStates]
             /\ \A q \in Sends : room'[q].i <= Replies[q] /\ room'[q].dropped \subseteq 1..Replies[q]
  <2>1. room \in [Sends -> RoomStates]
    BY <1>1
  <2>2. room' \in [Sends -> RoomStates]
    BY <1>3, <2>1 DEF RoomStates
  <2>3. \A q \in Sends : room'[q].i = room[q].i /\ room'[q].dropped = room[q].dropped
    BY <1>3, <2>1 DEF RoomStates
  <2>4. QED
    BY <1>1, <2>2, <2>3
<1>4. CASE RoomGate(s)
  <2>1. CASE RoomNext(s) /\ UNCHANGED msg
    BY <1>4, <2>1, RoomTyped DEF RoomGate, TypeOK
  <2>2. CASE ~(RoomNext(s) /\ UNCHANGED msg)
    <3>1. /\ room' = [room EXCEPT ![s].pc = "inserted"] /\ rt' = rt
          /\ msg' = [msg EXCEPT ![<<s, room[s].i>>] = "streaming"]
      BY <1>4, <2>2 DEF RoomGate
    <3>2. msg' \in [Turns -> Rows]
      BY <1>1, <3>1 DEF Rows
    <3>3. QED
      BY <1>3, <1>4, <3>1, <3>2 DEF RoomGate, TypeOK
  <2>3. QED
    BY <2>1, <2>2
<1>5. CASE RoomKick(s)
  <2>1. CASE QueueStands(s)
    <3>1. /\ room' = [room EXCEPT ![s].pc = "running"] /\ turn' = Started(<<s, room[s].i>>)
          /\ rt' = [rt EXCEPT ![At[s]][room[s].in].cur = <<s, room[s].i>>] /\ msg' = msg
      BY <1>5, <2>1 DEF RoomKick
    <3>2. turn' \in [Turns -> TurnStates] /\ rt' \in [Convos -> [Gens -> Runtimes]]
      BY <1>1, <1>2, <3>1, TurnTyped, RuntimeTyped
    <3>3. QED
      BY <1>3, <1>5, <3>1, <3>2 DEF RoomKick, TypeOK
  <2>2. CASE ~QueueStands(s)
    <3>1. RoomOver(s) /\ turn' = turn /\ msg' = Finalized(<<s, room[s].i>>, "interrupted")
      BY <1>5, <2>2 DEF RoomKick
    <3>2. msg' \in [Turns -> Rows]
      BY <1>2, <3>1, TurnTyped
    <3>3. QED
      BY <1>5, <3>1, <3>2, RoomTyped DEF RoomKick, TypeOK
  <2>3. QED
    BY <2>1, <2>2
<1>6. CASE RoomReplied(s)
  <2>1. RoomOver(s) \/ RoomNext(s)
    BY <1>6 DEF RoomReplied
  <2>2. QED
    BY <1>6, <2>1, RoomTyped DEF RoomReplied, TypeOK
<1>7. QED
  BY <1>4, <1>5, <1>6 DEF RoomStep

(* A reply's turn moves on.                                                *)
LEMMA TypeCompacts ==
  ASSUME TypeOK, NEW t \in Turns, NEW r \in [Convos -> [Gens -> Runtimes]], Compacts(t, r)
  PROVE  /\ turn' \in [Turns -> TurnStates]
         /\ rt' \in [Convos -> [Gens -> Runtimes]]
         /\ folds' \in Seq(Turns)
<1>1. turn \in [Turns -> TurnStates] /\ gen[ConvoOf(t)] \in Gens
  BY TurnFacts DEF TypeOK
<1>2. turn' \in [Turns -> TurnStates]
  BY <1>1 DEF Compacts, TurnStates
<1>3. rt' \in [Convos -> [Gens -> Runtimes]]
  <2>1. rt' = r \/ rt' = [r EXCEPT ![ConvoOf(t)][gen[ConvoOf(t)]].comp = t]
    BY DEF Compacts
  <2>2. ConvoOf(t) \in Convos
    BY TurnFacts
  <2>3. [r EXCEPT ![ConvoOf(t)][gen[ConvoOf(t)]].comp = t] \in [Convos -> [Gens -> Runtimes]]
    BY <1>1, <2>2, RuntimeTyped
  <2>4. QED
    BY <2>1, <2>3
<1>4. folds' \in Seq(Turns)
  <2>1. folds' = folds \/ folds' = Append(folds, t)
    BY DEF Compacts
  <2>2. folds \in Seq(Turns)
    BY DEF TypeOK
  <2>3. QED
    BY <2>1, <2>2
<1>5. QED
  BY <1>2, <1>3, <1>4

(* A turn leaves its runtime as current, as title or as compaction.        *)
LEMMA ClearedTyped ==
  ASSUME TypeOK, NEW t \in Turns, NEW g \in Gens
  PROVE  /\ Cleared(t, g) \in [Convos -> [Gens -> Runtimes]]
         /\ [rt EXCEPT ![ConvoOf(t)][g].titl = IF @ = t THEN None ELSE @] \in [Convos -> [Gens -> Runtimes]]
         /\ [rt EXCEPT ![ConvoOf(t)][g].comp = IF @ = t THEN None ELSE @] \in [Convos -> [Gens -> Runtimes]]
<1> DEFINE now(x) == IF x = t THEN None ELSE x
           r == rt[ConvoOf(t)][g]
<1>1. rt \in [Convos -> [Gens -> Runtimes]] /\ ConvoOf(t) \in Convos
  BY TurnFacts DEF TypeOK
<1>2. now(r.cur) \in Turns \cup {None} /\ now(r.titl) \in Turns \cup {None} /\ now(r.comp) \in Turns \cup {None}
  BY <1>1, RuntimeTyped
<1>3. QED
  BY <1>1, <1>2, RuntimeTyped DEF Cleared

(* Every step of a turn keeps the types.                                   *)
LEMMA TypeTurns ==
  ASSUME TypeInv, NEW t \in Turns, TurnStep(t) \/ ScrubThrows(t)
  PROVE  TypeOK'
<1>0. TypeOK /\ Queued
  BY DEF TypeInv
<1>a. turn \in [Turns -> TurnStates] /\ gen[ConvoOf(t)] \in Gens
  BY <1>0, TurnFacts DEF TypeOK
<1>b. /\ turn[t].own \in Gens /\ turn[t].in \in Gens /\ ConvoOf(t) \in Convos
      /\ rt \in [Convos -> [Gens -> Runtimes]]
  BY <1>0, TurnFacts DEF TypeOK, TurnStates
<1>1. CASE Acquire(t)
  <2>1. turn' \in [Turns -> TurnStates]
    BY <1>a, <1>1 DEF Acquire, TurnStates
  <2>2. QED
    BY <1>0, <1>1, <2>1 DEF Acquire, TypeOK
<1>2. CASE AcquireNothing(t)
  <2>1. /\ turn' \in [Turns -> TurnStates] /\ msg' \in [Turns -> Rows]
        /\ rt' \in [Convos -> [Gens -> Runtimes]]
    <3>1. /\ msg' \in {Finalized(t, "interrupted"), Finalized(t, "failed")}
          /\ turn' = Ended(t) /\ rt' = Cleared(t, turn[t].own)
      BY <1>2 DEF AcquireNothing, ParkInterrupted
    <3>2. turn' \in [Turns -> TurnStates] /\ msg' \in [Turns -> Rows]
      BY <1>0, <3>1, TurnTyped
    <3>3. QED
      BY <1>0, <1>b, <3>1, <3>2, ClearedTyped
  <2>2. QED
    BY <1>0, <1>2, <2>1 DEF AcquireNothing, TypeOK
<1>3. CASE Build(t)
  <2>1. turn' \in [Turns -> TurnStates]
    BY <1>a, <1>3, ZenonT(60) DEF Build, TurnStates
  <2>2. QED
    BY <1>0, <1>3, <2>1 DEF Build, TypeOK
<1>4. CASE BuildThrows(t)
  <2>1. turn' \in [Turns -> TurnStates]
    BY <1>a, <1>4 DEF BuildThrows, TurnStates
  <2>2. QED
    BY <1>0, <1>4, <2>1 DEF BuildThrows, TypeOK
<1>5. CASE ExecEnds(t)
  <2>1. turn' \in [Turns -> TurnStates]
    BY <1>a, <1>5 DEF ExecEnds, TurnStates
  <2>2. msg' \in [Turns -> Rows]
    BY <1>0, <1>5, TurnTyped DEF ExecEnds
  <2>3. QED
    BY <1>0, <1>5, <2>1, <2>2 DEF ExecEnds, TypeOK
<1>6. CASE Scrub(t)
  <2>1. Cleared(t, turn[t].in) \in [Convos -> [Gens -> Runtimes]]
    BY <1>0, <1>b, ClearedTyped
  <2>2. CASE Compacts(t, Cleared(t, turn[t].in))
    BY <1>0, <1>6, <2>1, <2>2, TypeCompacts DEF Scrub, TypeOK
  <2>3. CASE ~Compacts(t, Cleared(t, turn[t].in))
    <3>1. /\ \/ turn' = [turn EXCEPT ![t].pc = "teardown"]
             \/ turn' = [turn EXCEPT ![t].pc = "upkeep", ![t].in = gen[ConvoOf(t)]]
          /\ rt' = Cleared(t, turn[t].in) /\ folds' = folds
      BY <1>6, <2>3 DEF Scrub
    <3>2. turn' \in [Turns -> TurnStates]
      BY <1>a, <3>1 DEF TurnStates
    <3>3. QED
      BY <1>0, <1>6, <2>1, <3>1, <3>2 DEF Scrub, TypeOK
  <2>4. QED
    BY <2>2, <2>3
<1>7. CASE Title(t)
  <2>1. CASE Compacts(t, rt)
    BY <1>0, <1>b, <1>7, <2>1, TypeCompacts DEF Title, TypeOK
  <2>2. CASE ~Compacts(t, rt)
    <3>1. /\ turn' = [turn EXCEPT ![t].pc = "titling"]
          /\ rt' = [rt EXCEPT ![ConvoOf(t)][turn[t].in].titl = t] /\ folds' = folds
      BY <1>7, <2>2 DEF Title
    <3>2. turn' \in [Turns -> TurnStates]
      BY <1>a, <3>1 DEF TurnStates
    <3>3. rt' \in [Convos -> [Gens -> Runtimes]]
      BY <1>b, <3>1, RuntimeTyped
    <3>4. QED
      BY <1>0, <1>7, <3>1, <3>2, <3>3 DEF Title, TypeOK
  <2>3. QED
    BY <2>1, <2>2
<1>8. CASE TitleEnds(t)
  <2> DEFINE r == [rt EXCEPT ![ConvoOf(t)][turn[t].in].titl = IF @ = t THEN None ELSE @]
  <2>1. r \in [Convos -> [Gens -> Runtimes]]
    BY <1>0, <1>b, ClearedTyped
  <2>2. Compacts(t, r)
    BY <1>8 DEF TitleEnds
  <2> HIDE DEF r
  <2>3. QED
    BY <1>0, <1>8, <2>1, <2>2, TypeCompacts DEF TitleEnds, TypeOK
<1>9. CASE Fold(t)
  <2>1. turn' \in [Turns -> TurnStates]
    BY <1>a, <1>9 DEF Fold, TurnStates
  <2>2. QED
    BY <1>0, <1>9, <2>1 DEF Fold, TypeOK
<1>10. CASE FoldEnds(t)
  <2>1. turn' \in [Turns -> TurnStates]
    BY <1>a, <1>10 DEF FoldEnds, TurnStates
  <2>2. rt' \in [Convos -> [Gens -> Runtimes]]
    BY <1>0, <1>b, <1>10, ClearedTyped DEF FoldEnds
  <2>3. folds # <<>> /\ folds \in Seq(Turns)
    BY <1>0, <1>10 DEF FoldEnds, Queued, TypeOK
  <2>4. folds' \in Seq(Turns)
    BY <1>10, <2>3, TailTyped DEF FoldEnds
  <2>5. QED
    BY <1>0, <1>10, <2>1, <2>2, <2>4 DEF FoldEnds, TypeOK
<1>11. CASE Teardown(t)
  <2>1. turn' \in [Turns -> TurnStates] /\ rt' \in [Convos -> [Gens -> Runtimes]]
    BY <1>0, <1>b, <1>11, TurnTyped, ClearedTyped DEF Teardown
  <2>2. QED
    BY <1>0, <1>11, <2>1 DEF Teardown, TypeOK
<1>12. CASE FailLate(t)
  <2>1. /\ turn' \in [Turns -> TurnStates] /\ msg' \in [Turns -> Rows]
        /\ rt' \in [Convos -> [Gens -> Runtimes]]
    BY <1>0, <1>b, <1>12, TurnTyped, ClearedTyped DEF FailLate
  <2>2. QED
    BY <1>0, <1>12, <2>1 DEF FailLate, TypeOK
<1>13. CASE ScrubThrows(t)
  <2>1. turn' \in [Turns -> TurnStates]
    BY <1>a, <1>13 DEF ScrubThrows, TurnStates
  <2>2. mishaps' \in 0..MaxMishaps
    BY <1>0, <1>13, ChatAssumption DEF ScrubThrows, Mishap, TypeOK
  <2>3. QED
    BY <1>0, <1>13, <2>1, <2>2 DEF ScrubThrows, TypeOK
<1>14. QED
  BY <1>1, <1>2, <1>3, <1>4, <1>5, <1>6, <1>7, <1>8, <1>9, <1>10, <1>11, <1>12, <1>13 DEF TurnStep

(* A close tells one turn at most to stop.                                 *)
LEMMA CloseOnTyped ==
  ASSUME TypeOK, NEW c \in Convos, NEW n \in 1..4, CloseOn(c, n)
  PROVE  /\ turn' \in [Turns -> TurnStates]
         /\ closing' \in [Convos -> Closings]
         /\ gen' \in [Convos -> Gens]
<1>1. /\ turn \in [Turns -> TurnStates] /\ closing \in [Convos -> Closings] /\ gen \in [Convos -> Gens]
      /\ rt[c][gen[c]].cur \in Turns \cup {None}
      /\ rt[c][gen[c]].comp \in Turns \cup {None}
      /\ rt[c][gen[c]].titl \in Turns \cup {None}
      /\ 1 \in Gens
  <2>1. /\ turn \in [Turns -> TurnStates] /\ closing \in [Convos -> Closings]
        /\ gen \in [Convos -> Gens] /\ rt \in [Convos -> [Gens -> Runtimes]]
    BY DEF TypeOK
  <2>2. 1 \in Gens
    BY SMTT(40) DEF Gens
  <2>3. QED
    BY <2>1, <2>2, RuntimeTyped
<1>2. CASE closing' = [closing EXCEPT ![c] = [pc |-> "evicted", wait |-> None]]
  BY <1>1, <1>2, ZenonT(60) DEF CloseOn, Closings
<1>3. CASE closing' # [closing EXCEPT ![c] = [pc |-> "evicted", wait |-> None]]
  <2>1. PICK p \in n..3 : LET t == rt[c][gen[c]][Parts[p]] IN
           /\ t # None
           /\ turn' = [turn EXCEPT ![t].abort = @ \/ Parts[p] = "cur",
                                   ![t].compAbort = @ \/ Parts[p] = "comp"]
           /\ closing' = [closing EXCEPT ![c] = [pc |-> Parts[p], wait |-> t]]
           /\ gen' = gen
    BY <1>3, ZenonT(60) DEF CloseOn
  <2> DEFINE t == rt[c][gen[c]][Parts[p]]
  <2>2. Parts[p] \in {"cur", "comp", "titl"} /\ t \in Turns
    BY <1>1, <2>1 DEF Parts
  <2>3. turn' \in [Turns -> TurnStates]
    <3>1. PICK a \in BOOLEAN, b \in BOOLEAN :
             turn' = [turn EXCEPT ![t].abort = a, ![t].compAbort = b]
      BY <1>1, <2>1, <2>2, ZenonT(60)
    <3> HIDE DEF t
    <3>2. QED
      BY <1>1, <2>2, <3>1, ZenonT(60) DEF TurnStates
  <2>4. closing' \in [Convos -> Closings]
    BY <1>1, <2>1, <2>2 DEF Closings
  <2>5. QED
    BY <1>1, <2>1, <2>3, <2>4, ZenonT(60)
<1>4. QED
  BY <1>2, <1>3

(* And so do a cancelled reply, a close, a shutdown and a crash.           *)
LEMMA TypeOthers ==
  ASSUME TypeInv,
         \/ \E t \in Turns : CancelReply(t)
         \/ \E c \in Convos : CloseBegin(c) \/ CloseStep(c)
         \/ StopBegin \/ StopEnds \/ Crash
  PROVE  TypeOK'
<1>0. TypeOK
  BY DEF TypeInv
<1>m. Mishap => mishaps' \in 0..MaxMishaps
  BY <1>0, ChatAssumption DEF Mishap, TypeOK
<1>1. ASSUME NEW t \in Turns, CancelReply(t) PROVE TypeOK'
  <2>1. /\ room \in [Sends -> RoomStates] /\ t[1] \in Sends
        /\ \A q \in Sends : room[q].i <= Replies[q] /\ room[q].dropped \subseteq 1..Replies[q]
        /\ t[2] \in 1..Replies[t[1]] /\ t[2] \in Nat
    <3>1. t[1] \in Sends /\ t[2] \in 1..Replies[t[1]] /\ Replies[t[1]] \in Nat
      BY TurnFacts
    <3>2. t[2] \in Nat
      BY <3>1
    <3>3. QED
      BY <1>0, <3>1, <3>2 DEF TypeOK
  <2>2. room' = [room EXCEPT ![t[1]].dropped = @ \cup {t[2]}]
    BY <1>1 DEF CancelReply
  <2>3. room[t[1]].dropped \in SUBSET Nat
    BY <2>1 DEF RoomStates
  <2>4. PICK d \in SUBSET Nat : d = room[t[1]].dropped \cup {t[2]}
    BY <2>1, <2>3
  <2>5. room' = [room EXCEPT ![t[1]].dropped = d]
    BY <2>2, <2>4
  <2>6. room' \in [Sends -> RoomStates]
    BY <2>1, <2>5 DEF RoomStates
  <2>7. \A q \in Sends : room'[q].i = room[q].i /\ room'[q].dropped = IF q = t[1] THEN d ELSE room[q].dropped
    BY <2>1, <2>5 DEF RoomStates
  <2>8. \A q \in Sends : room'[q].i <= Replies[q] /\ room'[q].dropped \subseteq 1..Replies[q]
    BY <2>1, <2>4, <2>7
  <2>9. QED
    BY <1>0, <1>1, <2>6, <2>8 DEF CancelReply, TypeOK
<1>2. ASSUME NEW c \in Convos, CloseBegin(c) PROVE TypeOK'
  <2>1. rt' \in [Convos -> [Gens -> Runtimes]]
    BY <1>0, <1>2, RuntimeTyped DEF CloseBegin, TypeOK
  <2>2. CloseOn(c, 1) /\ 1 \in 1..4
    BY <1>2 DEF CloseBegin
  <2>3. /\ turn' \in [Turns -> TurnStates] /\ closing' \in [Convos -> Closings]
        /\ gen' \in [Convos -> Gens]
    BY <1>0, <2>2, CloseOnTyped
  <2>4. QED
    BY <1>0, <1>m, <1>2, <2>1, <2>3 DEF CloseBegin, TypeOK
<1>3. ASSUME NEW c \in Convos, CloseGoesOn(c) PROVE TypeOK'
  <2>1. PICK n \in 1..4 : CloseOn(c, n)
    <3>1. 2 \in 1..4 /\ 3 \in 1..4 /\ 4 \in 1..4
      OBVIOUS
    <3>2. QED
      BY <1>3, <3>1, Zenon DEF CloseGoesOn
  <2>2. /\ turn' \in [Turns -> TurnStates] /\ closing' \in [Convos -> Closings]
        /\ gen' \in [Convos -> Gens]
    BY <1>0, <2>1, CloseOnTyped
  <2>3. QED
    BY <1>0, <1>3, <2>2 DEF CloseGoesOn, TypeOK
<1>4. ASSUME NEW c \in Convos, CloseMark(c) PROVE TypeOK'
  <2>1. closing' \in [Convos -> Closings]
    BY <1>0, <1>4, ZenonT(60) DEF CloseMark, TypeOK, Closings
  <2>2. QED
    BY <1>0, <1>4, <2>1 DEF CloseMark, TypeOK
<1>5. CASE StopBegin
  <2>1. rt' \in [Convos -> [Gens -> Runtimes]]
    <3>1. rt' = [c \in Convos |-> [rt[c] EXCEPT ![gen[c]].queue = None]]
      BY <1>5 DEF StopBegin
    <3>2. ASSUME NEW c \in Convos PROVE [rt[c] EXCEPT ![gen[c]].queue = None] \in [Gens -> Runtimes]
      <4>1. rt[c] \in [Gens -> Runtimes] /\ gen[c] \in Gens /\ rt[c][gen[c]] \in Runtimes
        BY <1>0 DEF TypeOK
      <4>2. [rt[c][gen[c]] EXCEPT !.queue = None] \in Runtimes
        BY <4>1 DEF Runtimes
      <4>3. QED
        BY <4>1, <4>2
    <3>3. QED
      BY <3>1, <3>2
  <2>2. turn' \in [Turns -> TurnStates]
    BY <1>0, <1>5, TurnTyped DEF StopBegin
  <2>3. stop' \in [pc : {"up", "waiting", "stopped"}, turns : SUBSET Turns, rooms : SUBSET Sends]
    BY <1>5 DEF StopBegin
  <2>4. QED
    BY <1>0, <1>m, <1>5, <2>1, <2>2, <2>3 DEF StopBegin, TypeOK
<1>6. CASE StopEnds
  BY <1>0, <1>6 DEF StopEnds, TypeOK
<1>7. CASE Crash
  <2>0. 0 \in Gens /\ 1 \in Gens
    BY DEF Gens
  <2>1. msg' \in [Turns -> Rows] /\ gen' \in [Convos -> Gens]
    BY <1>7, <2>0 DEF Crash
  <2>2. chain' \in [Convos -> [Gens -> Seq(Sends)]] /\ folds' \in Seq(Turns)
    BY <1>7 DEF Crash
  <2>3. rt' \in [Convos -> [Gens -> Runtimes]]
    BY <1>7 DEF Crash, NoRuntime, Runtimes
  <2>4. send' \in [Sends -> SendStates]
    <3>1. NoSend \in SendStates /\ Sent \in SendStates
      BY <2>0 DEF NoSend, Sent, SendStates
    <3>2. QED
      BY <1>7, <3>1 DEF Crash
  <2>5. /\ room' \in [Sends -> RoomStates]
        /\ \A s \in Sends : room'[s].i <= Replies[s] /\ room'[s].dropped \subseteq 1..Replies[s]
    <3> DEFINE over == [NoRoom EXCEPT !.pc = "over"]
    <3>1. /\ NoRoom \in RoomStates /\ over \in RoomStates
          /\ NoRoom.i = 1 /\ over.i = 1 /\ NoRoom.dropped = {} /\ over.dropped = {}
      BY <2>0 DEF NoRoom, RoomStates
    <3>2. \A s \in Sends : room'[s] = NoRoom \/ room'[s] = over
      BY <1>7 DEF Crash
    <3>3. \A s \in Sends : 1 <= Replies[s]
      BY ChatAssumption
    <3> HIDE DEF over
    <3>4. room' \in [Sends -> RoomStates]
      BY <1>7, <3>1 DEF Crash, over
    <3>5. QED
      BY <3>1, <3>2, <3>3, <3>4
  <2>6. turn' \in [Turns -> TurnStates]
    <3>1. NoTurn \in TurnStates /\ [NoTurn EXCEPT !.pc = "over"] \in TurnStates
      BY <2>0 DEF NoTurn, TurnStates
    <3>2. QED
      BY <1>7, <3>1 DEF Crash
  <2>7. closing' \in [Convos -> Closings]
    <3>1. NotClosing \in Closings
      BY DEF NotClosing, Closings
    <3>2. QED
      BY <1>0, <1>7, <3>1 DEF Crash, TypeOK
  <2>8. stop' \in [pc : {"up", "waiting", "stopped"}, turns : SUBSET Turns, rooms : SUBSET Sends]
    BY <1>7 DEF Crash
  <2>9. QED
    BY <1>0, <1>m, <1>7, <2>1, <2>2, <2>3, <2>4, <2>5, <2>6, <2>7, <2>8 DEF Crash, TypeOK
<1>8. QED
  BY <1>1, <1>2, <1>3, <1>4, <1>5, <1>6, <1>7 DEF CloseStep

-----------------------------------------------------------------------------
(* What the actions leave alone                                            *)

(* A turn's own steps touch no send, queue, close or shutdown.             *)
LEMMA TurnFrame ==
  ASSUME NEW t \in Turns, TurnStep(t) \/ ScrubThrows(t)
  PROVE  UNCHANGED <<kind, gen, chain, send, room, closing, stop, last>>
  BY DEF TurnStep, Acquire, AcquireNothing, Build, BuildThrows, ExecEnds, Scrub, Title, TitleEnds,
         Fold, FoldEnds, Teardown, FailLate, ScrubThrows

(* A group queue touches no send.                                          *)
LEMMA RoomFrame ==
  ASSUME NEW s \in Sends, RoomStep(s)
  PROVE  UNCHANGED <<kind, gen, chain, send, folds, closing, stop, last, mishaps>>
  BY DEF RoomStep, RoomGate, RoomKick, RoomReplied

(* Telling turns to stop changes nothing else of them: what is left of a   *)
(* turn under way is where it is and the runtimes it knows.                *)
LEMMA SignalledOnly ==
  ASSUME TypeOK
  PROVE  \A A, C : \A t \in Turns :
            /\ Signalled(A, C)[t].pc = turn[t].pc
            /\ Signalled(A, C)[t].own = turn[t].own
            /\ Signalled(A, C)[t].in = turn[t].in
<1>1. turn \in [Turns -> TurnStates]
  BY DEF TypeOK
<1>2. QED
  BY <1>1, ZenonT(60) DEF Signalled, TurnStates

(* Nor does a close change anything else of a turn.                        *)
LEMMA CloseOnOnly ==
  ASSUME TypeOK, NEW c \in Convos, NEW n \in 1..4, CloseOn(c, n)
  PROVE  /\ \A t \in Turns : turn'[t].pc = turn[t].pc /\ turn'[t].own = turn[t].own /\ turn'[t].in = turn[t].in
         /\ gen' = gen \/ gen' = [gen EXCEPT ![c] = 1]
<1>1. turn \in [Turns -> TurnStates]
  BY DEF TypeOK
<1>2. CASE turn' = turn
  BY <1>2, ZenonT(60) DEF CloseOn
<1>3. CASE turn' # turn
  <2>1. PICK p \in n..3 :
           /\ turn' = [turn EXCEPT ![rt[c][gen[c]][Parts[p]]].abort = @ \/ Parts[p] = "cur",
                                   ![rt[c][gen[c]][Parts[p]]].compAbort = @ \/ Parts[p] = "comp"]
           /\ gen' = gen
    BY <1>3, ZenonT(60) DEF CloseOn
  <2> DEFINE t == rt[c][gen[c]][Parts[p]]
             a == turn[t].abort \/ Parts[p] = "cur"
             b == turn[t].compAbort \/ Parts[p] = "comp"
  <2>2. turn' = [turn EXCEPT ![t].abort = a, ![t].compAbort = b]
    BY <2>1, ZenonT(60)
  <2> HIDE DEF t, a, b
  <2>3. \A u \in Turns : turn'[u] = turn[u] \/ turn'[u] = [turn[u] EXCEPT !.abort = a, !.compAbort = b]
    BY <1>1, <2>2
  <2>4. \A r \in TurnStates : LET q == [r EXCEPT !.abort = a, !.compAbort = b] IN
                              q.pc = r.pc /\ q.own = r.own /\ q.in = r.in
    BY DEF TurnStates
  <2>5. QED
    BY <1>1, <2>1, <2>3, <2>4, ZenonT(60)
<1>4. QED
  BY <1>2, <1>3

(* A queue that stays where it is.                                         *)
SameRoom(s) == /\ room'[s].pc = room[s].pc /\ room'[s].i = room[s].i
               /\ room'[s].own = room[s].own /\ room'[s].in = room[s].in

(* A cancelled reply, a close and a shutdown start, end and move nothing.  *)
LEMMA OtherFrame ==
  ASSUME TypeOK,
         \/ \E t \in Turns : CancelReply(t)
         \/ \E c \in Convos : CloseBegin(c) \/ CloseStep(c)
         \/ StopBegin \/ StopEnds
  PROVE  /\ UNCHANGED <<kind, chain, send, msg, folds, last>>
         /\ \A t \in Turns : turn'[t].pc = turn[t].pc /\ turn'[t].own = turn[t].own /\ turn'[t].in = turn[t].in
         /\ gen' = gen \/ \E c \in Convos : gen' = [gen EXCEPT ![c] = 1]
         /\ \A s \in Sends : SameRoom(s)
         /\ \A c \in Convos, g \in Gens : /\ rt'[c][g].cur = rt[c][g].cur
                                          /\ rt'[c][g].queue \in {None, rt[c][g].queue}
<1>0. /\ room \in [Sends -> RoomStates] /\ turn \in [Turns -> TurnStates]
      /\ rt \in [Convos -> [Gens -> Runtimes]] /\ gen \in [Convos -> Gens]
  BY DEF TypeOK
<1>r. room' = room => \A s \in Sends : SameRoom(s)
  BY DEF SameRoom
<1>1. ASSUME NEW t \in Turns, CancelReply(t)
      PROVE  /\ UNCHANGED <<kind, gen, chain, rt, send, turn, msg, folds, last>>
             /\ \A s \in Sends : SameRoom(s)
  <2>1. room' = [room EXCEPT ![t[1]].dropped = @ \cup {t[2]}] /\ t[1] \in Sends
    BY <1>1, TurnFacts DEF CancelReply
  <2>2. \A s \in Sends : SameRoom(s)
    BY <1>0, <2>1 DEF SameRoom, RoomStates
  <2>3. QED
    BY <1>1, <2>2 DEF CancelReply
<1>2. ASSUME NEW c \in Convos, CloseBegin(c)
      PROVE  /\ UNCHANGED <<kind, chain, send, room, msg, folds, last>>
             /\ \A t \in Turns : turn'[t].pc = turn[t].pc /\ turn'[t].own = turn[t].own /\ turn'[t].in = turn[t].in
             /\ gen' = gen \/ gen' = [gen EXCEPT ![c] = 1]
             /\ \A d \in Convos, g \in Gens : /\ rt'[d][g].cur = rt[d][g].cur
                                              /\ rt'[d][g].queue \in {None, rt[d][g].queue}
  <2>1. CloseOn(c, 1) /\ 1 \in 1..4 /\ rt' = [rt EXCEPT ![c][gen[c]].queue = None]
    BY <1>2 DEF CloseBegin
  <2>2. gen[c] \in Gens
    BY <1>0
  <2>3. \A d \in Convos, g \in Gens : /\ rt'[d][g].cur = rt[d][g].cur
                                      /\ rt'[d][g].queue \in {None, rt[d][g].queue}
    BY <1>0, <2>1, <2>2 DEF Runtimes
  <2>4. QED
    BY <1>2, <2>1, <2>3, CloseOnOnly DEF CloseBegin
<1>3. ASSUME NEW c \in Convos, CloseStep(c)
      PROVE  /\ UNCHANGED <<kind, chain, rt, send, room, msg, folds, last>>
             /\ \A t \in Turns : turn'[t].pc = turn[t].pc /\ turn'[t].own = turn[t].own /\ turn'[t].in = turn[t].in
             /\ gen' = gen \/ gen' = [gen EXCEPT ![c] = 1]
  <2>1. CASE CloseMark(c)
    BY <2>1 DEF CloseMark
  <2>2. CASE CloseGoesOn(c)
    <3>1. 2 \in 1..4 /\ 3 \in 1..4 /\ 4 \in 1..4
      OBVIOUS
    <3>2. PICK n \in 1..4 : CloseOn(c, n)
      BY <2>2, <3>1, Zenon DEF CloseGoesOn
    <3>3. QED
      BY <2>2, <3>2, CloseOnOnly DEF CloseGoesOn
  <2>3. QED
    BY <1>3, <2>1, <2>2 DEF CloseStep
<1>4. CASE StopBegin
  <2>1. /\ UNCHANGED <<kind, gen, chain, send, room, msg, folds, last>>
        /\ rt' = [c \in Convos |-> [rt[c] EXCEPT ![gen[c]].queue = None]]
    BY <1>4 DEF StopBegin
  <2>2. \A t \in Turns : turn'[t].pc = turn[t].pc /\ turn'[t].own = turn[t].own /\ turn'[t].in = turn[t].in
    BY <1>4, SignalledOnly DEF StopBegin
  <2>3. \A d \in Convos, g \in Gens : /\ rt'[d][g].cur = rt[d][g].cur
                                      /\ rt'[d][g].queue \in {None, rt[d][g].queue}
    BY <1>0, <2>1 DEF Runtimes
  <2>4. QED
    BY <1>0, <1>r, <2>1, <2>2, <2>3
<1>5. CASE StopEnds
  BY <1>0, <1>r, <1>5 DEF StopEnds
<1>6. QED
  BY <1>0, <1>r, <1>1, <1>2, <1>3, <1>4, <1>5

-----------------------------------------------------------------------------
(* Chains                                                                  *)

(* The chain loses the send at its head.                                   *)
LEMMA ChainedAfter ==
  ASSUME TypeInv, NEW s \in Sends, send[s].pc \in Ahead,
         send' = [send EXCEPT ![s] = Sent],
         chain' = [chain EXCEPT ![At[s]][send[s].in] = Tail(@)]
  PROVE  Chained'
<1>1. /\ send \in [Sends -> SendStates] /\ chain \in [Convos -> [Gens -> Seq(Sends)]]
      /\ At[s] \in Convos /\ send[s].in \in Gens
  BY SendTyped DEF TypeInv, TypeOK
<1> DEFINE q == chain[At[s]][send[s].in]
<1>2. q \in Seq(Sends) /\ q # <<>> /\ Head(q) = s
  BY <1>1 DEF TypeInv, Chained, Linked
<1>3. /\ Len(q) \in Nat /\ Len(Tail(q)) = Len(q) - 1 /\ q[1] = s
      /\ \A i \in 1..Len(Tail(q)) : Tail(q)[i] = q[i + 1]
  BY <1>2, TailTyped
<1> SUFFICES ASSUME NEW u \in Sends, u # s
             PROVE  Linked(u, send[u].pc, chain'[At[u]][send[u].in])
  <2>1. send'[s].pc = "sent" /\ \A u \in Sends \ {s} : send'[u] = send[u]
    BY <1>1 DEF Sent, NoSend
  <2>2. Linked(s, send'[s].pc, chain'[At[s]][send'[s].in])
    BY <2>1 DEF Ahead, Linked
  <2>3. QED
    BY <2>1, <2>2 DEF Chained
<1>4. At[u] \in Convos /\ send[u].in \in Gens
  BY SendTyped DEF TypeInv
<1>5. CASE At[u] = At[s] /\ send[u].in = send[s].in
  <2>1. chain'[At[u]][send[u].in] = Tail(q)
    BY <1>1, <1>5
  <2>2. send[u].pc \notin Ahead
    BY <1>2, <1>5 DEF TypeInv, Chained, Linked
  <2>3. ASSUME send[u].pc = "chained" PROVE \E i \in 1..Len(Tail(q)) : Tail(q)[i] = u
    <3>1. PICK i \in 1..Len(q) : q[i] = u
      BY <1>5, <2>3 DEF TypeInv, Chained, Linked
    <3>2. i # 1
      BY <1>3, <3>1
    <3>3. i - 1 \in 1..Len(Tail(q)) /\ (i - 1) + 1 = i
      BY <1>3, <3>1, <3>2
    <3>4. QED
      BY <1>3, <3>1, <3>3
  <2> HIDE DEF q
  <2>4. QED
    BY <2>1, <2>2, <2>3 DEF Linked
<1>6. CASE ~(At[u] = At[s] /\ send[u].in = send[s].in)
  <2>1. chain'[At[u]][send[u].in] = chain[At[u]][send[u].in]
    BY <1>1, <1>4, <1>6
  <2>2. QED
    BY <2>1 DEF TypeInv, Chained
<1>7. QED
  BY <1>5, <1>6

(* Every step keeps the messages chained.                                  *)
LEMMA ChainedStep ==
  ASSUME TypeInv, Next
  PROVE  Chained'
<1>0. TypeOK /\ Chained /\ send \in [Sends -> SendStates] /\ chain \in [Convos -> [Gens -> Seq(Sends)]]
  BY DEF TypeInv, TypeOK
<1>1. CASE UNCHANGED <<send, chain>>
  BY <1>0, <1>1 DEF Chained
<1>2. ASSUME NEW s \in Sends, Post(s) PROVE Chained'
  <2>1. At[s] \in Convos /\ gen[At[s]] \in Gens
    BY <1>0, SendTyped
  <2> DEFINE q == chain[At[s]][gen[At[s]]]
  <2>2. /\ send' = [send EXCEPT ![s].pc = "chained", ![s].in = gen[At[s]]]
        /\ chain' = [chain EXCEPT ![At[s]][gen[At[s]]] = Append(q, s)]
    BY <1>2 DEF Post
  <2>3. /\ send'[s].pc = "chained" /\ send'[s].in = gen[At[s]]
        /\ \A u \in Sends \ {s} : send'[u] = send[u]
    BY <1>0, <2>2 DEF SendStates
  <2>4. q \in Seq(Sends)
    BY <1>0, <2>1
  <2> HIDE DEF q
  <2>5. /\ Len(q) \in Nat /\ Len(Append(q, s)) = Len(q) + 1 /\ Append(q, s)[Len(q) + 1] = s
        /\ \A i \in 1..Len(q) : Append(q, s)[i] = q[i]
        /\ Append(q, s) # <<>> /\ (q # <<>> => Head(Append(q, s)) = Head(q))
    BY <2>4
  <2>6. chain'[At[s]][gen[At[s]]] = Append(q, s)
    BY <1>0, <2>1, <2>2
  <2>7. \E i \in 1..Len(Append(q, s)) : Append(q, s)[i] = s
    BY <2>5
  <2>8. ASSUME NEW u \in Sends, u # s
        PROVE  Linked(u, send[u].pc, chain'[At[u]][send[u].in])
    <3>0. At[u] \in Convos /\ send[u].in \in Gens
      BY <1>0, SendTyped
    <3>1. CASE At[u] = At[s] /\ send[u].in = gen[At[s]]
      <4>1. /\ send[u].pc = "chained" => \E i \in 1..Len(q) : q[i] = u
            /\ send[u].pc \in Ahead => q # <<>> /\ Head(q) = u
        BY <1>0, <3>1 DEF Chained, Linked, q
      <4>2. 1..Len(q) \subseteq 1..Len(Append(q, s))
        BY <2>5
      <4>3. QED
        BY <2>5, <2>6, <3>1, <4>1, <4>2 DEF Linked
    <3>2. CASE ~(At[u] = At[s] /\ send[u].in = gen[At[s]])
      <4>1. chain'[At[u]][send[u].in] = chain[At[u]][send[u].in]
        BY <1>0, <2>1, <2>2, <3>0, <3>2
      <4>2. QED
        BY <1>0, <4>1 DEF Chained
    <3>3. QED
      BY <3>1, <3>2
  <2>9. Linked(s, send'[s].pc, chain'[At[s]][send'[s].in])
    BY <2>3, <2>6, <2>7 DEF Linked, Ahead
  <2>10. QED
    BY <2>3, <2>8, <2>9 DEF Chained
<1>3. ASSUME NEW s \in Sends, Begin(s) PROVE Chained'
  <2>1. /\ send'[s].pc = "comp" /\ send'[s].in = send[s].in
        /\ \A u \in Sends \ {s} : send'[u] = send[u]
    BY <1>0, <1>3, SMTT(40) DEF Begin, SendStates
  <2>2. LET ch == chain[At[s]][send[s].in] IN ch # <<>> /\ Head(ch) = s
    BY <1>0, <1>3, SendTyped DEF Begin, Chained, Linked
  <2>3. chain' = chain
    BY <1>3 DEF Begin
  <2>4. Linked(s, send'[s].pc, chain'[At[s]][send'[s].in])
    BY <2>1, <2>2, <2>3 DEF Linked
  <2>5. QED
    BY <1>0, <2>1, <2>3, <2>4 DEF Chained
<1>4. ASSUME NEW s \in Sends, StopTitling(s) \/ Interrupt(s) \/ Store(s) PROVE Chained'
  <2>1. /\ send'[s].pc \in {"title", "cur", "gate"} /\ send'[s].in = send[s].in
        /\ send[s].pc \in Ahead
        /\ \A u \in Sends \ {s} : send'[u] = send[u]
    BY <1>0, <1>4 DEF StopTitling, Interrupt, Store, SendStates, Ahead
  <2>2. chain' = chain
    BY <1>4 DEF StopTitling, Interrupt, Store
  <2>3. Linked(s, send'[s].pc, chain'[At[s]][send'[s].in])
    BY <1>0, <2>1, <2>2 DEF Chained, Linked, Ahead
  <2>4. QED
    BY <1>0, <2>1, <2>2, <2>3 DEF Chained
<1>5. ASSUME NEW s \in Sends, Refuse(s) \/ KickTurn(s) \/ KickQueue(s) PROVE Chained'
  <2>1. /\ send[s].pc \in Ahead /\ send' = [send EXCEPT ![s] = Sent]
        /\ chain' = [chain EXCEPT ![At[s]][send[s].in] = Tail(@)]
    BY <1>5 DEF Refuse, KickTurn, KickQueue, Unchained, Ahead
  <2>2. QED
    BY <2>1, ChainedAfter
<1>6. CASE Crash
  <2>1. \A s \in Sends : send'[s].pc \in {"new", "sent"}
    BY <1>6 DEF Crash, NoSend, Sent
  <2>2. QED
    BY <2>1 DEF Chained, Linked, Ahead
<1>7. QED
  <2>1. CASE \E s \in Sends : Post(s) \/ SendStep(s)
    BY <2>1, <1>2, <1>3, <1>4, <1>5 DEF SendStep
  <2>2. CASE \/ \E s \in Sends : RoomStep(s)
             \/ \E t \in Turns : TurnStep(t) \/ ScrubThrows(t)
    BY <2>2, <1>1, RoomFrame, TurnFrame
  <2>3. CASE \/ \E t \in Turns : CancelReply(t)
             \/ \E c \in Convos : CloseBegin(c) \/ CloseStep(c)
             \/ StopBegin \/ StopEnds
    BY <2>3, <1>0, <1>1, OtherFrame
  <2>4. QED
    BY <1>6, <2>1, <2>2, <2>3 DEF Next

-----------------------------------------------------------------------------
(* The members' memory                                                     *)

(* A turn that is not about to fold, or whose compaction is the newest.    *)
LEMMA QueuedAppend ==
  ASSUME TypeInv, NEW t \in Turns, turn[t].pc \notin {"parked", "folding"},
         \A u \in Turns \ {t} : turn'[u].pc = turn[u].pc,
         \/ folds' = folds /\ turn'[t].pc \notin {"parked", "folding"}
         \/ folds' = Append(folds, t) /\ turn'[t].pc = "parked"
  PROVE  Queued'
<1>1. folds \in Seq(Turns) /\ Queued
  BY DEF TypeInv, TypeOK
<1>2. CASE folds' = folds /\ turn'[t].pc \notin {"parked", "folding"}
  BY <1>1, <1>2 DEF Queued
<1>3. CASE folds' = Append(folds, t) /\ turn'[t].pc = "parked"
  <2>1. /\ Len(folds) \in Nat /\ Len(folds') = Len(folds) + 1 /\ folds'[Len(folds) + 1] = t
        /\ \A i \in 1..Len(folds) : folds'[i] = folds[i]
        /\ folds' # <<>> /\ (folds # <<>> => Head(folds') = Head(folds))
        /\ 1..Len(folds) \subseteq 1..Len(folds')
    BY <1>1, <1>3
  <2>2. \E i \in 1..Len(folds') : folds'[i] = t
    BY <2>1
  <2>3. turn'[t].pc # "folding"
    BY <1>3
  <2>4. ASSUME NEW u \in Turns, u # t
        PROVE  /\ turn'[u].pc = "parked" => \E i \in 1..Len(folds') : folds'[i] = u
               /\ turn'[u].pc = "folding" => folds' # <<>> /\ Head(folds') = u
    <3>1. /\ turn[u].pc = "parked" => \E i \in 1..Len(folds) : folds[i] = u
          /\ turn[u].pc = "folding" => folds # <<>> /\ Head(folds) = u
          /\ turn'[u].pc = turn[u].pc
      BY <1>1, <2>4 DEF Queued
    <3>2. QED
      BY <2>1, <3>1
  <2>5. QED
    BY <2>2, <2>3, <2>4 DEF Queued
<1>4. QED
  BY <1>2, <1>3

(* The compaction at the head is done.                                     *)
LEMMA QueuedTail ==
  ASSUME TypeInv, NEW t \in Turns, FoldEnds(t)
  PROVE  Queued'
<1>1. folds \in Seq(Turns) /\ Queued /\ turn \in [Turns -> TurnStates]
  BY DEF TypeInv, TypeOK
<1>2. folds # <<>> /\ Head(folds) = t
  BY <1>1 DEF FoldEnds, Queued
<1>3. /\ Len(folds) \in Nat /\ Len(Tail(folds)) = Len(folds) - 1 /\ folds[1] = t
      /\ \A i \in 1..Len(Tail(folds)) : Tail(folds)[i] = folds[i + 1]
  BY <1>1, <1>2, TailTyped
<1>4. folds' = Tail(folds) /\ turn' = [turn EXCEPT ![t].pc = "teardown"]
  BY DEF FoldEnds
<1>5. turn'[t].pc = "teardown" /\ \A u \in Turns \ {t} : turn'[u] = turn[u]
  BY <1>1, <1>4 DEF TurnStates
<1>6. ASSUME NEW u \in Turns, u # t
      PROVE  /\ turn[u].pc = "parked" => \E i \in 1..Len(Tail(folds)) : Tail(folds)[i] = u
             /\ turn[u].pc # "folding"
  <2>1. turn[u].pc # "folding"
    BY <1>1, <1>2, <1>6 DEF Queued
  <2>2. ASSUME turn[u].pc = "parked" PROVE \E i \in 1..Len(Tail(folds)) : Tail(folds)[i] = u
    <3>1. PICK i \in 1..Len(folds) : folds[i] = u
      BY <1>1, <2>2 DEF Queued
    <3>2. i # 1
      BY <1>3, <1>6, <3>1
    <3>3. i - 1 \in 1..Len(Tail(folds)) /\ (i - 1) + 1 = i
      BY <1>3, <3>1, <3>2
    <3>4. QED
      BY <1>3, <3>1, <3>3
  <2>3. QED
    BY <2>1, <2>2
<1>7. QED
  BY <1>4, <1>5, <1>6 DEF Queued

(* A compaction of t begins to wait, or it goes to its teardown.           *)
LEMMA CompactsPc ==
  ASSUME TypeOK, NEW t \in Turns, NEW r, Compacts(t, r)
  PROVE  /\ \A u \in Turns \ {t} : turn'[u] = turn[u]
         /\ turn'[t].own = turn[t].own
         /\ turn'[t].in \in {turn[t].in, gen[ConvoOf(t)]}
         /\ turn'[t].pc \in {"teardown", "parked"}
         /\ \/ folds' = folds /\ turn'[t].pc = "teardown"
            \/ folds' = Append(folds, t) /\ turn'[t].pc = "parked"
<1>1. turn \in [Turns -> TurnStates]
  BY DEF TypeOK
<1>2. QED
  BY <1>1 DEF Compacts, TurnStates

(* Where one step of a turn takes it.                                      *)
LEMMA TurnMoves ==
  ASSUME TypeOK, NEW t \in Turns, TurnStep(t) \/ ScrubThrows(t)
  PROVE  /\ \A u \in Turns \ {t} : turn'[u] = turn[u]
         /\ turn'[t].own \in {0, turn[t].own}
         /\ turn'[t].in \in {0, turn[t].in, gen[ConvoOf(t)]}
         /\ turn'[t].pc # "acquire"
         /\ turn'[t].pc \in {"build", "exec", "scrub"} => Replying(t)
         /\ turn'[t].pc = "folding" => Fold(t)
         /\ ~Fold(t) /\ ~FoldEnds(t) =>
               /\ turn[t].pc \notin {"parked", "folding"}
               /\ \/ folds' = folds /\ turn'[t].pc \notin {"parked", "folding"}
                  \/ folds' = Append(folds, t) /\ turn'[t].pc = "parked"
<1>1. turn \in [Turns -> TurnStates]
  BY DEF TypeOK
<1> USE <1>1 DEF Replying
<1>2. CASE Acquire(t) \/ BuildThrows(t) \/ ScrubThrows(t)
  BY <1>2 DEF Acquire, BuildThrows, ScrubThrows, TurnStates
<1>3. CASE Build(t)
  BY <1>3 DEF Build, TurnStates
<1>4. CASE ExecEnds(t)
  BY <1>4 DEF ExecEnds, TurnStates
<1>5. CASE AcquireNothing(t) \/ Teardown(t) \/ FailLate(t)
  <2>1. turn' = Ended(t) /\ folds' = folds /\ turn[t].pc \notin {"parked", "folding"}
    BY <1>5 DEF AcquireNothing, Teardown, FailLate
  <2>2. /\ Ended(t)[t].pc = "over" /\ Ended(t)[t].own = 0 /\ Ended(t)[t].in = 0
        /\ \A u \in Turns \ {t} : Ended(t)[u] = turn[u]
    BY DEF Ended, NoTurn
  <2>3. QED
    BY <2>1, <2>2
<1>6. CASE Scrub(t)
  <2>1. turn[t].pc = "scrub"
    BY <1>6 DEF Scrub
  <2>2. CASE Compacts(t, Cleared(t, turn[t].in))
    BY <2>1, <2>2, CompactsPc
  <2>3. CASE ~Compacts(t, Cleared(t, turn[t].in))
    <3>1. /\ \/ turn' = [turn EXCEPT ![t].pc = "teardown"]
             \/ turn' = [turn EXCEPT ![t].pc = "upkeep", ![t].in = gen[ConvoOf(t)]]
          /\ folds' = folds
      BY <1>6, <2>3 DEF Scrub
    <3>2. QED
      BY <2>1, <3>1 DEF TurnStates
  <2>4. QED
    BY <2>2, <2>3
<1>7. CASE Title(t)
  <2>1. turn[t].pc = "upkeep"
    BY <1>7 DEF Title
  <2>2. CASE Compacts(t, rt)
    BY <2>1, <2>2, CompactsPc
  <2>3. CASE ~Compacts(t, rt)
    <3>1. turn' = [turn EXCEPT ![t].pc = "titling"] /\ folds' = folds
      BY <1>7, <2>3 DEF Title
    <3>2. QED
      BY <2>1, <3>1 DEF TurnStates
  <2>4. QED
    BY <2>2, <2>3
<1>8. CASE TitleEnds(t)
  <2>1. PICK r : turn[t].pc = "titling" /\ Compacts(t, r)
    BY <1>8 DEF TitleEnds
  <2>2. QED
    BY <2>1, CompactsPc
<1>9. CASE Fold(t)
  BY <1>9 DEF Fold, TurnStates
<1>10. CASE FoldEnds(t)
  BY <1>10 DEF FoldEnds, TurnStates
<1>11. QED
  BY <1>2, <1>3, <1>4, <1>5, <1>6, <1>7, <1>8, <1>9, <1>10 DEF TurnStep

(* Every step keeps the compactions queued.                                *)
LEMMA QueuedStep ==
  ASSUME TypeInv, Next
  PROVE  Queued'
<1>0. TypeOK /\ Queued /\ turn \in [Turns -> TurnStates]
  BY DEF TypeInv, TypeOK
<1>1. ASSUME folds' = folds, \A t \in Turns : turn'[t].pc = turn[t].pc PROVE Queued'
  BY <1>0, <1>1 DEF Queued
<1>2. ASSUME NEW t \in Turns, TurnStep(t) \/ ScrubThrows(t) PROVE Queued'
  <2>1. CASE Fold(t)
    <3>1. turn'[t].pc = "folding" /\ \A u \in Turns \ {t} : turn'[u] = turn[u]
      BY <1>0, <2>1 DEF Fold, TurnStates
    <3>2. folds # <<>> /\ Head(folds) = t /\ folds' = folds
      BY <1>0, <2>1 DEF Fold, Queued, TypeOK
    <3>3. turn'[t].pc # "parked"
      BY <3>1
    <3>4. QED
      BY <1>0, <3>1, <3>2, <3>3 DEF Queued
  <2>2. CASE FoldEnds(t)
    BY <2>2, QueuedTail
  <2>3. CASE ~Fold(t) /\ ~FoldEnds(t)
    BY <1>0, <1>2, <2>3, TurnMoves, QueuedAppend
  <2>4. QED
    BY <2>1, <2>2, <2>3
<1>3. ASSUME NEW s \in Sends, KickTurn(s) \/ RoomKick(s) PROVE Queued'
  <2>1. folds' = folds
    BY <1>3 DEF KickTurn, RoomKick
  <2>2. CASE turn' = turn
    BY <1>1, <2>1, <2>2
  <2>3. CASE turn' # turn
    <3>1. PICK t \in Turns : turn' = Started(t)
      <4>1. <<s, 1>> \in Turns /\ <<s, room[s].i>> \in Turns
        BY <1>0, RoomTurn
      <4>2. QED
        BY <1>3, <2>3, <4>1, ZenonT(60) DEF KickTurn, RoomKick
    <3>2. turn'[t].pc = "acquire" /\ \A u \in Turns \ {t} : turn'[u] = turn[u]
      BY <1>0, <3>1 DEF Started, NoTurn
    <3>3. QED
      BY <1>0, <2>1, <3>2 DEF Queued
  <2>4. QED
    BY <2>2, <2>3
<1>4. ASSUME NEW s \in Sends, Post(s) \/ Begin(s) \/ StopTitling(s) \/ Interrupt(s) \/ Store(s)
                              \/ Refuse(s) \/ KickQueue(s)
      PROVE Queued'
  <2>1. folds' = folds
    BY <1>4, ZenonT(60) DEF Post, Begin, StopTitling, Interrupt, Store, Refuse, KickQueue
  <2>2. turn' = turn \/ \E A, C : turn' = Signalled(A, C)
    BY <1>4, Zenon DEF Post, Begin, StopTitling, Interrupt, Store, Refuse, KickQueue
  <2>3. QED
    BY <1>0, <1>1, <2>1, <2>2, SignalledOnly
<1>5. ASSUME NEW s \in Sends, RoomGate(s) \/ RoomReplied(s) PROVE Queued'
  BY <1>1, <1>5 DEF RoomGate, RoomReplied
<1>6. CASE \/ \E t \in Turns : CancelReply(t)
           \/ \E c \in Convos : CloseBegin(c) \/ CloseStep(c)
           \/ StopBegin \/ StopEnds
  BY <1>0, <1>1, <1>6, OtherFrame
<1>7. CASE Crash
  <2>1. \A t \in Turns : turn'[t].pc \in {"none", "over"}
    BY <1>7 DEF Crash, NoTurn
  <2>2. QED
    BY <2>1 DEF Queued
<1>8. QED
  BY <1>2, <1>3, <1>4, <1>5, <1>6, <1>7 DEF Next, SendStep, RoomStep

(* The types hold at first.                                                *)
LEMMA InitTyped == Init => TypeInv
<1> SUFFICES ASSUME Init PROVE TypeInv
  OBVIOUS
<1>0. 0 \in Gens
  BY DEF Gens
<1>1. NoRuntime \in Runtimes /\ NoSend \in SendStates /\ NoTurn \in TurnStates
  BY <1>0 DEF NoRuntime, Runtimes, NoSend, SendStates, NoTurn, TurnStates
<1>2. NoRoom \in RoomStates /\ NoRoom.i = 1 /\ NoRoom.dropped = {} /\ NotClosing \in Closings
  BY <1>0 DEF NoRoom, RoomStates, NotClosing, Closings
<1>3. \A s \in Sends : room[s].i <= Replies[s] /\ room[s].dropped \subseteq 1..Replies[s]
  BY <1>2, ChatAssumption DEF Init
<1>4. TypeOK
  BY <1>0, <1>1, <1>2, <1>3, ChatAssumption DEF Init, TypeOK, Rows
<1>5. Chained /\ Queued
  BY DEF Init, Chained, Linked, Queued, NoSend, NoTurn, Ahead
<1>6. QED
  BY <1>4, <1>5 DEF TypeInv

(* Every step keeps them.                                                  *)
LEMMA TypeInvStep ==
  ASSUME TypeInv, Next
  PROVE  TypeInv'
<1>1. TypeOK'
  BY TypeSends, TypeRooms, TypeTurns, TypeOthers DEF Next
<1>2. QED
  BY <1>1, ChainedStep, QueuedStep DEF TypeInv

(* The types hold in every reachable state: every wait names a turn, every *)
(* chain holds messages, and no step takes from an empty one.              *)
THEOREM TypeCorrect == Spec => []TypeOK
<1>1. TypeInv /\ UNCHANGED vars => TypeInv'
  BY DEF TypeInv, TypeOK, Chained, Linked, Queued, vars
<1>2. TypeInv => TypeOK
  BY DEF TypeInv
<1>3. QED
  BY <1>1, <1>2, InitTyped, TypeInvStep, PTL DEF Spec

-----------------------------------------------------------------------------
(* Rows                                                                    *)

(* What writes to the rows but the insertion of one: a row that is not     *)
(* there or no longer streaming is left alone.                             *)
LEMMA FinalizedKeeps ==
  ASSUME TypeOK, NEW t \in Turns, NEW x, msg' = msg \/ msg' = Finalized(t, x)
  PROVE  \A u \in Turns : msg[u] # "streaming" => msg'[u] = msg[u]
  BY DEF TypeOK, Finalized

(* A turn writes to its own row only, and only while it streams.           *)
LEMMA TurnWrites ==
  ASSUME TypeOK, NEW t \in Turns, TurnStep(t) \/ ScrubThrows(t)
  PROVE  \A u \in Turns : msg[u] # "streaming" => msg'[u] = msg[u]
<1>1. \E x : msg' = msg \/ msg' = Finalized(t, x)
  BY Zenon DEF TurnStep, Acquire, AcquireNothing, ParkInterrupted, Build, BuildThrows, ExecEnds, Scrub, Title,
         TitleEnds, Fold, FoldEnds, Teardown, FailLate, ScrubThrows
<1>2. QED
  BY <1>1, FinalizedKeeps

(* The rows of a queue that goes on are those after the one it was at.     *)
LEMMA RoomOnward ==
  ASSUME TypeOK, NEW s \in Sends, RoomNext(s) \/ RoomOver(s)
  PROVE  /\ \A q \in Sends \ {s} : room'[q] = room[q]
         /\ \/ room'[s].pc = "over" /\ room'[s].own = 0 /\ room'[s].in = 0
            \/ /\ room'[s].pc = "gate" /\ room'[s].i \in (room[s].i + 1)..Replies[s] /\ UNCHANGED rt
               /\ room'[s].own = room[s].own /\ room'[s].in = gen[At[s]]
               /\ rt[At[s]][room[s].own].queue = s
<1>1. room \in [Sends -> RoomStates]
  BY DEF TypeOK
<1>2. CASE RoomOver(s)
  BY <1>1, <1>2 DEF RoomOver, NoRoom
<1>3. CASE ~RoomOver(s)
  <2>1. PICK i \in Pending(s) :
           room' = [room EXCEPT ![s].pc = "gate", ![s].in = gen[At[s]], ![s].i = i]
    BY <1>3 DEF RoomNext
  <2>2. i \in (room[s].i + 1)..Replies[s]
    BY <2>1 DEF Pending
  <2>3. UNCHANGED rt /\ rt[At[s]][room[s].own].queue = s
    BY <1>3 DEF RoomNext
  <2>4. QED
    BY <1>1, <2>1, <2>2, <2>3 DEF RoomStates
<1>4. QED
  BY <1>2, <1>3

(* Nothing that has come to its end is written again, and what is still to *)
(* come stays to come.                                                     *)
LEMMA FreshStep ==
  ASSUME TypeInv, Fresh, Next
  PROVE  /\ Fresh'
         /\ \A t \in Turns : msg[t] \in {"complete", "interrupted", "failed"} => msg'[t] = msg[t]
<1>0. TypeOK /\ send \in [Sends -> SendStates] /\ room \in [Sends -> RoomStates] /\ msg \in [Turns -> Rows]
  BY DEF TypeInv, TypeOK
<1>k. ASSUME \A u \in Turns : msg[u] # "streaming" => msg'[u] = msg[u]
      PROVE  /\ \A s \in Sends, n \in Nat \ {0} : NotYet(s, n) => NotYet(s, n)'
             /\ \A t \in Turns : msg[t] \in {"complete", "interrupted", "failed"} => msg'[t] = msg[t]
  BY <1>k, TurnFacts DEF NotYet
<1>i. \A s \in Sends : room[s].i \in Nat \ {0} /\ room[s].i + 1 \in Nat \ {0} /\ 1 \in Nat \ {0}
  BY <1>0 DEF RoomStates
<1>g. \A s \in Sends : room[s].pc = "gate" => msg[<<s, room[s].i>>] = "none"
  <2>1. ASSUME NEW s \in Sends PROVE room[s].i \in room[s].i..Replies[s]
    <3>1. room[s].i \in 1..Replies[s] /\ Replies[s] \in Nat
      BY <1>0, RoomTurn, TurnFacts, ZenonT(60)
    <3>2. QED
      BY <3>1
  <2>2. QED
    BY <2>1 DEF Fresh, NotYet
<1>1. ASSUME UNCHANGED <<send, room>>, \A u \in Turns : msg[u] # "streaming" => msg'[u] = msg[u]
      PROVE  Fresh'
  BY <1>1, <1>k, <1>i DEF Fresh
<1>2. ASSUME NEW s \in Sends, Post(s) \/ Begin(s) \/ StopTitling(s) \/ Interrupt(s) \/ Store(s) \/ Refuse(s)
      PROVE  Fresh' /\ msg' = msg
  <2>1. room' = room /\ msg' = msg /\ \A u \in Sends \ {s} : send'[u] = send[u]
    BY <1>0, <1>2, ZenonT(60) DEF Post, Begin, StopTitling, Interrupt, Store, Refuse
  <2>2. send[s].pc # "sent"
    BY <1>2, ZenonT(60) DEF Post, Begin, StopTitling, Interrupt, Store, Refuse
  <2>3. \A u \in Sends, n \in Nat \ {0} : NotYet(u, n)' <=> NotYet(u, n)
    BY <2>1 DEF NotYet
  <2>4. QED
    BY <2>1, <2>2, <2>3, <1>i DEF Fresh
<1>3. ASSUME NEW s \in Sends, KickTurn(s)
      PROVE  Fresh' /\ \A t \in Turns : msg[t] # "none" => msg'[t] = msg[t]
  <2>1. /\ room' = room /\ msg' = [msg EXCEPT ![<<s, 1>>] = "streaming"]
        /\ send' = [send EXCEPT ![s] = Sent]
    BY <1>3 DEF KickTurn
  <2>2. send'[s].pc = "sent" /\ \A u \in Sends \ {s} : send'[u] = send[u]
    BY <1>0, <2>1 DEF Sent, NoSend
  <2>3. room[s].pc = "none" /\ msg[<<s, 1>>] = "none"
    BY <1>3, ChatAssumption DEF KickTurn, Fresh, NotYet
  <2>4. \A u \in Sends \ {s} : \A i \in 1..Replies[u] : msg'[<<u, i>>] = msg[<<u, i>>]
    BY <1>0, <2>1, TurnFacts
  <2>5. \A u \in Sends \ {s}, n \in Nat \ {0} : NotYet(u, n) => NotYet(u, n)'
    BY <2>4, TurnFacts DEF NotYet
  <2>6. Fresh'
    BY <2>1, <2>2, <2>3, <2>5, <1>i DEF Fresh
  <2>7. QED
    BY <1>0, <2>1, <2>3, <2>6
<1>4. ASSUME NEW s \in Sends, KickQueue(s) PROVE Fresh' /\ msg' = msg
  <2>1. /\ msg' = msg /\ send' = [send EXCEPT ![s] = Sent]
        /\ room' = [room EXCEPT ![s] = [NoRoom EXCEPT !.pc = "gate", !.own = gen[At[s]], !.in = gen[At[s]]]]
    BY <1>4 DEF KickQueue
  <2>2. send'[s].pc = "sent" /\ \A u \in Sends \ {s} : send'[u] = send[u]
    BY <1>0, <2>1 DEF Sent, NoSend
  <2>3. room'[s].pc = "gate" /\ room'[s].i = 1 /\ \A u \in Sends \ {s} : room'[u] = room[u]
    BY <1>0, <2>1, SendTyped, BegunTyped DEF NoRoom
  <2>4. NotYet(s, 1)
    BY <1>4 DEF KickQueue, Fresh
  <2>5. \A u \in Sends, n \in Nat \ {0} : NotYet(u, n)' <=> NotYet(u, n)
    BY <2>1 DEF NotYet
  <2>6. QED
    BY <2>1, <2>2, <2>3, <2>4, <2>5, <1>i DEF Fresh
<1>5. ASSUME NEW s \in Sends, RoomStep(s), room[s].pc # "gate" \/ msg' = msg
      PROVE  Fresh' /\ \A u \in Turns : msg[u] # "streaming" => msg'[u] = msg[u]
  <2>1. \A u \in Turns : msg[u] # "streaming" => msg'[u] = msg[u]
    <3>1. \E t \in Turns : \E x : msg' = msg \/ msg' = Finalized(t, x)
      BY <1>0, <1>5, RoomTurn, Zenon DEF RoomStep, RoomGate, RoomKick, RoomReplied
    <3>2. QED
      BY <1>0, <3>1, FinalizedKeeps
  <2>2. send' = send /\ send[s].pc = "sent"
    BY <1>5, RoomFrame DEF RoomStep, RoomGate, RoomKick, RoomReplied, Fresh
  <2>3. /\ NotYet(s, room[s].i + 1)
        /\ \A n \in Nat : n > room[s].i => NotYet(s, n)
    <3>1. NotYet(s, room[s].i + 1)
      BY <1>0, <1>5, <1>i, TurnFacts DEF RoomStep, RoomGate, RoomKick, RoomReplied, Fresh, NotYet
    <3>2. QED
      BY <1>i, <3>1, TurnFacts DEF NotYet
  <2>4. CASE RoomNext(s) \/ RoomOver(s)
    <3>1. \A u \in Sends \ {s} : room'[u] = room[u]
      BY <1>0, <2>4, RoomOnward
    <3>2. \/ room'[s].pc = "over"
          \/ room'[s].pc = "gate" /\ room'[s].i \in Nat /\ room'[s].i > room[s].i
      BY <1>0, <1>i, <2>4, RoomOnward, TurnFacts
    <3>3. room'[s].pc = "gate" => NotYet(s, room[s].i)'
      <4>1. SUFFICES ASSUME room'[s].pc = "gate" PROVE NotYet(s, room[s].i)'
        OBVIOUS
      <4>2. room'[s].i \in Nat \ {0} /\ NotYet(s, room'[s].i)
        BY <1>i, <2>3, <3>2, <4>1
      <4>3. QED
        BY <1>k, <2>1, <4>2, TurnFacts DEF NotYet
    <3>4. QED
      BY <1>i, <1>k, <2>1, <2>2, <3>1, <3>2, <3>3 DEF Fresh
  <2>5. CASE ~(RoomNext(s) \/ RoomOver(s))
    <3>1. room[s].pc = "inserted" /\ room' = [room EXCEPT ![s].pc = "running"] /\ msg' = msg
      <4>1. CASE RoomGate(s)
        <5>1. /\ room[s].pc = "gate" /\ msg' = [msg EXCEPT ![<<s, room[s].i>>] = "streaming"]
              /\ msg[<<s, room[s].i>>] = "none" /\ <<s, room[s].i>> \in Turns
          BY <1>0, <1>g, <2>5, <4>1, RoomTurn DEF RoomGate
        <5>2. QED
          BY <1>0, <1>5, <5>1
      <4>2. QED
        BY <1>5, <2>5, <4>1 DEF RoomStep, RoomKick, RoomReplied
    <3>2. /\ room'[s].pc = "running" /\ room'[s].i = room[s].i
          /\ \A u \in Sends \ {s} : room'[u] = room[u]
      BY <1>0, <3>1 DEF RoomStates
    <3>3. QED
      BY <1>i, <1>k, <2>1, <2>2, <2>3, <3>2 DEF Fresh
  <2>6. QED
    BY <2>1, <2>4, <2>5
<1>6. ASSUME NEW s \in Sends, RoomStep(s), room[s].pc = "gate", msg' # msg
      PROVE  Fresh' /\ \A t \in Turns : msg[t] # "none" => msg'[t] = msg[t]
  <2>1. /\ room' = [room EXCEPT ![s].pc = "inserted"] /\ send' = send
        /\ msg' = [msg EXCEPT ![<<s, room[s].i>>] = "streaming"]
    BY <1>6 DEF RoomStep, RoomGate, RoomKick, RoomReplied
  <2>2. /\ room'[s].pc = "inserted" /\ room'[s].i = room[s].i
        /\ \A u \in Sends \ {s} : room'[u] = room[u]
    BY <1>0, <2>1 DEF RoomStates
  <2>3. msg[<<s, room[s].i>>] = "none" /\ <<s, room[s].i>> \in Turns
    BY <1>0, <1>g, <1>6, RoomTurn
  <2>4. NotYet(s, room[s].i + 1) /\ send[s].pc = "sent"
    BY <1>0, <1>6, <1>i, TurnFacts DEF Fresh, NotYet
  <2>5. \A u \in Sends : \A i \in 1..Replies[u] : u # s \/ i # room[s].i => msg'[<<u, i>>] = msg[<<u, i>>]
    BY <1>0, <2>1, TurnFacts
  <2>6. NotYet(s, room[s].i + 1)'
    BY <1>i, <2>4, <2>5, <2>2, TurnFacts DEF NotYet
  <2>7. \A u \in Sends \ {s}, n \in Nat \ {0} : NotYet(u, n) => NotYet(u, n)'
    BY <2>5, TurnFacts DEF NotYet
  <2>8. Fresh'
    BY <1>i, <2>1, <2>2, <2>4, <2>6, <2>7 DEF Fresh
  <2>9. QED
    BY <1>0, <2>1, <2>3, <2>8
<1>7. ASSUME NEW t \in Turns, TurnStep(t) \/ ScrubThrows(t)
      PROVE  Fresh' /\ \A u \in Turns : msg[u] # "streaming" => msg'[u] = msg[u]
  BY <1>0, <1>1, <1>7, TurnFrame, TurnWrites
<1>8. CASE \/ \E t \in Turns : CancelReply(t)
           \/ \E c \in Convos : CloseBegin(c) \/ CloseStep(c)
           \/ StopBegin \/ StopEnds
  <2>1. /\ msg' = msg /\ send' = send
        /\ \A s \in Sends : SameRoom(s)
    BY <1>0, <1>8, OtherFrame
  <2>2. \A s \in Sends : room'[s].pc = room[s].pc /\ room'[s].i = room[s].i
    BY <2>1 DEF SameRoom
  <2>3. \A u \in Sends, n \in Nat \ {0} : NotYet(u, n)' <=> NotYet(u, n)
    BY <2>1 DEF NotYet
  <2>4. QED
    BY <1>i, <2>1, <2>2, <2>3 DEF Fresh
<1>9. CASE Crash
  <2>1. \A u \in Turns : msg[u] # "streaming" => msg'[u] = msg[u]
    BY <1>9 DEF Crash
  <2>2. \A s \in Sends : /\ send'[s].pc # "sent" => send[s].pc # "sent"
                         /\ room'[s].pc \in {"none", "over"}
                         /\ room[s].pc = "none" => room'[s].pc = "none"
    BY <1>9 DEF Crash, NoSend, Sent, NoRoom
  <2>3. QED
    BY <1>i, <1>k, <2>1, <2>2 DEF Fresh
<1>10. QED
  <2>1. CASE \E s \in Sends : RoomStep(s)
    BY <1>5, <1>6, <1>0, <2>1 DEF Rows
  <2>2. CASE \E s \in Sends : Post(s) \/ SendStep(s)
    BY <1>2, <1>3, <1>4, <2>2 DEF SendStep
  <2>3. QED
    BY <1>7, <1>8, <1>9, <1>k, <2>1, <2>2 DEF Next

-----------------------------------------------------------------------------
(* One reply at a time                                                     *)

(* Two messages of an open conversation are never both ahead of its chain. *)
LEMMA OneAhead ==
  ASSUME TypeInv, FirstGen, NEW s \in Sends, NEW u \in Sends,
         At[s] = At[u], Open(At[s]), send[s].pc \in Ahead, send[u].pc \in Ahead
  PROVE  s = u
  BY DEF TypeInv, Chained, Linked, FirstGen

(* While a conversation was never closed there is one runtime for all that *)
(* goes on in it.                                                          *)
LEMMA FirstGenStep ==
  ASSUME TypeInv, FirstGen, Next
  PROVE  FirstGen'
<1>0. /\ TypeOK /\ send \in [Sends -> SendStates] /\ room \in [Sends -> RoomStates]
      /\ turn \in [Turns -> TurnStates] /\ gen \in [Convos -> Gens]
  BY DEF TypeInv, TypeOK
<1>1. ASSUME NEW s \in Sends, Post(s) \/ SendStep(s) PROVE FirstGen'
  <2>1. /\ gen' = gen
        /\ \A u \in Sends \ {s} : send'[u] = send[u] /\ room'[u] = room[u]
    BY <1>0, <1>1, ZenonT(60) DEF SendStep, Post, Begin, StopTitling, Interrupt, Store, Refuse, KickTurn, KickQueue
  <2>2. Open(At[s]) => send'[s].in = 0 /\ send'[s].rt = 0
    <3>1. CASE Post(s) \/ Begin(s)
      BY <1>0, <3>1 DEF Post, Begin, Open, FirstGen, SendStates
    <3>2. CASE StopTitling(s) \/ Interrupt(s) \/ Store(s)
      BY <1>0, <3>2 DEF StopTitling, Interrupt, Store, FirstGen, SendStates
    <3>3. CASE Refuse(s) \/ KickTurn(s) \/ KickQueue(s)
      BY <1>0, <3>3, ZenonT(60) DEF Refuse, KickTurn, KickQueue, Sent, NoSend
    <3>4. QED
      BY <1>1, <3>1, <3>2, <3>3 DEF SendStep
  <2>3. Open(At[s]) => room'[s].own = 0 /\ room'[s].in = 0
    <3>1. CASE KickQueue(s)
      BY <1>0, <3>1 DEF KickQueue, NoRoom, Open
    <3>2. CASE ~KickQueue(s)
      BY <1>0, <1>1, <3>2, ZenonT(60) DEF FirstGen, SendStep, Post, Begin, StopTitling, Interrupt, Store, Refuse, KickTurn
    <3>3. QED
      BY <3>1, <3>2
  <2>4. \A t \in Turns : Open(ConvoOf(t)) => turn'[t].own = 0 /\ turn'[t].in = 0
    <3>1. CASE KickTurn(s)
      BY <1>0, <3>1, TurnFacts DEF KickTurn, Started, NoTurn, Open, FirstGen
    <3>2. CASE ~KickTurn(s)
      <4>1. turn' = turn \/ \E A, C : turn' = Signalled(A, C)
        BY <1>1, <3>2, Zenon DEF SendStep, Post, Begin, StopTitling, Interrupt, Store, Refuse, KickQueue
      <4>2. QED
        BY <1>0, <4>1, SignalledOnly DEF FirstGen
    <3>3. QED
      BY <3>1, <3>2
  <2>5. QED
    BY <2>1, <2>2, <2>3, <2>4, SMTT(40) DEF FirstGen, Open
<1>2. ASSUME NEW s \in Sends, RoomStep(s) PROVE FirstGen'
  <2>1. send' = send /\ gen' = gen
    BY <1>2, RoomFrame
  <2>2. /\ \A u \in Sends \ {s} : room'[u] = room[u]
        /\ Open(At[s]) => room'[s].own = 0 /\ room'[s].in = 0
    <3>1. CASE RoomNext(s) \/ RoomOver(s)
      BY <1>0, <3>1, RoomOnward DEF Open, FirstGen
    <3>2. CASE ~(RoomNext(s) \/ RoomOver(s))
      <4>1. \E p : room' = [room EXCEPT ![s].pc = p]
        BY <1>2, <3>2 DEF RoomStep, RoomGate, RoomKick, RoomReplied
      <4>2. QED
        BY <1>0, <4>1 DEF FirstGen, RoomStates
    <3>3. QED
      BY <3>1, <3>2
  <2>3. \A t \in Turns : Open(ConvoOf(t)) => turn'[t].own = 0 /\ turn'[t].in = 0
    <3>1. turn' = turn \/ turn' = Started(<<s, room[s].i>>)
      BY <1>2 DEF RoomStep, RoomGate, RoomKick, RoomReplied
    <3>2. \A u \in Turns : Started(u)[u].own = gen[ConvoOf(u)] /\ Started(u)[u].in = 0
      BY <1>0 DEF Started, NoTurn
    <3>3. \A t, u \in Turns : t # u => Started(t)[u] = turn[u]
      BY <1>0 DEF Started
    <3>4. QED
      BY <1>0, <3>1, <3>2, <3>3, RoomTurn, ZenonT(60) DEF Open, FirstGen
  <2>4. QED
    BY <2>1, <2>2, <2>3 DEF FirstGen, Open
<1>3. ASSUME NEW t \in Turns, TurnStep(t) \/ ScrubThrows(t) PROVE FirstGen'
  <2>1. UNCHANGED <<gen, send, room>>
    BY <1>3, TurnFrame
  <2>2. \A u \in Turns : Open(ConvoOf(u)) => turn'[u].own = 0 /\ turn'[u].in = 0
    BY <1>0, <1>3, TurnMoves DEF FirstGen, Open
  <2>3. QED
    BY <2>1, <2>2 DEF FirstGen, Open
<1>4. CASE \/ \E t \in Turns : CancelReply(t)
           \/ \E c \in Convos : CloseBegin(c) \/ CloseStep(c)
           \/ StopBegin \/ StopEnds
  <2>1. /\ send' = send
        /\ \A t \in Turns : turn'[t].own = turn[t].own /\ turn'[t].in = turn[t].in
        /\ \A s \in Sends : SameRoom(s)
        /\ gen' = gen \/ \E c \in Convos : gen' = [gen EXCEPT ![c] = 1]
    BY <1>0, <1>4, OtherFrame
  <2>2. \A s \in Sends : room'[s].own = room[s].own /\ room'[s].in = room[s].in
    BY <2>1 DEF SameRoom
  <2>3. \A c \in Convos : Open(c)' => Open(c)
    BY <1>0, <2>1 DEF Open
  <2>4. QED
    BY <2>1, <2>2, <2>3, TurnFacts, ChatAssumption DEF FirstGen
<1>5. CASE Crash
  BY <1>5 DEF Crash, FirstGen, NoSend, Sent, NoRoom, NoTurn
<1>6. QED
  BY <1>1, <1>2, <1>3, <1>4, <1>5 DEF Next

(* What is kept of the reply under way: it is the current one, answers the *)
(* message stored last, and nobody is past it.                             *)
LEMMA ReplyFrame ==
  ASSUME TypeInv, ReplyInv, UNCHANGED <<send, last>>,
         \A c \in Convos : Open(c)' => Open(c),
         \A t \in Turns : Replying(t)' => Replying(t),
         \A c \in Convos : Open(c) => rt'[c][0].queue \in {None, rt[c][0].queue},
         \A t \in Turns : Replying(t)' /\ Open(ConvoOf(t)) => rt'[ConvoOf(t)][0].cur = rt[ConvoOf(t)][0].cur,
         \A t \in Turns : Replying(t)' /\ Open(ConvoOf(t)) /\ rt'[ConvoOf(t)][0].queue = t[1]
                            => room'[t[1]].pc = room[t[1]].pc /\ room'[t[1]].i = room[t[1]].i
  PROVE  ReplyInv'
<1> SUFFICES ASSUME NEW t \in Turns, Replying(t)', Open(ConvoOf(t))'
             PROVE  /\ rt'[ConvoOf(t)][0].cur = t
                    /\ last'[ConvoOf(t)] = t[1]
                    /\ \A s \in Sends : At[s] = ConvoOf(t) =>
                          /\ send'[s].pc # "gate"
                          /\ send'[s].pc = "cur" => send'[s].wait = t
                          /\ rt'[At[s]][0].queue = s => t = <<s, room'[s].i>> /\ room'[s].pc = "running"
  BY DEF ReplyInv
<1>1. ConvoOf(t) \in Convos /\ Open(ConvoOf(t)) /\ Replying(t) /\ t[1] \in Sends
  BY TurnFacts
<1>2. /\ rt[ConvoOf(t)][0].cur = t
      /\ last[ConvoOf(t)] = t[1]
      /\ \A s \in Sends : At[s] = ConvoOf(t) =>
            /\ send[s].pc # "gate"
            /\ send[s].pc = "cur" => send[s].wait = t
            /\ rt[At[s]][0].queue = s => t = <<s, room[s].i>> /\ room[s].pc = "running"
  BY <1>1 DEF ReplyInv
<1>3. ASSUME NEW s \in Sends, At[s] = ConvoOf(t), rt'[At[s]][0].queue = s
      PROVE  t = <<s, room'[s].i>> /\ room'[s].pc = "running"
  <2>1. rt[At[s]][0].queue = s
    BY <1>1, <1>3, TurnFacts
  <2>2. t = <<s, room[s].i>> /\ room[s].pc = "running" /\ t[1] = s
    BY <1>2, <1>3, <2>1
  <2>3. QED
    BY <1>1, <1>3, <2>2
<1>4. QED
  BY <1>1, <1>2, <1>3

(* Invariants of the messages ahead, and of the queue.                     *)
OneAtATime == QueueInv /\ ReplyInv /\ StoredLast

(* A message keeps to one reply at a time.                                 *)
LEMMA ReplySends ==
  ASSUME TypeInv, FirstGen, OneAtATime, NEW s \in Sends, Post(s) \/ SendStep(s)
  PROVE  OneAtATime'
<1>0. /\ TypeOK /\ send \in [Sends -> SendStates] /\ room \in [Sends -> RoomStates]
      /\ turn \in [Turns -> TurnStates] /\ gen \in [Convos -> Gens]
      /\ rt \in [Convos -> [Gens -> Runtimes]] /\ last \in [Convos -> Sends \cup {None}]
      /\ At[s] \in Convos /\ gen[At[s]] \in Gens /\ 0 \in Gens /\ send[s].rt \in Gens
  BY SendTyped DEF TypeInv, TypeOK, Gens
<1>c. /\ \A u \in Sends : At[u] \in Convos
      /\ \A t \in Turns : ConvoOf(t) \in Convos
      /\ 0 \in Gens /\ None \notin Sends
  BY TurnFacts, ChatAssumption DEF Gens
<1>1. CASE Post(s)
  <2>1. /\ UNCHANGED <<kind, gen, rt, room, turn, last>>
        /\ send'[s].pc = "chained" /\ \A u \in Sends \ {s} : send'[u] = send[u]
    BY <1>0, <1>1 DEF Post, SendStates
  <2>2. QueueInv' /\ StoredLast'
    BY <2>1 DEF OneAtATime, QueueInv, StoredLast, Open, Ahead
  <2>3. ReplyInv'
    BY <2>1 DEF OneAtATime, ReplyInv, Open, Replying
  <2>4. QED
    BY <2>2, <2>3 DEF OneAtATime
<1>2. CASE Begin(s)
  <2>1. /\ UNCHANGED <<kind, gen, room, last>>
        /\ send'[s].pc = "comp" /\ \A u \in Sends \ {s} : send'[u] = send[u]
        /\ rt' = IF kind[At[s]] = "group" THEN [rt EXCEPT ![At[s]][gen[At[s]]].queue = None] ELSE rt
    BY <1>0, <1>2 DEF Begin, SendStates
  <2>2. \A t \in Turns : turn'[t].pc = turn[t].pc
    BY <1>0, <1>2, SignalledOnly DEF Begin
  <2>3. /\ \A c \in Convos, g \in Gens : rt'[c][g].cur = rt[c][g].cur /\ rt'[c][g].queue \in {None, rt[c][g].queue}
        /\ Open(At[s]) => rt'[At[s]][0].queue = None
    BY <1>0, <2>1 DEF Runtimes, Open, OneAtATime, QueueInv
  <2>4. QueueInv'
    <3>1. \A c \in Convos, g \in Gens : rt'[c][g].queue # None => kind[c] = "group"
      BY <2>3 DEF OneAtATime, QueueInv
    <3>2. \A u \in Sends : Open(At[u]) /\ send'[u].pc \in Ahead => rt'[At[u]][0].queue = None
      BY <1>c, <2>1, <2>3 DEF OneAtATime, QueueInv
    <3>3. \A u \in Sends : Open(At[u]) /\ rt'[At[u]][0].queue = u => last[At[u]] = u
      BY <1>c, <2>3 DEF OneAtATime, QueueInv
    <3>4. QED
      BY <2>1, <3>1, <3>2, <3>3 DEF QueueInv, Open
  <2>5. StoredLast'
    BY <2>1 DEF OneAtATime, StoredLast, Open
  <2>6. ReplyInv'
    <3>1. ASSUME NEW t \in Turns, Replying(t), Open(ConvoOf(t))
          PROVE  /\ rt'[ConvoOf(t)][0].cur = t
                 /\ last[ConvoOf(t)] = t[1]
                 /\ \A q \in Sends : At[q] = ConvoOf(t) =>
                       /\ send'[q].pc # "gate"
                       /\ send'[q].pc = "cur" => send'[q].wait = t
                       /\ rt'[At[q]][0].queue = q => t = <<q, room[q].i>> /\ room[q].pc = "running"
      BY <1>c, <2>1, <2>3, <3>1 DEF OneAtATime, ReplyInv
    <3>2. QED
      BY <2>1, <2>2, <3>1 DEF ReplyInv, Open, Replying
  <2>7. QED
    BY <2>4, <2>5, <2>6 DEF OneAtATime
<1>3. CASE StopTitling(s)
  <2>1. /\ UNCHANGED <<kind, gen, rt, room, turn, last>> /\ send[s].pc \in Ahead
        /\ send'[s].pc = "title" /\ \A u \in Sends \ {s} : send'[u] = send[u]
    BY <1>0, <1>3 DEF StopTitling, SendStates, Ahead
  <2>2. QueueInv' /\ StoredLast'
    BY <2>1 DEF OneAtATime, QueueInv, StoredLast, Open
  <2>3. ReplyInv'
    BY <2>1 DEF OneAtATime, ReplyInv, Open, Replying
  <2>4. QED
    BY <2>2, <2>3 DEF OneAtATime
<1>4. CASE Interrupt(s)
  <2>1. /\ UNCHANGED <<kind, gen, rt, room, last>> /\ send[s].pc \in Ahead
        /\ send'[s].pc = "cur" /\ send'[s].wait = rt[At[s]][send[s].rt].cur
        /\ \A u \in Sends \ {s} : send'[u] = send[u]
    BY <1>0, <1>4 DEF Interrupt, SendStates, Ahead, Awaited
  <2>2. \A t \in Turns : turn'[t].pc = turn[t].pc
    BY <1>0, <1>4, SignalledOnly DEF Interrupt
  <2>3. QueueInv' /\ StoredLast'
    BY <2>1 DEF OneAtATime, QueueInv, StoredLast, Open
  <2>4. Open(At[s]) => send[s].rt = 0
    BY DEF FirstGen
  <2>5. ReplyInv'
    BY <2>1, <2>2, <2>4 DEF OneAtATime, ReplyInv, Open, Replying
  <2>6. QED
    BY <2>3, <2>5 DEF OneAtATime
<1>5. CASE Store(s)
  <2>1. /\ UNCHANGED <<kind, gen, rt, room, turn>> /\ send[s].pc \in Ahead
        /\ send[s].pc = "cur" /\ TurnOver(send[s].wait)
        /\ send'[s].pc = "gate" /\ \A u \in Sends \ {s} : send'[u] = send[u]
        /\ last'[At[s]] = s /\ \A c \in Convos \ {At[s]} : last'[c] = last[c]
    BY <1>0, <1>5 DEF Store, SendStates, Ahead
  <2>2. \A t \in Turns : ConvoOf(t) = At[s] /\ Open(At[s]) => ~Replying(t)
    BY <2>1, TurnFacts DEF OneAtATime, ReplyInv, TurnOver, Replying
  <2>3. \A u \in Sends : Open(At[u]) /\ At[u] = At[s] /\ u # s => send[u].pc # "gate"
    BY <2>1, OneAhead DEF Ahead
  <2>4. Open(At[s]) => rt[At[s]][0].queue = None
    BY <2>1 DEF OneAtATime, QueueInv
  <2>5. QueueInv'
    BY <1>0, <2>1, <2>4, ChatAssumption, TurnFacts DEF OneAtATime, QueueInv, Open
  <2>6. StoredLast'
    <3>1. \A u \in Sends : Open(At[u]) /\ send'[u].pc = "gate" => last'[At[u]] = u
      BY <1>c, <2>1, <2>3 DEF OneAtATime, StoredLast
    <3>2. QED
      BY <2>1, <3>1 DEF StoredLast, Open
  <2>7. ReplyInv'
    <3>1. ASSUME NEW t \in Turns, Replying(t), Open(ConvoOf(t))
          PROVE  /\ rt[ConvoOf(t)][0].cur = t
                 /\ last'[ConvoOf(t)] = t[1]
                 /\ \A q \in Sends : At[q] = ConvoOf(t) =>
                       /\ send'[q].pc # "gate"
                       /\ send'[q].pc = "cur" => send'[q].wait = t
                       /\ rt[At[q]][0].queue = q => t = <<q, room[q].i>> /\ room[q].pc = "running"
      <4>1. ConvoOf(t) # At[s] /\ ConvoOf(t) \in Convos
        BY <1>c, <2>2, <3>1
      <4>2. QED
        BY <2>1, <3>1, <4>1 DEF OneAtATime, ReplyInv
    <3>2. QED
      BY <2>1, <3>1 DEF ReplyInv, Open, Replying
  <2>8. QED
    BY <2>5, <2>6, <2>7 DEF OneAtATime
<1>6. CASE Refuse(s)
  <2>1. /\ UNCHANGED <<kind, gen, rt, room, turn, last>>
        /\ send'[s].pc = "sent" /\ \A u \in Sends \ {s} : send'[u] = send[u]
    BY <1>0, <1>6 DEF Refuse, Sent, NoSend
  <2>2. QueueInv' /\ StoredLast'
    BY <2>1 DEF OneAtATime, QueueInv, StoredLast, Open, Ahead
  <2>3. ReplyInv'
    BY <2>1 DEF OneAtATime, ReplyInv, Open, Replying
  <2>4. QED
    BY <2>2, <2>3 DEF OneAtATime
<1>7. CASE KickTurn(s)
  <2> DEFINE t == <<s, 1>>
  <2>1. /\ UNCHANGED <<kind, gen, room, last>> /\ send[s].pc = "gate"
        /\ kind[At[s]] # "group"
        /\ send'[s].pc = "sent" /\ \A u \in Sends \ {s} : send'[u] = send[u]
        /\ turn' = Started(t) /\ rt' = [rt EXCEPT ![At[s]][send[s].rt].cur = t]
    BY <1>0, <1>7 DEF KickTurn, Sent, NoSend
  <2>2. t \in Turns /\ ConvoOf(t) = At[s] /\ t[1] = s
    BY TurnFacts
  <2>3. \A u \in Turns \ {t} : turn'[u] = turn[u]
    BY <1>0, <2>1, <2>2 DEF Started
  <2>4. /\ \A c \in Convos, g \in Gens : rt'[c][g].queue = rt[c][g].queue
        /\ Open(At[s]) => rt'[At[s]][0].cur = t
        /\ \A c \in Convos, g \in Gens : c # At[s] => rt'[c][g].cur = rt[c][g].cur
    BY <1>0, <2>1 DEF Runtimes, FirstGen
  <2>5. \A u \in Turns : ConvoOf(u) = At[s] /\ Open(At[s]) => ~Replying(u)
    BY <2>1 DEF OneAtATime, ReplyInv
  <2>6. Open(At[s]) => last[At[s]] = s
    BY <2>1 DEF OneAtATime, StoredLast
  <2>7. \A u \in Sends : Open(At[u]) /\ At[u] = At[s] /\ u # s => send[u].pc \notin Ahead
    BY <2>1, OneAhead DEF Ahead
  <2>8. rt[At[s]][0].queue = None
    BY <1>0, <2>1, RuntimeTyped DEF OneAtATime, QueueInv
  <2>9. QueueInv' /\ StoredLast'
    <3>1. \A c \in Convos, g \in Gens : rt'[c][g].queue # None => kind[c] = "group"
      BY <2>4 DEF OneAtATime, QueueInv
    <3>2. \A u \in Sends : Open(At[u]) /\ send'[u].pc \in Ahead => rt'[At[u]][0].queue = None
      BY <1>c, <2>1, <2>4 DEF OneAtATime, QueueInv, Ahead
    <3>3. \A u \in Sends : Open(At[u]) /\ rt'[At[u]][0].queue = u => last[At[u]] = u
      BY <1>c, <2>4 DEF OneAtATime, QueueInv
    <3>4. StoredLast'
      BY <2>1 DEF OneAtATime, StoredLast, Open
    <3>5. QED
      BY <2>1, <3>1, <3>2, <3>3, <3>4 DEF QueueInv, Open
  <2>10. ASSUME NEW u \in Turns, Replying(u)', Open(ConvoOf(u))
         PROVE  /\ rt'[ConvoOf(u)][0].cur = u
                /\ last[ConvoOf(u)] = u[1]
                /\ \A q \in Sends : At[q] = ConvoOf(u) =>
                      /\ send'[q].pc # "gate"
                      /\ send'[q].pc = "cur" => send'[q].wait = u
                      /\ rt'[At[q]][0].queue = q => u = <<q, room[q].i>> /\ room[q].pc = "running"
    <3>1. CASE u = t
      <4>1. \A q \in Sends : At[q] = At[s] => send'[q].pc \notin {"gate", "cur"} /\ rt'[At[q]][0].queue # q
        <5>1. Open(At[s])
          BY <2>2, <2>10, <3>1
        <5>2. \A q \in Sends : At[q] = At[s] => rt'[At[q]][0].queue # q
          BY <1>c, <2>4, <2>8
        <5>3. \A q \in Sends : At[q] = At[s] => send'[q].pc \notin {"gate", "cur"}
          BY <2>1, <2>7, <5>1 DEF Ahead
        <5>4. QED
          BY <5>2, <5>3
      <4>2. QED
        BY <2>2, <2>4, <2>6, <2>10, <3>1, <4>1
    <3>2. CASE u # t
      <4>1. Replying(u) /\ ConvoOf(u) # At[s]
        BY <2>3, <2>5, <2>10, <3>2 DEF Replying
      <4>2. \A q \in Sends : At[q] = ConvoOf(u) => q # s
        BY <4>1
      <4>3. QED
        BY <1>c, <2>1, <2>4, <2>10, <4>1, <4>2 DEF OneAtATime, ReplyInv
    <3>3. QED
      BY <3>1, <3>2
  <2>11. ReplyInv'
    BY <2>1, <2>10 DEF ReplyInv, Open
  <2>12. QED
    BY <2>9, <2>11 DEF OneAtATime
<1>8. CASE KickQueue(s)
  <2>1. /\ UNCHANGED <<kind, gen, turn, last>> /\ send[s].pc = "gate" /\ kind[At[s]] = "group"
        /\ send'[s].pc = "sent" /\ \A u \in Sends \ {s} : send'[u] = send[u]
        /\ \A u \in Sends \ {s} : room'[u] = room[u]
        /\ rt' = [rt EXCEPT ![At[s]][send[s].rt].queue = s]
    BY <1>0, <1>8 DEF KickQueue, Sent, NoSend
  <2>2. /\ \A c \in Convos, g \in Gens : rt'[c][g].cur = rt[c][g].cur
        /\ \A c \in Convos \ {At[s]}, g \in Gens : rt'[c][g].queue = rt[c][g].queue
        /\ Open(At[s]) => rt'[At[s]][0].queue = s
    BY <1>0, <2>1 DEF Runtimes, FirstGen
  <2>3. \A u \in Turns : ConvoOf(u) = At[s] /\ Open(At[s]) => ~Replying(u)
    BY <2>1 DEF OneAtATime, ReplyInv
  <2>4. Open(At[s]) => last[At[s]] = s
    BY <2>1 DEF OneAtATime, StoredLast
  <2>5. \A u \in Sends : Open(At[u]) /\ At[u] = At[s] /\ u # s => send[u].pc \notin Ahead
    BY <2>1, OneAhead DEF Ahead
  <2>6. QueueInv'
    <3>1. \A c \in Convos, g \in Gens : rt'[c][g].queue # None => kind[c] = "group"
      BY <2>1, <2>2 DEF OneAtATime, QueueInv
    <3>2. \A u \in Sends : Open(At[u]) /\ send'[u].pc \in Ahead => rt'[At[u]][0].queue = None
      BY <1>0, <2>1, <2>2, <2>5, ChatAssumption DEF OneAtATime, QueueInv, Ahead
    <3>3. \A u \in Sends : Open(At[u]) /\ rt'[At[u]][0].queue = u => last[At[u]] = u
      BY <1>0, <2>2, <2>4, ChatAssumption, ZenonT(60) DEF OneAtATime, QueueInv
    <3>4. QED
      BY <2>1, <3>1, <3>2, <3>3 DEF QueueInv, Open
  <2>7. StoredLast'
    BY <2>1 DEF OneAtATime, StoredLast, Open
  <2>8. ASSUME NEW t \in Turns, Replying(t), Open(ConvoOf(t))
        PROVE  /\ rt'[ConvoOf(t)][0].cur = t
               /\ last[ConvoOf(t)] = t[1]
               /\ \A q \in Sends : At[q] = ConvoOf(t) =>
                     /\ send'[q].pc # "gate"
                     /\ send'[q].pc = "cur" => send'[q].wait = t
                     /\ rt'[At[q]][0].queue = q => t = <<q, room'[q].i>> /\ room'[q].pc = "running"
    <3>1. ConvoOf(t) # At[s] /\ ConvoOf(t) \in Convos
      BY <2>3, <2>8, TurnFacts
    <3>2. \A q \in Sends : At[q] = ConvoOf(t) => q # s
      BY <3>1
    <3>3. QED
      BY <1>0, <2>1, <2>2, <2>8, <3>1, <3>2, SMTT(40) DEF OneAtATime, ReplyInv
  <2>9. ReplyInv'
    BY <2>1, <2>8 DEF ReplyInv, Open, Replying
  <2>10. QED
    BY <2>6, <2>7, <2>9 DEF OneAtATime
<1>9. QED
  BY <1>1, <1>2, <1>3, <1>4, <1>5, <1>6, <1>7, <1>8 DEF SendStep

(* So does the queue of a group message.                                   *)
LEMMA ReplyRooms ==
  ASSUME TypeInv, FirstGen, OneAtATime, NEW s \in Sends, RoomStep(s)
  PROVE  OneAtATime'
<1>0. /\ TypeOK /\ room \in [Sends -> RoomStates] /\ turn \in [Turns -> TurnStates]
      /\ rt \in [Convos -> [Gens -> Runtimes]]
      /\ At[s] \in Convos /\ room[s].own \in Gens /\ room[s].in \in Gens
  BY SendTyped DEF TypeInv, TypeOK
<1>c. /\ \A u \in Sends : At[u] \in Convos
      /\ \A t \in Turns : ConvoOf(t) \in Convos /\ t[1] \in Sends /\ At[t[1]] = ConvoOf(t)
      /\ 0 \in Gens /\ None \notin Sends
  BY TurnFacts, ChatAssumption DEF Gens, ConvoOf
<1>u. UNCHANGED <<kind, gen, send, last>>
  BY RoomFrame
<1>t. <<s, room[s].i>> \in Turns /\ ConvoOf(<<s, room[s].i>>) = At[s]
  BY <1>0, RoomTurn DEF ConvoOf
<1>1. CASE RoomKick(s) /\ QueueStands(s)
  <2> DEFINE t == <<s, room[s].i>>
  <2>1. /\ room[s].pc = "inserted" /\ rt[At[s]][room[s].in].queue = s
        /\ turn' = Started(t) /\ rt' = [rt EXCEPT ![At[s]][room[s].in].cur = t]
        /\ room' = [room EXCEPT ![s].pc = "running"]
    BY <1>1 DEF RoomKick, QueueStands
  <2>2. /\ room'[s].pc = "running" /\ room'[s].i = room[s].i
        /\ \A u \in Sends \ {s} : room'[u] = room[u]
    BY <1>0, <2>1 DEF RoomStates
  <2>3. \A u \in Turns \ {t} : turn'[u] = turn[u]
    BY <1>0, <2>1 DEF Started
  <2>4. /\ \A c \in Convos, g \in Gens : rt'[c][g].queue = rt[c][g].queue
        /\ Open(At[s]) => rt'[At[s]][0].cur = t
        /\ \A c \in Convos, g \in Gens : c # At[s] => rt'[c][g].cur = rt[c][g].cur
    BY <1>0, <2>1 DEF Runtimes, FirstGen
  <2>5. Open(At[s]) => rt[At[s]][0].queue = s
    BY <2>1 DEF FirstGen
  <2>6. \A u \in Turns : ConvoOf(u) = At[s] /\ Open(At[s]) => ~Replying(u)
    BY <2>1, <2>5 DEF OneAtATime, ReplyInv
  <2>7. \A q \in Sends : Open(At[q]) /\ At[q] = At[s] => send[q].pc \notin Ahead
    BY <1>c, <2>5 DEF OneAtATime, QueueInv
  <2>8. QueueInv' /\ StoredLast'
    <3>1. \A c \in Convos, g \in Gens : rt'[c][g].queue # None => kind[c] = "group"
      BY <2>4 DEF OneAtATime, QueueInv
    <3>2. \A u \in Sends : Open(At[u]) /\ send[u].pc \in Ahead => rt'[At[u]][0].queue = None
      BY <1>c, <2>4 DEF OneAtATime, QueueInv
    <3>3. \A u \in Sends : Open(At[u]) /\ rt'[At[u]][0].queue = u => last[At[u]] = u
      BY <1>c, <2>4 DEF OneAtATime, QueueInv
    <3>4. StoredLast'
      BY <1>u DEF OneAtATime, StoredLast, Open
    <3>5. QED
      BY <1>u, <3>1, <3>2, <3>3, <3>4 DEF QueueInv, Open
  <2>9. ASSUME NEW u \in Turns, Replying(u)', Open(ConvoOf(u))
        PROVE  /\ rt'[ConvoOf(u)][0].cur = u
               /\ last[ConvoOf(u)] = u[1]
               /\ \A q \in Sends : At[q] = ConvoOf(u) =>
                     /\ send[q].pc # "gate"
                     /\ send[q].pc = "cur" => send[q].wait = u
                     /\ rt'[At[q]][0].queue = q => u = <<q, room'[q].i>> /\ room'[q].pc = "running"
    <3>1. CASE u = t
      <4>1. Open(At[s]) /\ ConvoOf(u) = At[s] /\ u[1] = s
        BY <1>t, <2>9, <3>1
      <4>2. last[At[s]] = s
        BY <2>5, <4>1 DEF OneAtATime, QueueInv
      <4>3. \A q \in Sends : At[q] = At[s] => send[q].pc # "gate" /\ send[q].pc # "cur"
        BY <2>7, <4>1 DEF Ahead
      <4>4. \A q \in Sends : At[q] = At[s] /\ rt'[At[q]][0].queue = q => q = s
        BY <1>c, <2>4, <2>5, <4>1
      <4>5. QED
        BY <2>2, <2>4, <3>1, <4>1, <4>2, <4>3, <4>4
    <3>2. CASE u # t
      <4>1. Replying(u) /\ ConvoOf(u) # At[s]
        BY <2>3, <2>6, <2>9, <3>2 DEF Replying
      <4>2. \A q \in Sends : At[q] = ConvoOf(u) => q # s
        BY <4>1
      <4>3. QED
        BY <1>c, <2>2, <2>4, <2>9, <4>1, <4>2 DEF OneAtATime, ReplyInv
    <3>3. QED
      BY <3>1, <3>2
  <2>10. ReplyInv'
    BY <1>u, <2>9 DEF ReplyInv, Open
  <2>11. QED
    BY <2>8, <2>10 DEF OneAtATime
<1>2. CASE ~(RoomKick(s) /\ QueueStands(s))
  <2>0. turn' = turn
    BY <1>2 DEF RoomStep, RoomGate, RoomKick, RoomReplied
  <2>1. /\ \A u \in Sends \ {s} : room'[u] = room[u]
        /\ \A c \in Convos, g \in Gens : rt'[c][g].cur = rt[c][g].cur /\ rt'[c][g].queue \in {None, rt[c][g].queue}
    <3>1. CASE RoomOver(s)
      BY <1>0, <3>1 DEF RoomOver, Runtimes
    <3>2. CASE ~RoomOver(s)
      <4>1. ~RoomKick(s)
        BY <1>2, <3>2 DEF RoomKick
      <4>2. CASE RoomGate(s) /\ ~RoomNext(s)
        BY <1>0, <4>2 DEF RoomGate
      <4>3. CASE RoomNext(s)
        BY <1>0, <3>2, <4>3 DEF RoomNext
      <4>4. QED
        BY <3>2, <4>1, <4>2, <4>3 DEF RoomStep, RoomReplied
    <3>3. QED
      BY <3>1, <3>2
  <2>2. \A t \in Turns : Replying(t) /\ Open(ConvoOf(t)) /\ rt[ConvoOf(t)][0].queue = t[1] => t[1] # s
    <3>1. SUFFICES ASSUME NEW t \in Turns, Replying(t), Open(ConvoOf(t)), rt[At[s]][0].queue = s, t[1] = s
                   PROVE  FALSE
      BY <1>c
    <3>2. t = <<s, room[s].i>> /\ room[s].pc = "running"
      BY <1>c, <3>1 DEF OneAtATime, ReplyInv
    <3>3. room[s].pc \in {"gate", "inserted"} \/ turn[<<s, room[s].i>>].pc = "over"
      BY DEF RoomStep, RoomGate, RoomKick, RoomReplied
    <3>4. QED
      BY <3>1, <3>2, <3>3 DEF Replying
  <2>3. ReplyInv'
    <3>1. /\ \A c \in Convos : Open(c)' => Open(c)
          /\ \A t \in Turns : Replying(t)' => Replying(t)
      BY <1>u, <2>0 DEF Open, Replying
    <3>2. \A t \in Turns : Replying(t)' /\ Open(ConvoOf(t)) /\ rt'[ConvoOf(t)][0].queue = t[1]
                            => room'[t[1]].pc = room[t[1]].pc /\ room'[t[1]].i = room[t[1]].i
      BY <1>c, <2>1, <2>2, <3>1
    <3>3. QED
      BY <1>c, <1>u, <2>1, <3>1, <3>2, ReplyFrame DEF OneAtATime
  <2>4. QueueInv' /\ StoredLast'
    <3>1. \A c \in Convos, g \in Gens : rt'[c][g].queue # None => kind[c] = "group"
      BY <2>1 DEF OneAtATime, QueueInv
    <3>2. \A u \in Sends : Open(At[u]) /\ send[u].pc \in Ahead => rt'[At[u]][0].queue = None
      BY <1>c, <2>1 DEF OneAtATime, QueueInv
    <3>3. \A u \in Sends : Open(At[u]) /\ rt'[At[u]][0].queue = u => last[At[u]] = u
      BY <1>c, <2>1 DEF OneAtATime, QueueInv
    <3>4. StoredLast'
      BY <1>u DEF OneAtATime, StoredLast, Open
    <3>5. QED
      BY <1>u, <3>1, <3>2, <3>3, <3>4 DEF QueueInv, Open
  <2>5. QED
    BY <2>3, <2>4 DEF OneAtATime
<1>3. QED
  BY <1>1, <1>2

(* A turn clears the current reply of a runtime only when it is the one,   *)
(* and leaves its exec behind.                                             *)
LEMMA ClearedOnly ==
  ASSUME TypeOK, NEW t \in Turns, NEW g \in Gens
  PROVE  /\ Cleared(t, g) \in [Convos -> [Gens -> Runtimes]]
         /\ \A d \in Convos, h \in Gens :
               /\ Cleared(t, g)[d][h].queue = rt[d][h].queue
               /\ rt[d][h].cur # t => Cleared(t, g)[d][h].cur = rt[d][h].cur
<1>1. rt \in [Convos -> [Gens -> Runtimes]] /\ ConvoOf(t) \in Convos
  BY TurnFacts DEF TypeOK
<1> DEFINE c == ConvoOf(t)
           v == IF rt[c][g].cur = t THEN None ELSE rt[c][g].cur
<1>2. Cleared(t, g) = [rt EXCEPT ![c] = [rt[c] EXCEPT ![g] = [rt[c][g] EXCEPT !.cur = v]]]
  BY Zenon DEF Cleared
<1>3. \A d \in Convos, h \in Gens :
         /\ Cleared(t, g)[d][h].queue = rt[d][h].queue
         /\ rt[d][h].cur # t => Cleared(t, g)[d][h].cur = rt[d][h].cur
  <2>1. Cleared(t, g)[c][g] = [rt[c][g] EXCEPT !.cur = v]
    BY <1>1, <1>2
  <2>2. \A d \in Convos, h \in Gens : d # c \/ h # g => Cleared(t, g)[d][h] = rt[d][h]
    BY <1>1, <1>2
  <2>3. rt[c][g] \in Runtimes
    BY <1>1
  <2>4. [rt[c][g] EXCEPT !.cur = v].queue = rt[c][g].queue /\ [rt[c][g] EXCEPT !.cur = v].cur = v
    BY <2>3 DEF Runtimes
  <2> HIDE DEF c
  <2>5. QED
    BY <2>1, <2>2, <2>4
<1>4. QED
  BY <1>3, ClearedTyped

(* A compaction changes neither the current reply nor the queue.           *)
LEMMA CompactsRuntime ==
  ASSUME TypeOK, NEW t \in Turns, NEW r \in [Convos -> [Gens -> Runtimes]], Compacts(t, r)
  PROVE  \A d \in Convos, h \in Gens : rt'[d][h].queue = r[d][h].queue /\ rt'[d][h].cur = r[d][h].cur
<1>1. gen[ConvoOf(t)] \in Gens /\ ConvoOf(t) \in Convos
  BY TurnFacts DEF TypeOK
<1>2. rt' = r \/ rt' = [r EXCEPT ![ConvoOf(t)][gen[ConvoOf(t)]].comp = t]
  BY DEF Compacts
<1>3. CASE rt' = r
  BY <1>3
<1>4. CASE rt' = [r EXCEPT ![ConvoOf(t)][gen[ConvoOf(t)]].comp = t]
  BY <1>1, <1>4 DEF Runtimes
<1>5. QED
  BY <1>2, <1>3, <1>4

(* Nor does any step of a turn, but for its own leaving.                   *)
LEMMA TurnRuntime ==
  ASSUME TypeOK, NEW t \in Turns, TurnStep(t) \/ ScrubThrows(t)
  PROVE  \A d \in Convos, h \in Gens :
            /\ rt'[d][h].queue = rt[d][h].queue
            /\ (rt[d][h].cur = t /\ Replying(t)') \/ rt[d][h].cur # t => rt'[d][h].cur = rt[d][h].cur
<1>0. /\ rt \in [Convos -> [Gens -> Runtimes]] /\ turn \in [Turns -> TurnStates]
      /\ turn[t].in \in Gens /\ turn[t].own \in Gens /\ ConvoOf(t) \in Convos
  BY TurnFacts DEF TypeOK, TurnStates
<1>1. CASE Acquire(t) \/ Build(t) \/ BuildThrows(t) \/ ExecEnds(t) \/ Fold(t) \/ ScrubThrows(t)
  BY <1>1 DEF Acquire, Build, BuildThrows, ExecEnds, Fold, ScrubThrows
<1>2. CASE AcquireNothing(t) \/ Teardown(t) \/ FailLate(t)
  <2>1. rt' = Cleared(t, turn[t].own) /\ turn' = Ended(t)
    BY <1>2 DEF AcquireNothing, Teardown, FailLate
  <2>2. ~Replying(t)'
    BY <1>0, <2>1 DEF Ended, NoTurn, Replying
  <2>3. QED
    BY <1>0, <2>1, <2>2, ClearedOnly
<1>3. CASE Scrub(t)
  <2>1. rt' = Cleared(t, turn[t].in) \/ Compacts(t, Cleared(t, turn[t].in))
    BY <1>3 DEF Scrub
  <2>2. ~Replying(t)'
    <3>1. CASE Compacts(t, Cleared(t, turn[t].in))
      BY <3>1, CompactsPc DEF Replying
    <3>2. CASE ~Compacts(t, Cleared(t, turn[t].in))
      BY <1>0, <1>3, <3>2 DEF Scrub, Replying, TurnStates
    <3>3. QED
      BY <3>1, <3>2
  <2> DEFINE r == Cleared(t, turn[t].in)
  <2>3. /\ r \in [Convos -> [Gens -> Runtimes]]
        /\ \A d \in Convos, h \in Gens : /\ r[d][h].queue = rt[d][h].queue
                                         /\ rt[d][h].cur # t => r[d][h].cur = rt[d][h].cur
    BY <1>0, ClearedOnly
  <2> HIDE DEF r
  <2>4. \A d \in Convos, h \in Gens : rt'[d][h].queue = r[d][h].queue /\ rt'[d][h].cur = r[d][h].cur
    BY <2>1, <2>3, CompactsRuntime DEF r
  <2>5. QED
    BY <2>2, <2>3, <2>4
<1>4. CASE Title(t)
  <2>1. CASE Compacts(t, rt)
    BY <1>0, <2>1, CompactsRuntime
  <2>2. CASE ~Compacts(t, rt)
    <3>1. rt' = [rt EXCEPT ![ConvoOf(t)][turn[t].in].titl = t]
      BY <1>4, <2>2 DEF Title
    <3>2. QED
      BY <1>0, <3>1 DEF Runtimes
  <2>3. QED
    BY <2>1, <2>2
<1>5. CASE TitleEnds(t)
  <2> DEFINE r == [rt EXCEPT ![ConvoOf(t)][turn[t].in].titl = IF @ = t THEN None ELSE @]
  <2>1. /\ r \in [Convos -> [Gens -> Runtimes]]
        /\ \A d \in Convos, h \in Gens : r[d][h].queue = rt[d][h].queue /\ r[d][h].cur = rt[d][h].cur
    <3>1. PICK v : r = [rt EXCEPT ![ConvoOf(t)][turn[t].in].titl = v]
      BY Zenon
    <3>2. \A d \in Convos, h \in Gens : r[d][h].queue = rt[d][h].queue /\ r[d][h].cur = rt[d][h].cur
      BY <1>0, <3>1 DEF Runtimes
    <3>3. QED
      BY <1>0, <3>2, ClearedTyped
  <2>2. Compacts(t, r)
    BY <1>5 DEF TitleEnds
  <2> HIDE DEF r
  <2>3. QED
    BY <2>1, <2>2, CompactsRuntime
<1>6. CASE FoldEnds(t)
  <2>1. rt' = [rt EXCEPT ![ConvoOf(t)][turn[t].in].comp = IF @ = t THEN None ELSE @]
    BY <1>6 DEF FoldEnds
  <2>2. QED
    BY <1>0, <2>1 DEF Runtimes
<1>7. QED
  BY <1>1, <1>2, <1>3, <1>4, <1>5, <1>6 DEF TurnStep

(* A turn leaves its exec behind before its conversation is free.          *)
LEMMA ReplyTurns ==
  ASSUME TypeInv, FirstGen, OneAtATime, NEW t \in Turns, TurnStep(t) \/ ScrubThrows(t)
  PROVE  OneAtATime'
<1>0. TypeOK
  BY DEF TypeInv
<1>c. /\ \A u \in Sends : At[u] \in Convos
      /\ \A u \in Turns : ConvoOf(u) \in Convos
      /\ 0 \in Gens
  BY TurnFacts, ChatAssumption DEF Gens
<1>u. UNCHANGED <<kind, gen, send, room, last>>
  BY TurnFrame
<1>1. \A u \in Turns : Replying(u)' => Replying(u)
  BY <1>0, TurnMoves DEF Replying
<1>2. /\ \A d \in Convos, h \in Gens : rt'[d][h].queue = rt[d][h].queue
      /\ \A d \in Convos, h \in Gens : (rt[d][h].cur = t /\ Replying(t)') \/ rt[d][h].cur # t
                                          => rt'[d][h].cur = rt[d][h].cur
  BY <1>0, TurnRuntime
<1>3. \A u \in Turns : Replying(u)' /\ Open(ConvoOf(u)) => rt'[ConvoOf(u)][0].cur = rt[ConvoOf(u)][0].cur
  BY <1>c, <1>1, <1>2 DEF OneAtATime, ReplyInv
<1>4. ReplyInv'
  <2>1. \A c \in Convos : Open(c)' => Open(c)
    BY <1>u DEF Open
  <2>2. QED
    BY <1>c, <1>u, <1>1, <1>2, <1>3, <2>1, ReplyFrame DEF OneAtATime
<1>5. QueueInv' /\ StoredLast'
  <2>1. \A u \in Sends : Open(At[u]) /\ send[u].pc \in Ahead => rt'[At[u]][0].queue = None
    BY <1>c, <1>2 DEF OneAtATime, QueueInv
  <2>2. \A u \in Sends : Open(At[u]) /\ rt'[At[u]][0].queue = u => last[At[u]] = u
    BY <1>c, <1>2 DEF OneAtATime, QueueInv
  <2>3. \A c \in Convos, g \in Gens : rt'[c][g].queue # None => kind[c] = "group"
    BY <1>2 DEF OneAtATime, QueueInv
  <2>4. StoredLast'
    BY <1>u DEF OneAtATime, StoredLast, Open
  <2>5. QED
    BY <1>u, <2>1, <2>2, <2>3, <2>4 DEF QueueInv, Open
<1>6. QED
  BY <1>4, <1>5 DEF OneAtATime

(* A close, a shutdown or a cancelled reply starts nothing.                *)
LEMMA ReplyOthers ==
  ASSUME TypeInv, FirstGen, OneAtATime,
         \/ \E t \in Turns : CancelReply(t)
         \/ \E c \in Convos : CloseBegin(c) \/ CloseStep(c)
         \/ StopBegin \/ StopEnds
  PROVE  OneAtATime'
<1>0. TypeOK /\ gen \in [Convos -> Gens]
  BY DEF TypeInv, TypeOK
<1>c. /\ \A u \in Sends : At[u] \in Convos
      /\ \A u \in Turns : ConvoOf(u) \in Convos /\ u[1] \in Sends
      /\ 0 \in Gens /\ None \notin Sends
  BY TurnFacts, ChatAssumption DEF Gens
<1>1. /\ UNCHANGED <<kind, send, last>>
      /\ \A t \in Turns : turn'[t].pc = turn[t].pc
      /\ gen' = gen \/ \E c \in Convos : gen' = [gen EXCEPT ![c] = 1]
      /\ \A s \in Sends : SameRoom(s)
      /\ \A c \in Convos, g \in Gens : rt'[c][g].cur = rt[c][g].cur /\ rt'[c][g].queue \in {None, rt[c][g].queue}
  BY <1>0, OtherFrame
<1>2. \A c \in Convos : Open(c)' => Open(c)
  BY <1>0, <1>1 DEF Open
<1>3. ReplyInv'
  <2>1. \A t \in Turns : Replying(t)' => Replying(t)
    BY <1>1 DEF Replying
  <2>2. QED
    BY <1>c, <1>1, <1>2, <2>1, ReplyFrame DEF OneAtATime, SameRoom
<1>4. QueueInv' /\ StoredLast'
  <2>1. \A u \in Sends : Open(At[u])' /\ send[u].pc \in Ahead => rt'[At[u]][0].queue = None
    BY <1>c, <1>1, <1>2 DEF OneAtATime, QueueInv
  <2>2. \A u \in Sends : Open(At[u])' /\ rt'[At[u]][0].queue = u => last[At[u]] = u
    BY <1>c, <1>1, <1>2 DEF OneAtATime, QueueInv
  <2>3. \A c \in Convos, g \in Gens : rt'[c][g].queue # None => kind[c] = "group"
    BY <1>1 DEF OneAtATime, QueueInv
  <2>4. \A u \in Sends : Open(At[u])' /\ send[u].pc = "gate" => last[At[u]] = u
    BY <1>c, <1>2 DEF OneAtATime, StoredLast
  <2>5. QED
    BY <1>1, <2>1, <2>2, <2>3, <2>4 DEF QueueInv, StoredLast
<1>5. QED
  BY <1>3, <1>4 DEF OneAtATime

(* After a crash nothing is under way.                                     *)
LEMMA ReplyCrash ==
  ASSUME Crash
  PROVE  OneAtATime'
<1>1. \A t \in Turns : ~Replying(t)'
  BY DEF Crash, NoTurn, Replying
<1>2. \A c \in Convos, g \in Gens : rt'[c][g].queue = None
  BY DEF Crash, NoRuntime
<1>3. \A s \in Sends : send'[s].pc \in {"new", "sent"} /\ At[s] \in Convos /\ s # None
  BY ChatAssumption DEF Crash, NoSend, Sent
<1>4. 0 \in Gens
  BY DEF Gens
<1>5. ReplyInv'
  BY <1>1 DEF ReplyInv
<1>6. QueueInv' /\ StoredLast'
  BY <1>2, <1>3, <1>4 DEF QueueInv, StoredLast, Ahead
<1>7. QED
  BY <1>5, <1>6 DEF OneAtATime

-----------------------------------------------------------------------------
(* The theorems                                                            *)

(* The inductive invariant holds in every reachable state.                 *)
LEMMA Invariance == Spec => []Inv
<1>1. Init => Inv
  <2> SUFFICES ASSUME Init PROVE Inv
    OBVIOUS
  <2>1. Fresh /\ FirstGen
    BY TurnFacts DEF Init, Fresh, NotYet, FirstGen, NoSend, NoRoom, NoTurn
  <2>2. QueueInv /\ ReplyInv /\ StoredLast
    BY TurnFacts, ChatAssumption DEF Init, QueueInv, ReplyInv, StoredLast, Replying, NoRuntime, NoTurn, NoSend, Ahead, Gens
  <2>3. QED
    BY <2>1, <2>2, InitTyped DEF Inv
<1>2. Inv /\ [Next]_vars => Inv'
  <2>1. ASSUME Inv, Next PROVE Inv'
    <3>1. TypeInv'
      BY <2>1, TypeInvStep DEF Inv
    <3>2. Fresh' /\ FirstGen'
      BY <2>1, FreshStep, FirstGenStep DEF Inv
    <3>3. OneAtATime'
      BY <2>1, ReplySends, ReplyRooms, ReplyTurns, ReplyOthers, ReplyCrash DEF Inv, OneAtATime, Next
    <3>4. QED
      BY <3>1, <3>2, <3>3 DEF Inv, OneAtATime
  <2>2. ASSUME Inv, UNCHANGED vars PROVE Inv'
    <3>1. TypeInv' /\ Fresh' /\ FirstGen'
      BY <2>2 DEF Inv, TypeInv, TypeOK, Chained, Linked, Queued, Fresh, NotYet, FirstGen, Open, vars
    <3>2. QueueInv' /\ ReplyInv' /\ StoredLast'
      BY <2>2 DEF Inv, QueueInv, ReplyInv, StoredLast, Replying, Open, vars
    <3>3. QED
      BY <3>1, <3>2 DEF Inv
  <2>3. QED
    BY <2>1, <2>2
<1>3. QED
  BY <1>1, <1>2, PTL DEF Spec

(* While a conversation is open, one reply at most is under way in it: the *)
(* one its runtime has as current (interruptCurrentTurn, runGroupQueue).   *)
THEOREM OneReplyAtATime == Spec => []OneReply
<1>1. Inv => OneReply
  BY TurnFacts DEF Inv, ReplyInv, OneReply, Open
<1>2. QED
  BY <1>1, Invariance, PTL

(* No reply of a superseded message, and no later member of a superseded   *)
(* group queue, goes to the model.                                         *)
THEOREM LatestAnswered == Spec => AnswersLatest
<1>1. Inv /\ [Next]_vars =>
        [\A t \in Turns : turn[t].pc = "build" /\ turn'[t].pc = "exec" /\ gen[ConvoOf(t)] = 0 =>
            last[ConvoOf(t)] = t[1]]_vars
  BY DEF Inv, ReplyInv, Replying, Open
<1>2. QED
  BY <1>1, Invariance, PTL DEF Spec, AnswersLatest

(* A reply that was delivered, interrupted or failed is never rewritten,   *)
(* by whatever fails after it, nor by a restart (finalizeMessage).         *)
THEOREM OutcomeStands == Spec => ReplyStands
<1>1. Inv /\ [Next]_vars =>
        [\A t \in Turns : msg[t] \in {"complete", "interrupted", "failed"} => msg'[t] = msg[t]]_vars
  BY FreshStep DEF Inv
<1>2. QED
  BY <1>1, Invariance, PTL DEF Spec, ReplyStands

=============================================================================
