---------------------------- MODULE ChatSession ----------------------------
(***************************************************************************)
(* The chat session manager (services/chat-session-manager.ts): messages   *)
(* sent to conversations, the replies (turns) they start, and who waits    *)
(* for whom: a newer message for the reply it interrupts, a close or a     *)
(* shutdown for what it aborts, a compaction for its turn on the members'  *)
(* memory.                                                                 *)
(*                                                                         *)
(* JavaScript runs to completion between awaits, so an action is what      *)
(* happens from one await that takes time to the next.  A conversation's   *)
(* bookkeeping lives in a runtime, which a close evicts; what was already  *)
(* under way keeps the evicted one.  Generation 0 is the runtime a         *)
(* conversation starts with, 1 the one made after its close.               *)
(***************************************************************************)
EXTENDS Naturals, Sequences

CONSTANTS
    Convos,      \* conversations
    Sends,       \* messages, each sent at most once
    At,          \* the conversation of each message
    Casts,       \* the conversations there may be: their kinds, None for no conversation
    Replies,     \* how many agents answer each message, if to a group
    MaxMishaps,  \* bounds closes, shutdowns, crashes and failing clean-ups
    None

(* A worker's DM is an assistant thread of another agent than the CEO: the *)
(* model tells the two apart because only the CEO's is given a title.      *)
Kinds == {"assistant", "worker", "coworker", "group"}

ASSUME ChatAssumption ==
    /\ At \in [Sends -> Convos]
    /\ Casts \subseteq [Convos -> Kinds \cup {None}]
    /\ Replies \in [Sends -> Nat \ {0}]
    /\ MaxMishaps \in Nat
    /\ None \notin Sends \cup (Sends \X Nat)

Turns == UNION {{s} \X (1..Replies[s]) : s \in Sends}
Gens == 0..1
ConvoOf(t) == At[t[1]]

VARIABLES
    kind,     \* chat_conversations.kind
    gen,      \* the generation of the runtime in the map `convos'
    chain,    \* turnLock of each runtime: the sends chained on it
    rt,       \* ConversationRuntime: reply, reply queue, compaction, titling
    send,     \* sendTurn, sendWorkerTurn, sendGroupTurn
    room,     \* runGroupQueue of each group message
    turn,     \* runChatTurn
    msg,      \* the reply's row in chat_messages
    folds,    \* memberCompactionLock: the compactions chained on it
    closing,  \* closeConversation
    stop,     \* stop or restart, and what it found under way
    last,     \* history: the message stored last in each conversation
    mishaps

vars == <<kind, gen, chain, rt, send, room, turn, msg, folds, closing, stop, last, mishaps>>

NoRuntime == [cur |-> None, queue |-> None, comp |-> None, titl |-> None]
NoSend == [pc |-> "new", in |-> 0, rt |-> 0, wait |-> None]
Sent == [NoSend EXCEPT !.pc = "sent"]
NoRoom == [pc |-> "none", i |-> 1, own |-> 0, in |-> 0, dropped |-> {}]
NoTurn == [pc |-> "none", own |-> 0, in |-> 0, abort |-> FALSE, compAbort |-> FALSE, done |-> FALSE]
NotClosing == [pc |-> "open", wait |-> None]

Runtimes == [cur : Turns \cup {None}, queue : Sends \cup {None},
             comp : Turns \cup {None}, titl : Turns \cup {None}]
SendStates == [pc : {"new", "chained", "comp", "title", "cur", "gate", "sent"},
               in : Gens, rt : Gens, wait : Turns \cup {None}]
RoomStates == [pc : {"none", "gate", "inserted", "running", "over"},
               i : Nat \ {0}, own : Gens, in : Gens, dropped : SUBSET Nat]
TurnStates == [pc : {"none", "acquire", "build", "exec", "scrub", "upkeep", "titling",
                     "parked", "folding", "teardown", "failing", "over"},
               own : Gens, in : Gens, abort : BOOLEAN, compAbort : BOOLEAN, done : BOOLEAN]
Rows == {"none", "streaming", "complete", "interrupted", "failed"}
Closings == [pc : {"open", "cur", "comp", "titl", "evicted", "closed"}, wait : Turns \cup {None}]

TypeOK ==
    /\ kind \in Casts
    /\ gen \in [Convos -> Gens]
    /\ chain \in [Convos -> [Gens -> Seq(Sends)]]
    /\ rt \in [Convos -> [Gens -> Runtimes]]
    /\ send \in [Sends -> SendStates]
    /\ room \in [Sends -> RoomStates]
    /\ \A s \in Sends : room[s].i <= Replies[s] /\ room[s].dropped \subseteq 1..Replies[s]
    /\ turn \in [Turns -> TurnStates]
    /\ msg \in [Turns -> Rows]
    /\ folds \in Seq(Turns)
    /\ closing \in [Convos -> Closings]
    /\ stop \in [pc : {"up", "waiting", "stopped"}, turns : SUBSET Turns, rooms : SUBSET Sends]
    /\ last \in [Convos -> Sends \cup {None}]
    /\ mishaps \in 0..MaxMishaps

Init ==
    /\ kind \in Casts
    /\ gen = [c \in Convos |-> 0]
    /\ chain = [c \in Convos |-> [g \in Gens |-> <<>>]]
    /\ rt = [c \in Convos |-> [g \in Gens |-> NoRuntime]]
    /\ send = [s \in Sends |-> NoSend]
    /\ room = [s \in Sends |-> NoRoom]
    /\ turn = [t \in Turns |-> NoTurn]
    /\ msg = [t \in Turns |-> "none"]
    /\ folds = <<>>
    /\ closing = [c \in Convos |-> NotClosing]
    /\ stop = [pc |-> "up", turns |-> {}, rooms |-> {}]
    /\ last = [c \in Convos |-> None]
    /\ mishaps = 0

Mishap == mishaps < MaxMishaps /\ mishaps' = mishaps + 1

-----------------------------------------------------------------------------
(* A promise is settled when the turn has passed the part it stands for.   *)
TurnOver(t) == t # None => turn[t].pc = "over"
FoldOver(t) == t # None => turn[t].pc \notin {"parked", "folding"}
TitleOver(t) == t # None => turn[t].pc # "titling"

(* Mutant: any row is rewritten.                                           *)
FinalizedAnyway(t, s) == [msg EXCEPT ![t] = s]

(* finalizeMessage: only a row still in flight.                            *)
Finalized(t, s) == [msg EXCEPT ![t] = IF @ = "streaming" THEN s ELSE @]

(* The turn's promise settles; the group queue reads its signal once more. *)
Ended(t) ==
    [turn EXCEPT ![t] = [NoTurn EXCEPT !.pc = "over",
                                       !.abort = turn[t].abort /\ kind[ConvoOf(t)] = "group"]]

(* convo.current = null, if it is this turn's: runTurn clears the runtime  *)
(* it found when it began, runChatTurn at last the one it was started on.  *)
Cleared(t, g) == [rt EXCEPT ![ConvoOf(t)][g].cur = IF @ = t THEN None ELSE @]

(* Abort signals raised on the turns of A and on the compactions of C.     *)
Signalled(A, C) ==
    [t \in Turns |-> [turn[t] EXCEPT !.abort = @ \/ t \in A, !.compAbort = @ \/ t \in C]]

-----------------------------------------------------------------------------
(* A message: sendTurn, sendWorkerTurn, sendGroupTurn.                     *)

(* It chains on the runtime it finds.                                      *)
Post(s) ==
    LET c == At[s] IN
    /\ send[s].pc = "new" /\ kind[c] # None /\ closing[c].pc # "closed"
    /\ send' = [send EXCEPT ![s].pc = "chained", ![s].in = gen[c]]
    /\ chain' = [chain EXCEPT ![c][gen[c]] = Append(@, s)]
    /\ UNCHANGED <<kind, gen, rt, room, turn, msg, folds, closing, stop, last, mishaps>>

(* Its turn comes.  A group drops the queue of the message before it; a    *)
(* compaction is told to stop, and awaited if its exec has begun.          *)
Begin(s) ==
    LET c == At[s]
        g == gen[c]
        t == rt[c][g].comp
    IN
    /\ send[s].pc = "chained" /\ Head(chain[c][send[s].in]) = s
    /\ rt' = IF kind[c] = "group" THEN [rt EXCEPT ![c][g].queue = None] ELSE rt
    /\ turn' = Signalled({}, {t})
    /\ send' = [send EXCEPT ![s].pc = "comp", ![s].rt = g,
                            ![s].wait = IF t # None /\ turn[t].pc = "folding" THEN t ELSE None]
    /\ UNCHANGED <<kind, gen, chain, room, msg, folds, closing, stop, last, mishaps>>

(* A title being made is told to stop, and awaited.                        *)
StopTitling(s) ==
    LET t == rt[At[s]][send[s].rt].titl IN
    /\ send[s].pc = "comp" /\ FoldOver(send[s].wait)
    /\ t # None
    /\ send' = [send EXCEPT ![s].pc = "title", ![s].wait = t]
    /\ UNCHANGED <<kind, gen, chain, rt, room, turn, msg, folds, closing, stop, last, mishaps>>

(* Mutant: the reply is told to stop and not awaited.                      *)
NotAwaited(t) == None

(* What a newer message waits for before it goes on.                       *)
Awaited(t) == t

(* The reply in flight is interrupted, or, among coworkers, waited for.    *)
Interrupt(s) ==
    LET c == At[s]
        r == rt[c][send[s].rt]
    IN
    /\ \/ send[s].pc = "comp" /\ FoldOver(send[s].wait) /\ r.titl = None
       \/ send[s].pc = "title" /\ TitleOver(send[s].wait)
    /\ turn' = IF kind[c] = "coworker" THEN turn ELSE Signalled({r.cur}, {})
    /\ send' = [send EXCEPT ![s].pc = "cur", ![s].wait = Awaited(r.cur)]
    /\ UNCHANGED <<kind, gen, chain, rt, room, msg, folds, closing, stop, last, mishaps>>

(* persistUserBatch: the message is stored before anything can refuse it.  *)
Store(s) ==
    /\ send[s].pc = "cur" /\ TurnOver(send[s].wait)
    /\ last' = [last EXCEPT ![At[s]] = s]
    /\ send' = [send EXCEPT ![s].pc = "gate", ![s].wait = None]
    /\ UNCHANGED <<kind, gen, chain, rt, room, turn, msg, folds, closing, stop, mishaps>>

(* Mutant: a send that throws leaves the chain as it is.                   *)
ChainKept(s, ok) ==
    IF ok THEN [chain EXCEPT ![At[s]][send[s].in] = Tail(@)] ELSE chain

(* The send's promise is settled, and with it the link of the chain.       *)
Unchained(s, ok) == [chain EXCEPT ![At[s]][send[s].in] = Tail(@)]

(* Over budget, no credential, or a group message nobody answers.          *)
Refuse(s) ==
    /\ send[s].pc = "gate"
    /\ send' = [send EXCEPT ![s] = Sent]
    /\ chain' = Unchained(s, FALSE)
    /\ UNCHANGED <<kind, gen, rt, room, turn, msg, folds, closing, stop, last, mishaps>>

(* The turn t of a send or room that has runtime g starts: its row is in,  *)
(* it takes the runtime now in the map, and the sender registers it.       *)
Started(t) == [turn EXCEPT ![t] = [NoTurn EXCEPT !.pc = "acquire", !.own = gen[ConvoOf(t)]]]

KickTurn(s) ==
    LET t == <<s, 1>> IN
    /\ send[s].pc = "gate" /\ kind[At[s]] # "group"
    /\ msg' = [msg EXCEPT ![t] = "streaming"]
    /\ turn' = Started(t)
    /\ rt' = [rt EXCEPT ![At[s]][send[s].rt].cur = t]
    /\ send' = [send EXCEPT ![s] = Sent]
    /\ chain' = Unchained(s, TRUE)
    /\ UNCHANGED <<kind, gen, room, folds, closing, stop, last, mishaps>>

KickQueue(s) ==
    /\ send[s].pc = "gate" /\ kind[At[s]] = "group"
    /\ room' = [room EXCEPT ![s] = [NoRoom EXCEPT !.pc = "gate", !.own = gen[At[s]], !.in = gen[At[s]]]]
    /\ rt' = [rt EXCEPT ![At[s]][send[s].rt].queue = s]
    /\ send' = [send EXCEPT ![s] = Sent]
    /\ chain' = Unchained(s, TRUE)
    /\ UNCHANGED <<kind, gen, turn, msg, folds, closing, stop, last, mishaps>>

-----------------------------------------------------------------------------
(* runGroupQueue: the replies to a group message, one after the other.     *)

(* Mutant: the queue is not looked at again.                               *)
QueueIgnored(s) == TRUE

(* The queue of the message is still that of the runtime this reply found. *)
QueueStands(s) == rt[At[s]][room[s].in].queue = s

RoomOver(s) ==
    /\ room' = [room EXCEPT ![s] = [NoRoom EXCEPT !.pc = "over"]]
    /\ rt' = [rt EXCEPT ![At[s]][room[s].own].queue = IF @ = s THEN None ELSE @]

(* Mutant: one past the last reply.                                        *)
PendingOneMore(s) == {i \in (room[s].i + 1)..(Replies[s] + 1) : i \notin room[s].dropped}

(* The replies of the queue after this one that were not cancelled.        *)
Pending(s) == {i \in (room[s].i + 1)..Replies[s] : i \notin room[s].dropped}

(* The loop goes on to the next reply, or the chain stops.                 *)
RoomNext(s) ==
    \/ /\ rt[At[s]][room[s].own].queue = s
       /\ \E i \in Pending(s) :
             /\ \A j \in Pending(s) : i <= j
             /\ room' = [room EXCEPT ![s].pc = "gate", ![s].in = gen[At[s]], ![s].i = i]
       /\ UNCHANGED rt
    \/ /\ rt[At[s]][room[s].own].queue # s \/ Pending(s) = {}
       /\ RoomOver(s)

(* The agent is over budget, or its row is inserted.                       *)
RoomGate(s) ==
    /\ room[s].pc = "gate"
    /\ \/ /\ RoomNext(s)
          /\ UNCHANGED msg
       \/ /\ room' = [room EXCEPT ![s].pc = "inserted"]
          /\ msg' = [msg EXCEPT ![<<s, room[s].i>>] = "streaming"]
          /\ UNCHANGED rt
    /\ UNCHANGED <<kind, gen, chain, send, turn, folds, closing, stop, last, mishaps>>

(* The queue may have been replaced while the row was being inserted.      *)
RoomKick(s) ==
    LET t == <<s, room[s].i>> IN
    /\ room[s].pc = "inserted"
    /\ \/ /\ QueueStands(s)
          /\ turn' = Started(t)
          /\ rt' = [rt EXCEPT ![At[s]][room[s].in].cur = t]
          /\ room' = [room EXCEPT ![s].pc = "running"]
          /\ UNCHANGED msg
       \/ /\ ~QueueStands(s)
          /\ msg' = Finalized(t, "interrupted")
          /\ RoomOver(s)
          /\ UNCHANGED turn
    /\ UNCHANGED <<kind, gen, chain, send, folds, closing, stop, last, mishaps>>

RoomReplied(s) ==
    LET t == <<s, room[s].i>> IN
    /\ room[s].pc = "running" /\ turn[t].pc = "over"
    /\ \/ /\ turn[t].abort
          /\ RoomOver(s)
       \/ /\ ~turn[t].abort
          /\ RoomNext(s)
    /\ UNCHANGED <<kind, gen, chain, send, turn, msg, folds, closing, stop, last, mishaps>>

(* cancelGroupPendingTurn: a reply that has not started is dropped.        *)
CancelReply(t) ==
    LET s == t[1] IN
    /\ rt[At[s]][gen[At[s]]].queue = s
    /\ t[2] \in Pending(s)
    /\ room' = [room EXCEPT ![s].dropped = @ \cup {t[2]}]
    /\ UNCHANGED <<kind, gen, chain, rt, send, turn, msg, folds, closing, stop, last, mishaps>>

-----------------------------------------------------------------------------
(* A reply: runChatTurn, with acquireForChatTurn and runTurn.              *)

(* A container is claimed.  The abort signal is read before each attempt,  *)
(* so a claim may still come after it.                                     *)
Acquire(t) ==
    /\ turn[t].pc = "acquire"
    /\ turn' = [turn EXCEPT ![t].pc = "build"]
    /\ UNCHANGED <<kind, gen, chain, rt, send, room, msg, folds, closing, stop, last, mishaps>>

(* Mutant: an interrupted wait for a container leaves the row as it is.    *)
LeftStreaming(t) == msg

(* What an interrupted wait for a container writes.                        *)
ParkInterrupted(t) == Finalized(t, "interrupted")

(* The wait for a container ends without one: interrupted, or refused,     *)
(* past its deadline or failed.                                            *)
AcquireNothing(t) ==
    /\ turn[t].pc = "acquire"
    /\ \/ turn[t].abort /\ msg' = ParkInterrupted(t)
       \/ msg' = Finalized(t, "failed")
    /\ turn' = Ended(t)
    /\ rt' = Cleared(t, turn[t].own)
    /\ UNCHANGED <<kind, gen, chain, send, room, folds, closing, stop, last, mishaps>>

(* buildTurnSession, and the prompt is composed; or it throws.             *)
Build(t) ==
    /\ turn[t].pc = "build"
    /\ turn' = [turn EXCEPT ![t].pc = "exec", ![t].in = gen[ConvoOf(t)]]
    /\ UNCHANGED <<kind, gen, chain, rt, send, room, msg, folds, closing, stop, last, mishaps>>

BuildThrows(t) ==
    /\ turn[t].pc = "build"
    /\ turn' = [turn EXCEPT ![t].pc = "failing"]
    /\ UNCHANGED <<kind, gen, chain, rt, send, room, msg, folds, closing, stop, last, mishaps>>

(* The exec ends, and the row with it.  One that ended by itself just      *)
(* before the abort is complete all the same.  When its usage cannot be    *)
(* recorded after that, the row stays and the reply has no upkeep.         *)
ExecEnds(t) ==
    /\ turn[t].pc = "exec"
    /\ \/ /\ msg' = Finalized(t, "complete")
          /\ \E metered \in BOOLEAN :
                turn' = [turn EXCEPT ![t].pc = "scrub", ![t].done = metered]
       \/ /\ msg' = Finalized(t, IF turn[t].abort THEN "interrupted" ELSE "failed")
          /\ turn' = [turn EXCEPT ![t].pc = "scrub"]
    /\ UNCHANGED <<kind, gen, chain, rt, send, room, folds, closing, stop, last, mishaps>>

(* maybeCompact, with the runtimes as r has them: not beside a reply or    *)
(* another compaction in the runtime now in the map.                       *)
Compacts(t, r) ==
    LET c == ConvoOf(t)
        g == gen[c]
    IN
    \/ /\ r[c][g].cur # None \/ r[c][g].comp # None
       /\ turn' = [turn EXCEPT ![t].pc = "teardown"]
       /\ rt' = r
       /\ UNCHANGED folds
    \/ /\ r[c][g].cur = None /\ r[c][g].comp = None
       /\ turn' = [turn EXCEPT ![t].pc = "parked", ![t].in = g]
       /\ rt' = [r EXCEPT ![c][g].comp = t]
       /\ folds' = Append(folds, t)

(* The prompt is removed, the conversation is free for the next reply, and *)
(* a completed one goes on to its upkeep.                                  *)
Scrub(t) ==
    LET c == ConvoOf(t)
        r == Cleared(t, turn[t].in)
        titles == kind[c] = "assistant" /\ rt[c][gen[c]].titl = None
    IN
    /\ turn[t].pc = "scrub"
    /\ \/ /\ ~turn[t].done \/ turn[t].abort \/ kind[c] = "coworker"
          /\ turn' = [turn EXCEPT ![t].pc = "teardown"]
          /\ rt' = r
          /\ UNCHANGED folds
       \/ /\ turn[t].done /\ ~turn[t].abort /\ titles
          /\ turn' = [turn EXCEPT ![t].pc = "upkeep", ![t].in = gen[c]]
          /\ rt' = r
          /\ UNCHANGED folds
       \/ /\ turn[t].done /\ ~turn[t].abort /\ ~titles /\ kind[c] # "coworker"
          /\ Compacts(t, r)
    /\ UNCHANGED <<kind, gen, chain, send, room, msg, closing, stop, last, mishaps>>

(* maybeAutoTitle: the thread is untitled and a title is made, or not.     *)
Title(t) ==
    /\ turn[t].pc = "upkeep"
    /\ \/ /\ turn' = [turn EXCEPT ![t].pc = "titling"]
          /\ rt' = [rt EXCEPT ![ConvoOf(t)][turn[t].in].titl = t]
          /\ UNCHANGED folds
       \/ Compacts(t, rt)
    /\ UNCHANGED <<kind, gen, chain, send, room, msg, closing, stop, last, mishaps>>

TitleEnds(t) ==
    /\ turn[t].pc = "titling"
    /\ Compacts(t, [rt EXCEPT ![ConvoOf(t)][turn[t].in].titl = IF @ = t THEN None ELSE @])
    /\ UNCHANGED <<kind, gen, chain, send, room, msg, closing, stop, last, mishaps>>

(* Its turn on the memory comes: aborted meanwhile, it does nothing.       *)
Fold(t) ==
    /\ turn[t].pc = "parked" /\ Head(folds) = t /\ ~turn[t].compAbort
    /\ turn' = [turn EXCEPT ![t].pc = "folding"]
    /\ UNCHANGED <<kind, gen, chain, rt, send, room, msg, folds, closing, stop, last, mishaps>>

FoldEnds(t) ==
    /\ \/ turn[t].pc = "folding"
       \/ turn[t].pc = "parked" /\ Head(folds) = t /\ turn[t].compAbort
    /\ turn' = [turn EXCEPT ![t].pc = "teardown"]
    /\ rt' = [rt EXCEPT ![ConvoOf(t)][turn[t].in].comp = IF @ = t THEN None ELSE @]
    /\ folds' = Tail(folds)
    /\ UNCHANGED <<kind, gen, chain, send, room, msg, closing, stop, last, mishaps>>

(* teardownTurn, and the container is given back.                          *)
Teardown(t) ==
    /\ turn[t].pc = "teardown"
    /\ turn' = Ended(t)
    /\ rt' = Cleared(t, turn[t].own)
    /\ UNCHANGED <<kind, gen, chain, send, room, msg, folds, closing, stop, last, mishaps>>

(* The removal of the prompt throws: the container is given back all the   *)
(* same.                                                                   *)
ScrubThrows(t) ==
    /\ turn[t].pc = "scrub"
    /\ Mishap
    /\ turn' = [turn EXCEPT ![t].pc = "failing"]
    /\ UNCHANGED <<kind, gen, chain, rt, send, room, msg, folds, closing, stop, last>>

(* What was thrown is written on the row, if it is still in flight.        *)
FailLate(t) ==
    /\ turn[t].pc = "failing"
    /\ msg' = Finalized(t, "failed")
    /\ turn' = Ended(t)
    /\ rt' = Cleared(t, turn[t].own)
    /\ UNCHANGED <<kind, gen, chain, send, room, folds, closing, stop, last, mishaps>>

-----------------------------------------------------------------------------
(* closeConversation and abortConversationRuntime.                         *)

(* What a runtime may have under way, in the order it is stopped.          *)
Parts == <<"cur", "comp", "titl">>

(* The first part from n on that is under way is told to stop, and         *)
(* awaited; when there is none, the runtime is evicted.                    *)
CloseOn(c, n) ==
    LET r == rt[c][gen[c]] IN
    \/ \E p \in n..3 :
          LET t == r[Parts[p]] IN
          /\ t # None /\ \A q \in n..(p - 1) : r[Parts[q]] = None
          /\ turn' = [turn EXCEPT ![t].abort = @ \/ Parts[p] = "cur",
                                  ![t].compAbort = @ \/ Parts[p] = "comp"]
          /\ closing' = [closing EXCEPT ![c] = [pc |-> Parts[p], wait |-> t]]
          /\ UNCHANGED gen
    \/ /\ \A p \in n..3 : r[Parts[p]] = None
       /\ closing' = [closing EXCEPT ![c] = [pc |-> "evicted", wait |-> None]]
       /\ gen' = [gen EXCEPT ![c] = 1]
       /\ UNCHANGED turn

CloseBegin(c) ==
    /\ closing[c].pc = "open" /\ kind[c] # None
    /\ Mishap
    /\ rt' = [rt EXCEPT ![c][gen[c]].queue = None]
    /\ CloseOn(c, 1)
    /\ UNCHANGED <<kind, chain, send, room, msg, folds, stop, last>>

CloseGoesOn(c) ==
    /\ \/ closing[c].pc = "cur" /\ TurnOver(closing[c].wait) /\ CloseOn(c, 2)
       \/ closing[c].pc = "comp" /\ FoldOver(closing[c].wait) /\ CloseOn(c, 3)
       \/ closing[c].pc = "titl" /\ TitleOver(closing[c].wait) /\ CloseOn(c, 4)
    /\ UNCHANGED <<kind, chain, rt, send, room, msg, folds, stop, last, mishaps>>

CloseMark(c) ==
    /\ closing[c].pc = "evicted"
    /\ closing' = [closing EXCEPT ![c].pc = "closed"]
    /\ UNCHANGED <<kind, gen, chain, rt, send, room, turn, msg, folds, stop, last, mishaps>>

(* abortAllCurrent, by stop or restart: every runtime in the map is told   *)
(* to stop, and every turn and group queue under way is awaited whole.     *)
StopBegin ==
    LET mapped == {rt[c][gen[c]] : c \in Convos} IN
    /\ stop.pc = "up"
    /\ Mishap
    /\ rt' = [c \in Convos |-> [rt[c] EXCEPT ![gen[c]].queue = None]]
    /\ turn' = Signalled({r.cur : r \in mapped}, {r.comp : r \in mapped})
    /\ stop' = [pc |-> "waiting",
                turns |-> {t \in Turns : turn[t].pc \notin {"none", "over"}},
                rooms |-> {s \in Sends : room[s].pc \notin {"none", "over"}}]
    /\ UNCHANGED <<kind, gen, chain, send, room, msg, folds, closing, last>>

StopEnds ==
    /\ stop.pc = "waiting"
    /\ \A t \in stop.turns : turn[t].pc = "over"
    /\ \A s \in stop.rooms : room[s].pc = "over"
    /\ stop' = [stop EXCEPT !.pc = "stopped"]
    /\ UNCHANGED <<kind, gen, chain, rt, send, room, turn, msg, folds, closing, last, mishaps>>

(* The process dies.  reconcileDatabaseOnStartup deletes the rows in       *)
(* flight that have no text yet and marks the others interrupted.          *)
Crash ==
    /\ Mishap
    /\ msg' \in {m \in [Turns -> Rows] :
                    \A t \in Turns : IF msg[t] = "streaming" THEN m[t] \in {"none", "interrupted"}
                                                             ELSE m[t] = msg[t]}
    /\ gen' = [c \in Convos |-> IF closing[c].pc = "closed" THEN 1 ELSE 0]
    /\ chain' = [c \in Convos |-> [g \in Gens |-> <<>>]]
    /\ rt' = [c \in Convos |-> [g \in Gens |-> NoRuntime]]
    /\ send' = [s \in Sends |-> IF send[s].pc = "new" THEN NoSend ELSE Sent]
    /\ room' = [s \in Sends |-> IF room[s].pc = "none" THEN NoRoom ELSE [NoRoom EXCEPT !.pc = "over"]]
    /\ turn' = [t \in Turns |-> IF turn[t].pc = "none" THEN NoTurn ELSE [NoTurn EXCEPT !.pc = "over"]]
    /\ folds' = <<>>
    /\ closing' = [c \in Convos |-> IF closing[c].pc = "closed" THEN closing[c] ELSE NotClosing]
    /\ stop' = [pc |-> "up", turns |-> {}, rooms |-> {}]
    /\ UNCHANGED <<kind, last>>

-----------------------------------------------------------------------------
SendStep(s) ==
    Begin(s) \/ StopTitling(s) \/ Interrupt(s) \/ Store(s) \/ Refuse(s) \/ KickTurn(s) \/ KickQueue(s)

RoomStep(s) == RoomGate(s) \/ RoomKick(s) \/ RoomReplied(s)

TurnStep(t) ==
    \/ Acquire(t) \/ AcquireNothing(t) \/ Build(t) \/ BuildThrows(t) \/ ExecEnds(t)
    \/ Scrub(t) \/ Title(t) \/ TitleEnds(t) \/ Fold(t) \/ FoldEnds(t)
    \/ Teardown(t) \/ FailLate(t)

CloseStep(c) == CloseGoesOn(c) \/ CloseMark(c)

Next ==
    \/ \E s \in Sends : Post(s) \/ SendStep(s) \/ RoomStep(s)
    \/ \E t \in Turns : TurnStep(t) \/ ScrubThrows(t) \/ CancelReply(t)
    \/ \E c \in Convos : CloseBegin(c) \/ CloseStep(c)
    \/ StopBegin \/ StopEnds
    \/ Crash

Spec == Init /\ [][Next]_vars

(* Statements are answered, an exec ends, a wait for a container or a      *)
(* credential has a deadline: as long as something can go on, something    *)
(* does.  Messages are finitely many, so nothing starves.                  *)
GoesOn ==
    \/ \E s \in Sends : SendStep(s) \/ RoomStep(s)
    \/ \E t \in Turns : TurnStep(t)
    \/ \E c \in Convos : CloseStep(c)
    \/ StopEnds

FairSpec == Spec /\ WF_vars(GoesOn)

-----------------------------------------------------------------------------
Replying(t) == turn[t].pc \in {"acquire", "build", "exec", "scrub"}

(* While a conversation is open, one reply at most is under way in it: a   *)
(* newer message starts its own only when the one it interrupted, or, in a *)
(* coworkers' thread, waited for, has left its exec, and the queues of two *)
(* group messages never answer side by side.                               *)
OneReply ==
    \A t, u \in Turns :
        Replying(t) /\ Replying(u) /\ ConvoOf(t) = ConvoOf(u) /\ gen[ConvoOf(t)] = 0 => t = u

(* In an open conversation a reply goes to the model only while the        *)
(* message it answers is the last one stored: no reply of a superseded     *)
(* message, and no later member of a superseded group queue, starts.       *)
AnswersLatest ==
    [][\A t \in Turns : turn[t].pc = "build" /\ turn'[t].pc = "exec" /\ gen[ConvoOf(t)] = 0 =>
           last[ConvoOf(t)] = t[1]]_vars

(* A reply's outcome stands: what fails after it, its clean-up, its upkeep *)
(* or a restart, does not rewrite a delivered reply.                       *)
ReplyStands ==
    [][\A t \in Turns : msg[t] \in {"complete", "interrupted", "failed"} => msg'[t] = msg[t]]_vars

(* Every reply ends: its row leaves the streaming state and its container  *)
(* is given back, however it was interrupted, refused, or cut short, and   *)
(* so does every queue of replies to a group message.                      *)
RepliesEnd ==
    []<>(/\ \A t \in Turns : msg[t] # "streaming" /\ turn[t].pc \in {"none", "over"}
         /\ \A s \in Sends : room[s].pc \in {"none", "over"})

(* Nobody waits for ever: a message behind others in its conversation, a   *)
(* close and a shutdown all come to their end, though each waits for turns *)
(* that wait for a compaction of another conversation.                     *)
WaitersReturn ==
    []<>(/\ \A s \in Sends : send[s].pc \in {"new", "sent"}
         /\ \A c \in Convos : closing[c].pc \in {"open", "closed"}
         /\ stop.pc # "waiting")

=============================================================================
