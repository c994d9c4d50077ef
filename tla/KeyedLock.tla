------------------------------ MODULE KeyedLock ------------------------------
(***************************************************************************)
(* The keyed async lock every lifecycle operation of the server runs under *)
(* (packages/server/src/lib/keyed-lock.ts).  The registry maps a key to an *)
(* entry that exists exactly while the key is locked and carries the queue *)
(* of waiters.  Nothing in the entry names the holder: whoever was granted *)
(* the lock owns a release closure, and mutual exclusion rests on each     *)
(* closure handing the entry on once and no more.                          *)
(*                                                                         *)
(* One call of acquireKeyedLock is one member of Calls; it may be reused   *)
(* once its caller has dropped the release closure.                        *)
(***************************************************************************)
EXTENDS Naturals, Sequences, SequencesExt

CONSTANTS
    Keys,       \* keys of one registry, e.g. project ids
    Calls,      \* identities of acquire calls
    None        \* no key

ASSUME NoneAssumption == None \notin Keys /\ None \notin Calls

VARIABLES
    entry,      \* entry[k]: is there a registry entry for k
    queue,      \* queue[k]: the waiters of k's entry, in serving order
    key,        \* key[c]: the key call c asked for, None before it asks
    priority,   \* priority[c]: did c ask to queue ahead of plain waiters
    status      \* status[c]: how far call c has got

vars == <<entry, queue, key, priority, status>>

(***************************************************************************)
(* "waiting" is a waiter whose grant callback is still set; "granted" one  *)
(* whose promise resolved with a release closure that was not called yet;  *)
(* "released" one whose closure ran but is still in its caller's hands, so *)
(* it can be called again; "rejected" one that gave up.                    *)
(***************************************************************************)
Status == {"new", "waiting", "granted", "released", "rejected"}

TypeOK ==
    /\ entry \in [Keys -> BOOLEAN]
    /\ queue \in [Keys -> Seq(Calls)]
    /\ key \in [Calls -> Keys \union {None}]
    /\ priority \in [Calls -> BOOLEAN]
    /\ status \in [Calls -> Status]

Init ==
    /\ entry = [k \in Keys |-> FALSE]
    /\ queue = [k \in Keys |-> <<>>]
    /\ key = [c \in Calls |-> None]
    /\ priority = [c \in Calls |-> FALSE]
    /\ status = [c \in Calls |-> "new"]

-----------------------------------------------------------------------------
(* Acquiring                                                               *)

(* No entry: the call creates it and holds the lock, whatever its signal.  *)
AcquireFree(c, k) ==
    /\ status[c] = "new"
    /\ ~entry[k]
    /\ entry' = [entry EXCEPT ![k] = TRUE]
    /\ queue' = [queue EXCEPT ![k] = <<>>]
    /\ key' = [key EXCEPT ![c] = k]
    /\ status' = [status EXCEPT ![c] = "granted"]
    /\ UNCHANGED priority

(* Wrong places, for the properties to reject: every priority waiter at    *)
(* the very front; every plain one ahead of the plain ones that wait.      *)
QueuePlaceFront(q, prio, at) ==
    at = IF prio THEN 1 ELSE Len(q) + 1

QueuePlaceNewestFirst(q, prio, at) ==
    /\ at \in 1..(Len(q) + 1)
    /\ \A i \in 1..(at - 1) : priority[q[i]]
    /\ at <= Len(q) => ~priority[q[at]]

(* The place a waiter takes: a plain one the end; a priority one the place *)
(* of the first plain waiter, or the end when there is none.               *)
QueuePlace(q, prio, at) ==
    /\ at \in 1..(Len(q) + 1)
    /\ IF prio
       THEN /\ \A i \in 1..(at - 1) : priority[q[i]]
            /\ at <= Len(q) => ~priority[q[at]]
       ELSE at = Len(q) + 1

(* The key is held: the call queues.                                       *)
AcquireHeld(c, k, prio) ==
    /\ status[c] = "new"
    /\ entry[k]
    /\ \E at \in 1..(Len(queue[k]) + 1) :
          /\ QueuePlace(queue[k], prio, at)
          /\ queue' = [queue EXCEPT ![k] = InsertAt(@, at, c)]
    /\ key' = [key EXCEPT ![c] = k]
    /\ priority' = [priority EXCEPT ![c] = prio]
    /\ status' = [status EXCEPT ![c] = "waiting"]
    /\ UNCHANGED entry

(* The key is held and the caller's signal has already fired.              *)
AcquireAborted(c, k) ==
    /\ status[c] = "new"
    /\ entry[k]
    /\ key' = [key EXCEPT ![c] = k]
    /\ status' = [status EXCEPT ![c] = "rejected"]
    /\ UNCHANGED <<entry, queue, priority>>

(* Wrong ways to give up: the slot stays behind, the last waiter is moved  *)
(* into it, or the call ends in a state nobody else knows.                 *)
GiveUpKeepsSlot(c) ==
    /\ status[c] = "waiting"
    /\ status' = [status EXCEPT ![c] = "rejected"]
    /\ UNCHANGED <<entry, queue, key, priority>>

GiveUpMovesLast(c) ==
    LET k == key[c] IN
    /\ status[c] = "waiting"
    /\ \E i \in DOMAIN queue[k] :
          /\ queue[k][i] = c
          /\ queue' = [queue EXCEPT ![k] = Front([@ EXCEPT ![i] = Last(queue[k])])]
    /\ status' = [status EXCEPT ![c] = "rejected"]
    /\ UNCHANGED <<entry, key, priority>>

GiveUpUnsettled(c) ==
    LET k == key[c] IN
    /\ status[c] = "waiting"
    /\ queue' = [queue EXCEPT ![k] = SelectSeq(@, LAMBDA d : d # c)]
    /\ status' = [status EXCEPT ![c] = "settling"]
    /\ UNCHANGED <<entry, key, priority>>

(* Abort or deadline while queued.  A call whose grant already ran has no  *)
(* grant callback left and the event is ignored.                           *)
GiveUp(c) ==
    LET k == key[c] IN
    /\ status[c] = "waiting"
    /\ \E i \in DOMAIN queue[k] :
          /\ queue[k][i] = c
          /\ queue' = [queue EXCEPT ![k] = RemoveAt(@, i)]
    /\ status' = [status EXCEPT ![c] = "rejected"]
    /\ UNCHANGED <<entry, key, priority>>

-----------------------------------------------------------------------------
(* Releasing                                                               *)

(* The release closure's first call: the head of the queue is granted in   *)
(* the same synchronous run, or the entry is deleted.                      *)
HandOn(c, k) ==
    IF queue[k] = <<>>
    THEN /\ entry' = [entry EXCEPT ![k] = FALSE]
         /\ status' = [status EXCEPT ![c] = "released"]
         /\ UNCHANGED queue
    ELSE /\ queue' = [queue EXCEPT ![k] = Tail(@)]
         /\ status' = [status EXCEPT ![c] = "released",
                                     ![Head(queue[k])] = "granted"]
         /\ UNCHANGED entry

Release(c) ==
    /\ status[c] = "granted"
    /\ HandOn(c, key[c])
    /\ UNCHANGED <<key, priority>>

(* A closure without its `released` flag.                                  *)
ReleaseAgainHandsOn(c) ==
    /\ status[c] = "released"
    /\ HandOn(c, key[c])
    /\ UNCHANGED <<key, priority>>

(* A later call of the same closure: `released` is set, nothing happens.   *)
ReleaseAgain(c) ==
    /\ status[c] = "released"
    /\ UNCHANGED vars

(* The caller lets go of its closure or its rejection.                     *)
Forget(c) ==
    /\ status[c] \in {"released", "rejected"}
    /\ status' = [status EXCEPT ![c] = "new"]
    /\ key' = [key EXCEPT ![c] = None]
    /\ priority' = [priority EXCEPT ![c] = FALSE]
    /\ UNCHANGED <<entry, queue>>

Next ==
    \E c \in Calls :
        \/ \E k \in Keys : AcquireFree(c, k)
        \/ \E k \in Keys, prio \in BOOLEAN : AcquireHeld(c, k, prio)
        \/ \E k \in Keys : AcquireAborted(c, k)
        \/ GiveUp(c)
        \/ Release(c)
        \/ ReleaseAgain(c)
        \/ Forget(c)

Spec == Init /\ [][Next]_vars

(* withKeyedLock releases in a finally and the operations run under it     *)
(* settle, so a granted call releases.  Nothing obliges anybody to ask, to *)
(* give up or to drop a closure.                                           *)
FairSpec == Spec /\ \A c \in Calls : WF_vars(Release(c))

-----------------------------------------------------------------------------
(* Properties                                                              *)

Granted(k) == {c \in Calls : status[c] = "granted" /\ key[c] = k}
Waiting(k) == {c \in Calls : status[c] = "waiting" /\ key[c] = k}

(* No two calls are ever inside the section of one key.                    *)
MutualExclusion ==
    \A k \in Keys : \A c, d \in Granted(k) : c = d

(* A registry entry exists exactly while somebody holds the key, so a key  *)
(* is never left locked with nobody to release it, nor freed while held.   *)
EntryMeansHeld ==
    \A k \in Keys : entry[k] <=> Granted(k) # {}

(* The queue of an entry is exactly its live waiters, each once: a call    *)
(* that gave up has no slot the holder could hand the lock to.             *)
QueueIsWaiters ==
    \A k \in Keys :
        /\ \A i \in DOMAIN queue[k] : queue[k][i] \in Waiting(k)
        /\ \A i, j \in DOMAIN queue[k] : queue[k][i] = queue[k][j] => i = j
        /\ \A c \in Waiting(k) : \E i \in DOMAIN queue[k] : queue[k][i] = c

(* Nobody queues for a key that has no entry.                              *)
FreeMeansEmpty ==
    \A k \in Keys : ~entry[k] => queue[k] = <<>>

(* Every priority waiter is served before every plain one.                 *)
PriorityFirst ==
    \A k \in Keys : \A i, j \in DOMAIN queue[k] :
        (i < j /\ priority[queue[k][j]]) => priority[queue[k][i]]

(* A call that waits or holds does so for a key.                           *)
AskedForKey ==
    \A c \in Calls : status[c] \in {"waiting", "granted"} => key[c] \in Keys

(* The safety of the lock, as one inductive invariant.                     *)
LockInv ==
    /\ AskedForKey
    /\ MutualExclusion
    /\ EntryMeansHeld
    /\ QueueIsWaiters
    /\ FreeMeansEmpty
    /\ PriorityFirst

(* c is served before d when k is handed on.                               *)
Before(c, d, k) ==
    \E i, j \in DOMAIN queue[k] : i < j /\ queue[k][i] = c /\ queue[k][j] = d

(* Two waiters never swap places: arrivals may go ahead of a plain waiter, *)
(* but the order of those already queued is the order they are served in.  *)
OrderKept ==
    [][\A k \in Keys : \A c, d \in Calls :
          (Before(c, d, k) /\ status'[c] = "waiting" /\ status'[d] = "waiting")
              => Before(c, d, k)']_vars

(* A priority waiter is served whoever else keeps arriving: later arrivals *)
(* never pass it.                                                          *)
PriorityServed ==
    \A c \in Calls :
        (status[c] = "waiting" /\ priority[c]) ~> (status[c] # "waiting")

(* A plain waiter, with no deadline of its own, can be kept waiting only   *)
(* by priority waiters that never stop coming.                             *)
PlainServed ==
    <>[](\A c \in Calls : status[c] = "waiting" => ~priority[c])
        => \A c \in Calls : (status[c] = "waiting") ~> (status[c] # "waiting")

(* The queue implements the abstract lock.                                 *)
TheHolder(k) ==
    IF Granted(k) = {} THEN None ELSE CHOOSE c \in Calls : c \in Granted(k)

Abs == INSTANCE AbstractLock WITH
         holder <- [k \in Keys |-> TheHolder(k)],
         waiting <- [k \in Keys |-> Waiting(k)]

ImplementsLock == Abs!AbsSpec
=============================================================================
