--------------------------- MODULE KeyedLockProofs ---------------------------
(* Proofs about KeyedLock, for any number of keys and calls.               *)
EXTENDS KeyedLock, SequenceTheorems, TLAPS

(* What inserting into a queue does to every position of it.               *)
LEMMA InsertAtFacts ==
  ASSUME NEW S, NEW s \in Seq(S), NEW at \in 1..(Len(s) + 1), NEW e \in S
  PROVE  /\ InsertAt(s, at, e) \in Seq(S)
         /\ Len(InsertAt(s, at, e)) = Len(s) + 1
         /\ \A j \in 1..(Len(s) + 1) :
               InsertAt(s, at, e)[j] =
                   IF j < at THEN s[j] ELSE IF j = at THEN e ELSE s[j - 1]
<1> DEFINE a == SubSeq(s, 1, at - 1)
           b == SubSeq(s, at, Len(s))
<1>1. /\ a \in Seq(S) /\ Len(a) = at - 1
      /\ \A j \in 1..(at - 1) : a[j] = s[j]
  BY SubSeqProperties
<1>2. /\ b \in Seq(S) /\ Len(b) = Len(s) - at + 1
      /\ \A j \in 1..(Len(s) - at + 1) : b[j] = s[at + j - 1]
  BY SubSeqProperties
<1>3. InsertAt(s, at, e) = (a \o <<e>>) \o b
  BY DEF InsertAt
<1> HIDE DEF a, b
<1>4. <<e>> \in Seq(S) /\ Len(<<e>>) = 1 /\ <<e>>[1] = e
  OBVIOUS
<1>5. /\ a \o <<e>> \in Seq(S) /\ Len(a \o <<e>>) = at
      /\ \A j \in 1..at : (a \o <<e>>)[j] = IF j < at THEN s[j] ELSE e
  BY <1>1, <1>4, ConcatProperties
<1>6. QED
  BY <1>2, <1>3, <1>5, ConcatProperties

(* What removing from a queue does to every position of it.                *)
LEMMA RemoveAtFacts ==
  ASSUME NEW S, NEW s \in Seq(S), NEW i \in 1..Len(s)
  PROVE  /\ RemoveAt(s, i) \in Seq(S)
         /\ Len(RemoveAt(s, i)) = Len(s) - 1
         /\ \A j \in 1..(Len(s) - 1) :
               RemoveAt(s, i)[j] = IF j < i THEN s[j] ELSE s[j + 1]
<1> DEFINE a == SubSeq(s, 1, i - 1)
           b == SubSeq(s, i + 1, Len(s))
<1>1. /\ a \in Seq(S) /\ Len(a) = i - 1
      /\ \A j \in 1..(i - 1) : a[j] = s[j]
  BY SubSeqProperties
<1>2. /\ b \in Seq(S) /\ Len(b) = Len(s) - i
      /\ \A j \in 1..(Len(s) - i) : b[j] = s[i + j]
  BY SubSeqProperties
<1>n. Len(s) \in Nat /\ i \in Nat
  OBVIOUS
<1>3. RemoveAt(s, i) = a \o b
  BY DEF RemoveAt
<1> HIDE DEF a, b
<1>4. /\ a \o b \in Seq(S) /\ Len(a \o b) = Len(s) - 1
      /\ \A j \in 1..(Len(s) - 1) :
            (a \o b)[j] = IF j <= i - 1 THEN a[j] ELSE b[j - (i - 1)]
  <2>1. (i - 1) + (Len(s) - i) = Len(s) - 1
    BY <1>n
  <2>2. /\ a \o b \in Seq(S) /\ Len(a \o b) = Len(a) + Len(b)
        /\ \A j \in 1..(Len(a) + Len(b)) :
              (a \o b)[j] = IF j <= Len(a) THEN a[j] ELSE b[j - Len(a)]
    BY <1>1, <1>2, ConcatProperties
  <2>3. QED
    BY <1>1, <1>2, <2>1, <2>2
<1>5. ASSUME NEW j \in 1..(Len(s) - 1)
      PROVE  (a \o b)[j] = IF j < i THEN s[j] ELSE s[j + 1]
  <2>1. CASE j < i
    BY <1>1, <1>4, <2>1
  <2>2. CASE ~(j < i)
    <3>1. j - (i - 1) \in 1..(Len(s) - i) /\ i + (j - (i - 1)) = j + 1
      BY <1>n, <2>2
    <3>2. QED
      BY <1>2, <1>4, <2>2, <3>1
  <2>3. QED
    BY <2>1, <2>2
<1>6. QED
  BY <1>3, <1>4, <1>5
-----------------------------------------------------------------------------
(* Every step keeps the types: the registry holds sequences of calls.      *)
THEOREM TypeCorrect == Spec => []TypeOK
<1>1. Init => TypeOK
  BY DEF Init, TypeOK, Status
<1>2. TypeOK /\ [Next]_vars => TypeOK'
  <2> SUFFICES ASSUME TypeOK, [Next]_vars
               PROVE  TypeOK'
    OBVIOUS
  <2> USE DEF TypeOK, Status
  <2>1. ASSUME NEW c \in Calls, NEW k \in Keys, AcquireFree(c, k)
        PROVE  TypeOK'
    BY <2>1 DEF AcquireFree
  <2>2. ASSUME NEW c \in Calls, NEW k \in Keys, NEW prio \in BOOLEAN,
               AcquireHeld(c, k, prio)
        PROVE  TypeOK'
    <3>1. PICK at \in 1..(Len(queue[k]) + 1) :
             queue' = [queue EXCEPT ![k] = InsertAt(queue[k], at, c)]
      BY <2>2 DEF AcquireHeld
    <3>2. InsertAt(queue[k], at, c) \in Seq(Calls)
      BY InsertAtFacts
    <3>3. QED
      BY <2>2, <3>1, <3>2 DEF AcquireHeld
  <2>3. ASSUME NEW c \in Calls, NEW k \in Keys, AcquireAborted(c, k)
        PROVE  TypeOK'
    BY <2>3 DEF AcquireAborted
  <2>4. ASSUME NEW c \in Calls, GiveUp(c)
        PROVE  TypeOK'
    <3>1. PICK i \in DOMAIN queue[key[c]] :
             queue' = [queue EXCEPT ![key[c]] = RemoveAt(queue[key[c]], i)]
      BY <2>4 DEF GiveUp
    <3>2. CASE key[c] \in Keys
      <4>1. RemoveAt(queue[key[c]], i) \in Seq(Calls)
        BY <3>2, RemoveAtFacts
      <4>2. QED
        BY <2>4, <3>1, <3>2, <4>1 DEF GiveUp
    <3>3. CASE key[c] \notin Keys
      BY <2>4, <3>1, <3>3 DEF GiveUp
    <3>4. QED
      BY <3>2, <3>3
  <2>5. ASSUME NEW c \in Calls, Release(c)
        PROVE  TypeOK'
    <3>1. CASE queue[key[c]] = <<>>
      BY <2>5, <3>1 DEF Release, HandOn
    <3>2. CASE queue[key[c]] # <<>>
      <4>1. /\ queue' = [queue EXCEPT ![key[c]] = Tail(queue[key[c]])]
            /\ status' = [status EXCEPT ![c] = "released",
                                        ![Head(queue[key[c]])] = "granted"]
            /\ UNCHANGED <<entry, key, priority>>
        BY <2>5, <3>2 DEF Release, HandOn
      <4>2. queue' \in [Keys -> Seq(Calls)]
        <5>1. CASE key[c] \in Keys
          <6>1. Tail(queue[key[c]]) \in Seq(Calls)
            BY <3>2, <5>1, HeadTailProperties
          <6>2. QED
            BY <4>1, <5>1, <6>1
        <5>2. CASE key[c] \notin Keys
          BY <4>1, <5>2
        <5>3. QED
          BY <5>1, <5>2
      <4>3. QED
        BY <4>1, <4>2
    <3>3. QED
      BY <3>1, <3>2
  <2>6. ASSUME NEW c \in Calls, Forget(c)
        PROVE  TypeOK'
    BY <2>6 DEF Forget
  <2>7. CASE UNCHANGED vars
    BY <2>7 DEF vars
  <2>8. QED
    BY <2>1, <2>2, <2>3, <2>4, <2>5, <2>6, <2>7 DEF Next, ReleaseAgain
<1>3. QED
  BY <1>1, <1>2, PTL DEF Spec
-----------------------------------------------------------------------------
(* A fresh acquire of a free key keeps the invariant.                      *)
LEMMA AcquireFreeKeeps ==
  ASSUME TypeOK, LockInv, NEW c \in Calls, NEW k \in Keys, AcquireFree(c, k)
  PROVE  LockInv'
<1> USE DEF TypeOK, LockInv, Granted, Waiting
<1>1. /\ status[c] = "new" /\ ~entry[k]
      /\ entry' = [entry EXCEPT ![k] = TRUE]
      /\ queue' = [queue EXCEPT ![k] = <<>>]
      /\ key' = [key EXCEPT ![c] = k]
      /\ status' = [status EXCEPT ![c] = "granted"]
      /\ priority' = priority
  BY DEF AcquireFree
<1>2. queue' = queue /\ queue[k] = <<>>
  BY <1>1 DEF FreeMeansEmpty
<1>3. AskedForKey'
  BY <1>1 DEF AskedForKey
<1>4. MutualExclusion'
  BY <1>1 DEF MutualExclusion, EntryMeansHeld
<1>5. EntryMeansHeld'
  <2> SUFFICES ASSUME NEW l \in Keys
               PROVE  entry'[l] <=> Granted(l)' # {}
    BY DEF EntryMeansHeld
  <2>1. CASE l = k
    BY <1>1, <2>1
  <2>2. CASE l # k
    BY <1>1, <2>2 DEF EntryMeansHeld
  <2>3. QED
    BY <2>1, <2>2
<1>6. QueueIsWaiters'
  BY <1>1, <1>2 DEF QueueIsWaiters
<1>7. FreeMeansEmpty'
  BY <1>1, <1>2 DEF FreeMeansEmpty
<1>8. PriorityFirst'
  BY <1>1, <1>2 DEF PriorityFirst
<1>9. QED
  BY <1>3, <1>4, <1>5, <1>6, <1>7, <1>8

(* Queueing keeps the invariant: the call is new, so it stands in no queue *)
(* yet, and its place puts it after the priority waiters it may not pass.  *)
LEMMA AcquireHeldKeeps ==
  ASSUME TypeOK, LockInv, NEW c \in Calls, NEW k \in Keys,
         NEW prio \in BOOLEAN, AcquireHeld(c, k, prio)
  PROVE  LockInv'
<1> USE DEF TypeOK, LockInv, Granted, Waiting
<1>1. /\ status[c] = "new" /\ entry[k] /\ entry' = entry
      /\ key' = [key EXCEPT ![c] = k]
      /\ priority' = [priority EXCEPT ![c] = prio]
      /\ status' = [status EXCEPT ![c] = "waiting"]
  BY DEF AcquireHeld
<1> DEFINE q == queue[k]
<1>2. PICK at \in 1..(Len(q) + 1) :
         /\ QueuePlace(q, prio, at)
         /\ queue' = [queue EXCEPT ![k] = InsertAt(q, at, c)]
  BY DEF AcquireHeld
<1> DEFINE r == InsertAt(q, at, c)
<1>q. q \in Seq(Calls)
  OBVIOUS
<1>3. /\ r \in Seq(Calls) /\ Len(r) = Len(q) + 1
      /\ \A j \in 1..(Len(q) + 1) :
            r[j] = IF j < at THEN q[j] ELSE IF j = at THEN c ELSE q[j - 1]
  <2> HIDE DEF q
  <2>1. QED
    BY <1>q, InsertAtFacts
<1>4. q \in Seq(Calls) /\ Len(q) \in Nat /\ DOMAIN q = 1..Len(q)
      /\ DOMAIN r = 1..(Len(q) + 1)
  BY <1>3
<1>5. \A l \in Keys : \A i \in DOMAIN queue[l] :
         queue[l][i] # c /\ status[queue[l][i]] = "waiting"
  BY <1>1 DEF QueueIsWaiters
<1>6. queue'[k] = r /\ \A l \in Keys : l # k => queue'[l] = queue[l]
  BY <1>2
<1>c. at \in Nat /\ r[at] = c
  BY <1>3, <1>4
<1> HIDE DEF r
<1>7. \A i \in DOMAIN q : \E j \in DOMAIN r : r[j] = q[i] /\ j # at
  <2> SUFFICES ASSUME NEW i \in DOMAIN q
               PROVE  \E j \in DOMAIN r : r[j] = q[i] /\ j # at
    OBVIOUS
  <2>1. CASE i < at
    BY <1>3, <1>4, <2>1
  <2>2. CASE ~(i < at)
    <3>1. i + 1 \in DOMAIN r /\ i + 1 # at /\ ~(i + 1 < at) /\ (i + 1) - 1 = i
      BY <1>4, <2>2
    <3>2. QED
      BY <1>3, <1>4, <3>1
  <2>3. QED
    BY <2>1, <2>2
<1>8. \A j \in DOMAIN r : j # at => \E i \in DOMAIN q :
         r[j] = q[i] /\ i = IF j < at THEN j ELSE j - 1
  <2> SUFFICES ASSUME NEW j \in DOMAIN r, j # at
               PROVE  \E i \in DOMAIN q :
                         r[j] = q[i] /\ i = IF j < at THEN j ELSE j - 1
    OBVIOUS
  <2>1. CASE j < at
    BY <1>c, <1>3, <1>4, <2>1
  <2>2. CASE ~(j < at)
    <3>1. j - 1 \in DOMAIN q
      BY <1>c, <1>4, <2>2
    <3>2. QED
      BY <1>3, <1>4, <2>2, <3>1
  <2>3. QED
    BY <2>1, <2>2
<1>9. AskedForKey'
  BY <1>1 DEF AskedForKey
<1>10. MutualExclusion'
  BY <1>1 DEF MutualExclusion
<1>11. EntryMeansHeld'
  <2>1. \A l \in Keys : Granted(l)' = Granted(l)
    BY <1>1
  <2>2. QED
    BY <1>1, <2>1 DEF EntryMeansHeld
<1>12. QueueIsWaiters'
  <2> SUFFICES ASSUME NEW l \in Keys
               PROVE  /\ \A i \in DOMAIN queue'[l] : queue'[l][i] \in Waiting(l)'
                      /\ \A i, j \in DOMAIN queue'[l] :
                            queue'[l][i] = queue'[l][j] => i = j
                      /\ \A d \in Waiting(l)' :
                            \E i \in DOMAIN queue'[l] : queue'[l][i] = d
    BY DEF QueueIsWaiters
  <2>1. CASE l # k
    BY <1>1, <1>5, <1>6, <2>1 DEF QueueIsWaiters
  <2>2. CASE l = k
    <3>1. Waiting(k)' = Waiting(k) \union {c}
      BY <1>1
    <3>2. \A i \in DOMAIN q : q[i] \in Waiting(k) /\ q[i] # c
      BY <1>5 DEF QueueIsWaiters
    <3>3. \A i, j \in DOMAIN q : q[i] = q[j] => i = j
      BY DEF QueueIsWaiters
    <3>4. \A d \in Waiting(k) : \E i \in DOMAIN q : q[i] = d
      BY DEF QueueIsWaiters
    <3> HIDE DEF q, Waiting
    <3>5. \A i \in DOMAIN r : r[i] \in Waiting(k) \union {c}
      BY <1>c, <1>8, <3>2
    <3>6. \A d \in Waiting(k) \union {c} : \E i \in DOMAIN r : r[i] = d
      BY <1>c, <1>4, <1>7, <3>4
    <3>7. ASSUME NEW i \in DOMAIN r, NEW j \in DOMAIN r, r[i] = r[j]
          PROVE  i = j
      <4>1. CASE i = at
        BY <1>c, <1>8, <3>2, <3>7, <4>1
      <4>2. CASE j = at
        BY <1>c, <1>8, <3>2, <3>7, <4>2
      <4>3. CASE i # at /\ j # at
        BY <1>c, <1>4, <1>8, <3>3, <3>7, <4>3
      <4>4. QED
        BY <4>1, <4>2, <4>3
    <3>8. QED
      BY <1>6, <2>2, <3>1, <3>5, <3>6, <3>7
  <2>3. QED
    BY <2>1, <2>2
<1>13. FreeMeansEmpty'
  BY <1>1, <1>6 DEF FreeMeansEmpty
<1>14. PriorityFirst'
  <2> SUFFICES ASSUME NEW l \in Keys,
                      NEW i \in DOMAIN queue'[l], NEW j \in DOMAIN queue'[l],
                      i < j, priority'[queue'[l][j]]
               PROVE  priority'[queue'[l][i]]
    BY DEF PriorityFirst
  <2>1. CASE l # k
    BY <1>1, <1>5, <1>6, <2>1 DEF PriorityFirst
  <2>2. CASE l = k
    <3>1. \A m \in DOMAIN q : q[m] \in Calls /\ q[m] # c
                               /\ priority'[q[m]] = priority[q[m]]
      BY <1>1, <1>5
    <3>2. \A m, n \in DOMAIN q : (m < n /\ priority[q[n]]) => priority[q[m]]
      BY DEF PriorityFirst
    <3>3. priority'[c] = prio
      BY <1>1
    <3>4. i \in DOMAIN r /\ j \in DOMAIN r /\ priority'[r[j]]
      BY <1>6, <2>2
    <3>5. prio => /\ \A m \in 1..(at - 1) : priority[q[m]]
                  /\ at <= Len(q) => ~priority[q[at]]
      BY <1>2 DEF QueuePlace
    <3>6. ~prio => at = Len(q) + 1
      BY <1>2 DEF QueuePlace
    <3> HIDE DEF q
    <3>7. CASE j = at
      <4>1. prio /\ i \in 1..(at - 1) /\ i \in DOMAIN q /\ r[i] = q[i]
        BY <1>c, <1>3, <1>4, <3>3, <3>4, <3>7
      <4>2. QED
        BY <1>6, <2>2, <3>1, <3>5, <4>1
    <3>8. CASE i = at
      <4>1. j - 1 \in DOMAIN q /\ r[j] = q[j - 1] /\ at <= j - 1 /\ at \in DOMAIN q
        BY <1>c, <1>3, <1>4, <3>4, <3>8
      <4>2. prio
        BY <1>4, <3>6, <4>1
      <4>3. QED
        BY <1>c, <1>6, <2>2, <3>3, <3>8, <4>2
    <3>9. CASE i # at /\ j # at
      <4>1. PICK m \in DOMAIN q : r[i] = q[m] /\ m = IF i < at THEN i ELSE i - 1
        BY <1>8, <3>4, <3>9
      <4>2. PICK n \in DOMAIN q : r[j] = q[n] /\ n = IF j < at THEN j ELSE j - 1
        BY <1>8, <3>4, <3>9
      <4>3. m < n
        BY <1>c, <1>4, <3>4, <3>9, <4>1, <4>2
      <4>4. QED
        BY <1>6, <2>2, <3>1, <3>2, <3>4, <4>1, <4>2, <4>3
    <3>10. QED
      BY <3>7, <3>8, <3>9
  <2>3. QED
    BY <2>1, <2>2
<1>15. QED
  BY <1>9, <1>10, <1>11, <1>12, <1>13, <1>14
(* Giving up keeps the invariant: the call leaves the one slot it had.     *)
LEMMA GiveUpKeeps ==
  ASSUME TypeOK, LockInv, NEW c \in Calls, GiveUp(c)
  PROVE  LockInv'
<1> USE DEF TypeOK, LockInv, Granted, Waiting
<1>k. PICK k \in Keys : k = key[c]
  BY DEF GiveUp, AskedForKey
<1> DEFINE q == queue[k]
<1>1. /\ status[c] = "waiting" /\ entry' = entry /\ key' = key
      /\ priority' = priority
      /\ status' = [status EXCEPT ![c] = "rejected"]
  BY DEF GiveUp
<1>2. q \in Seq(Calls) /\ Len(q) \in Nat /\ DOMAIN q = 1..Len(q)
  OBVIOUS
<1>3. PICK at \in DOMAIN q : q[at] = c /\ queue' = [queue EXCEPT ![k] = RemoveAt(q, at)]
  BY <1>k DEF GiveUp
<1> DEFINE r == RemoveAt(q, at)
<1>4. /\ r \in Seq(Calls) /\ Len(r) = Len(q) - 1
      /\ \A j \in 1..(Len(q) - 1) : r[j] = IF j < at THEN q[j] ELSE q[j + 1]
  <2>1. at \in 1..Len(q)
    BY <1>2
  <2> HIDE DEF q
  <2>2. QED
    BY <1>2, <2>1, RemoveAtFacts
<1>5. DOMAIN r = 1..(Len(q) - 1) /\ at \in Nat
  BY <1>2, <1>4
<1>6. queue'[k] = r /\ \A l \in Keys : l # k => queue'[l] = queue[l]
  BY <1>2, <1>3
<1> HIDE DEF r
(* Positions of the shorter queue and of the longer one correspond.        *)
<1>7. ASSUME NEW j \in DOMAIN r
      PROVE  \E i \in DOMAIN q : r[j] = q[i] /\ i # at
                                 /\ i = IF j < at THEN j ELSE j + 1
  <2>1. CASE j < at
    BY <1>2, <1>4, <1>5, <2>1
  <2>2. CASE ~(j < at)
    <3>1. j + 1 \in DOMAIN q /\ j + 1 # at
      BY <1>2, <1>5, <2>2
    <3>2. QED
      BY <1>4, <1>5, <2>2, <3>1
  <2>3. QED
    BY <2>1, <2>2
<1>8. ASSUME NEW i \in DOMAIN q, i # at
      PROVE  \E j \in DOMAIN r : r[j] = q[i]
  <2>1. CASE i < at
    <3>1. i \in 1..(Len(q) - 1)
      BY <1>2, <1>5, <2>1
    <3>2. QED
      BY <1>4, <1>5, <2>1, <3>1
  <2>2. CASE ~(i < at)
    <3>1. i - 1 \in DOMAIN r /\ ~(i - 1 < at) /\ (i - 1) + 1 = i
      BY <1>2, <1>5, <1>8, <2>2
    <3>2. QED
      BY <1>4, <1>5, <3>1
  <2>3. QED
    BY <2>1, <2>2
<1>9. AskedForKey'
  BY <1>k, <1>1 DEF AskedForKey
<1>10. MutualExclusion'
  BY <1>k, <1>1 DEF MutualExclusion
<1>11. EntryMeansHeld'
  <2>1. \A l \in Keys : Granted(l)' = Granted(l)
    BY <1>k, <1>1
  <2>2. QED
    BY <1>k, <1>1, <2>1 DEF EntryMeansHeld
<1>12. QueueIsWaiters'
  <2> SUFFICES ASSUME NEW l \in Keys
               PROVE  /\ \A i \in DOMAIN queue'[l] : queue'[l][i] \in Waiting(l)'
                      /\ \A i, j \in DOMAIN queue'[l] :
                            queue'[l][i] = queue'[l][j] => i = j
                      /\ \A d \in Waiting(l)' :
                            \E i \in DOMAIN queue'[l] : queue'[l][i] = d
    BY DEF QueueIsWaiters
  <2>1. CASE l # k
    <3>1. Waiting(l)' = Waiting(l)
      BY <1>k, <1>1, <2>1
    <3>2. QED
      BY <1>6, <2>1, <3>1 DEF QueueIsWaiters
  <2>2. CASE l = k
    <3>1. Waiting(k)' = Waiting(k) \ {c}
      BY <1>k, <1>1, <1>2
    <3>2. /\ \A i \in DOMAIN q : q[i] \in Waiting(k)
          /\ \A i, j \in DOMAIN q : q[i] = q[j] => i = j
          /\ \A d \in Waiting(k) : \E i \in DOMAIN q : q[i] = d
      BY <1>2 DEF QueueIsWaiters
    <3> HIDE DEF q, Waiting
    <3>3. \A i \in DOMAIN r : r[i] \in Waiting(k) \ {c}
      BY <1>3, <1>7, <3>2
    <3>4. \A d \in Waiting(k) \ {c} : \E i \in DOMAIN r : r[i] = d
      BY <1>3, <1>8, <3>2
    <3>5. ASSUME NEW i \in DOMAIN r, NEW j \in DOMAIN r, r[i] = r[j]
          PROVE  i = j
      BY <1>5, <1>7, <3>2, <3>5
    <3>6. QED
      BY <1>6, <2>2, <3>1, <3>3, <3>4, <3>5
  <2>3. QED
    BY <2>1, <2>2
<1>13. FreeMeansEmpty'
  <2>1. ASSUME NEW l \in Keys, ~entry'[l]
        PROVE  queue'[l] = <<>>
    <3>1. queue[l] = <<>>
      BY <1>k, <1>1, <2>1 DEF FreeMeansEmpty
    <3>2. l # k
      BY <1>3, <3>1
    <3>3. QED
      BY <1>6, <3>1, <3>2
  <2>2. QED
    BY <2>1 DEF FreeMeansEmpty
<1>14. PriorityFirst'
  <2> SUFFICES ASSUME NEW l \in Keys,
                      NEW i \in DOMAIN queue'[l], NEW j \in DOMAIN queue'[l],
                      i < j, priority'[queue'[l][j]]
               PROVE  priority'[queue'[l][i]]
    BY DEF PriorityFirst
  <2>1. CASE l # k
    BY <1>k, <1>1, <1>6, <2>1 DEF PriorityFirst
  <2>2. CASE l = k
    <3>1. PICK m \in DOMAIN q : r[i] = q[m] /\ m = IF i < at THEN i ELSE i + 1
      BY <1>6, <1>7, <2>2
    <3>2. PICK n \in DOMAIN q : r[j] = q[n] /\ n = IF j < at THEN j ELSE j + 1
      BY <1>6, <1>7, <2>2
    <3>3. m < n
      BY <1>5, <1>6, <2>2, <3>1, <3>2
    <3>4. QED
      BY <1>k, <1>1, <1>2, <1>6, <2>2, <3>1, <3>2, <3>3 DEF PriorityFirst
  <2>3. QED
    BY <2>1, <2>2
<1>15. QED
  BY <1>9, <1>10, <1>11, <1>12, <1>13, <1>14

(* Releasing keeps the invariant: the entry passes to the head of the      *)
(* queue, which waits for this key and no longer stands in the queue.      *)
LEMMA ReleaseKeeps ==
  ASSUME TypeOK, LockInv, NEW c \in Calls, Release(c)
  PROVE  LockInv'
<1> USE DEF TypeOK, LockInv, Granted, Waiting
<1>k. PICK k \in Keys : k = key[c]
  BY DEF Release, AskedForKey
<1> DEFINE q == queue[k]
<1>1. status[c] = "granted" /\ key' = key /\ priority' = priority /\ HandOn(c, k)
  BY <1>k DEF Release
<1>2. q \in Seq(Calls) /\ Len(q) \in Nat /\ DOMAIN q = 1..Len(q)
  OBVIOUS
<1>3. \A d \in Granted(k) : d = c
  BY <1>k, <1>1, <1>2 DEF MutualExclusion
<1>4. CASE q = <<>>
  <2>1. /\ entry' = [entry EXCEPT ![k] = FALSE] /\ queue' = queue
        /\ status' = [status EXCEPT ![c] = "released"]
    BY <1>k, <1>1, <1>4 DEF HandOn
  <2>2. AskedForKey' /\ MutualExclusion'
    BY <1>k, <1>1, <2>1 DEF AskedForKey, MutualExclusion
  <2>3. EntryMeansHeld'
    <3>1. \A l \in Keys : Granted(l)' = Granted(l) \ {c}
      BY <1>k, <1>1, <2>1
    <3>2. \A l \in Keys : l # k => Granted(l)' = Granted(l)
      BY <1>k, <1>1, <2>1
    <3>3. Granted(k)' = {}
      BY <1>2, <1>3, <3>1
    <3>4. QED
      BY <1>2, <2>1, <3>2, <3>3 DEF EntryMeansHeld
  <2>4. QueueIsWaiters'
    <3>1. \A l \in Keys : Waiting(l)' = Waiting(l)
      BY <1>k, <1>1, <2>1
    <3>2. QED
      BY <2>1, <3>1 DEF QueueIsWaiters
  <2>5. FreeMeansEmpty' /\ PriorityFirst'
    BY <1>k, <1>1, <1>2, <1>4, <2>1 DEF FreeMeansEmpty, PriorityFirst
  <2>6. QED
    BY <2>2, <2>3, <2>4, <2>5
<1>5. CASE q # <<>>
  <2> DEFINE h == Head(q)
             r == Tail(q)
  <2>1. /\ queue' = [queue EXCEPT ![k] = r] /\ entry' = entry
        /\ status' = [status EXCEPT ![c] = "released", ![h] = "granted"]
    BY <1>k, <1>1, <1>5 DEF HandOn
  <2>2. /\ h \in Calls /\ h = q[1] /\ 1 \in DOMAIN q
        /\ r \in Seq(Calls) /\ Len(r) = Len(q) - 1
        /\ \A i \in 1..(Len(q) - 1) : r[i] = q[i + 1]
        /\ DOMAIN r = 1..(Len(q) - 1)
    BY <1>2, <1>5, HeadTailProperties
  <2>3. /\ \A i \in DOMAIN q : q[i] \in Waiting(k)
        /\ \A i, j \in DOMAIN q : q[i] = q[j] => i = j
        /\ \A d \in Waiting(k) : \E i \in DOMAIN q : q[i] = d
    BY <1>2 DEF QueueIsWaiters
  <2>4. queue'[k] = r /\ \A l \in Keys : l # k => queue'[l] = queue[l]
    BY <1>2, <2>1
  <2>5. status[h] = "waiting" /\ key[h] = k /\ h # c
    BY <1>k, <1>1, <2>2, <2>3
  <2>6. /\ Granted(k)' = {h}
        /\ \A l \in Keys : l # k => Granted(l)' = Granted(l)
    <3>1. \A d \in Calls : status'[d] = IF d = h THEN "granted" ELSE
                                         IF d = c THEN "released" ELSE status[d]
      BY <2>1, <2>2
    <3>2. QED
      BY <1>k, <1>1, <1>3, <2>2, <2>5, <3>1
  <2>7. /\ Waiting(k)' = Waiting(k) \ {h}
        /\ \A l \in Keys : l # k => Waiting(l)' = Waiting(l)
    BY <1>k, <1>1, <2>1, <2>2, <2>5
  <2>8. AskedForKey'
    BY <1>k, <1>1, <2>1, <2>2, <2>5 DEF AskedForKey
  <2>9. MutualExclusion' /\ EntryMeansHeld'
    <3>1. entry[k]
      BY <1>k, <1>1, <1>2 DEF EntryMeansHeld
    <3> HIDE DEF Granted
    <3>2. ASSUME NEW l \in Keys
          PROVE  /\ \A d, e \in Granted(l)' : d = e
                 /\ entry'[l] <=> Granted(l)' # {}
      <4>1. CASE l = k
        BY <2>1, <2>6, <3>1, <4>1
      <4>2. CASE l # k
        BY <2>1, <2>6, <4>2 DEF MutualExclusion, EntryMeansHeld
      <4>3. QED
        BY <4>1, <4>2
    <3>3. QED
      BY <3>2 DEF MutualExclusion, EntryMeansHeld
  <2>10. QueueIsWaiters'
    <3> SUFFICES ASSUME NEW l \in Keys
                 PROVE  /\ \A i \in DOMAIN queue'[l] : queue'[l][i] \in Waiting(l)'
                        /\ \A i, j \in DOMAIN queue'[l] :
                              queue'[l][i] = queue'[l][j] => i = j
                        /\ \A d \in Waiting(l)' :
                              \E i \in DOMAIN queue'[l] : queue'[l][i] = d
      BY DEF QueueIsWaiters
    <3>1. CASE l # k
      <4> HIDE DEF Waiting
      <4>1. QED
        BY <2>4, <2>7, <3>1 DEF QueueIsWaiters
    <3>2. CASE l = k
      <4> HIDE DEF q, r, h, Waiting
      <4>1. ASSUME NEW i \in DOMAIN r
            PROVE  i + 1 \in DOMAIN q /\ i + 1 # 1 /\ r[i] = q[i + 1]
        BY <1>2, <2>2
      <4>2. ASSUME NEW i \in DOMAIN q, i # 1
            PROVE  i - 1 \in DOMAIN r /\ r[i - 1] = q[i]
        BY <1>2, <2>2, <4>2
      <4>3. ASSUME NEW i \in DOMAIN r
            PROVE  r[i] \in Waiting(k) \ {h}
        <5>1. r[i] = q[i + 1] /\ i + 1 \in DOMAIN q /\ i + 1 # 1
          BY <4>1
        <5>2. q[i + 1] # q[1]
          BY <2>2, <2>3, <5>1
        <5>3. QED
          BY <2>2, <2>3, <5>1, <5>2
      <4>4. ASSUME NEW d \in Waiting(k) \ {h}
            PROVE  \E i \in DOMAIN r : r[i] = d
        <5>1. PICK i \in DOMAIN q : q[i] = d
          BY <2>3
        <5>2. i # 1
          BY <2>2, <5>1
        <5>3. QED
          BY <4>2, <5>1, <5>2
      <4>5. \A i, j \in DOMAIN r : r[i] = r[j] => i = j
        BY <2>2, <2>3, <4>1
      <4>6. QED
        BY <2>4, <2>7, <3>2, <4>3, <4>4, <4>5
    <3>3. QED
      BY <3>1, <3>2
  <2>11. FreeMeansEmpty'
    <3>1. entry[k]
      BY <1>k, <1>1, <1>2 DEF EntryMeansHeld
    <3>2. QED
      BY <2>1, <2>4, <3>1 DEF FreeMeansEmpty
  <2>12. PriorityFirst'
    <3> SUFFICES ASSUME NEW l \in Keys,
                        NEW i \in DOMAIN queue'[l], NEW j \in DOMAIN queue'[l],
                        i < j, priority'[queue'[l][j]]
                 PROVE  priority'[queue'[l][i]]
      BY DEF PriorityFirst
    <3>1. CASE l # k
      BY <1>k, <1>1, <2>4, <3>1 DEF PriorityFirst
    <3>2. CASE l = k
      <4>1. i + 1 \in DOMAIN q /\ j + 1 \in DOMAIN q /\ i + 1 < j + 1
            /\ r[i] = q[i + 1] /\ r[j] = q[j + 1]
        BY <1>2, <2>2, <2>4, <3>2
      <4>2. priority[q[j + 1]]
        BY <1>1, <2>4, <3>2, <4>1
      <4>3. priority[q[i + 1]]
        BY <4>1, <4>2 DEF PriorityFirst
      <4>4. QED
        BY <1>1, <2>4, <3>2, <4>1, <4>3
    <3>3. QED
      BY <3>1, <3>2
  <2>13. QED
    BY <2>8, <2>9, <2>10, <2>11, <2>12
<1>6. QED
  BY <1>4, <1>5

(* Mutual exclusion and the shape of the queue it rests on: whatever the   *)
(* number of calls, two are never inside the section of one key, an entry  *)
(* never outlives its holder and no settled call keeps a place in a queue. *)
THEOREM LockSafe == Spec => []LockInv
<1>1. Init => LockInv
  BY DEF Init, LockInv, AskedForKey, MutualExclusion, EntryMeansHeld,
         QueueIsWaiters, FreeMeansEmpty, PriorityFirst, Granted, Waiting
<1>2. TypeOK /\ LockInv /\ [Next]_vars => LockInv'
  <2> SUFFICES ASSUME TypeOK, LockInv, [Next]_vars
               PROVE  LockInv'
    OBVIOUS
  <2>1. ASSUME NEW c \in Calls, NEW k \in Keys, AcquireAborted(c, k)
        PROVE  LockInv'
    <3>1. /\ status[c] = "new" /\ entry' = entry /\ queue' = queue
          /\ priority' = priority /\ key' = [key EXCEPT ![c] = k]
          /\ status' = [status EXCEPT ![c] = "rejected"]
      BY <2>1 DEF AcquireAborted
    <3>2. \A l \in Keys : Granted(l)' = Granted(l) /\ Waiting(l)' = Waiting(l)
      BY <3>1 DEF TypeOK, Granted, Waiting
    <3>3. AskedForKey'
      BY <3>1 DEF TypeOK, LockInv, AskedForKey
    <3>4. QED
      BY <3>1, <3>2, <3>3 DEF LockInv, MutualExclusion, EntryMeansHeld,
                              QueueIsWaiters, FreeMeansEmpty, PriorityFirst
  <2>2. ASSUME NEW c \in Calls, Forget(c)
        PROVE  LockInv'
    <3>1. /\ status[c] \in {"released", "rejected"} /\ entry' = entry
          /\ queue' = queue /\ key' = [key EXCEPT ![c] = None]
          /\ priority' = [priority EXCEPT ![c] = FALSE]
          /\ status' = [status EXCEPT ![c] = "new"]
      BY <2>2 DEF Forget
    <3>2. \A l \in Keys : Granted(l)' = Granted(l) /\ Waiting(l)' = Waiting(l)
      BY <3>1 DEF TypeOK, Granted, Waiting
    <3>3. AskedForKey'
      BY <3>1 DEF TypeOK, LockInv, AskedForKey
    <3>4. PriorityFirst'
      <4>1. \A l \in Keys : \A i \in DOMAIN queue[l] :
               priority'[queue[l][i]] = priority[queue[l][i]]
        BY <3>1 DEF TypeOK, LockInv, QueueIsWaiters, Waiting
      <4>2. ASSUME NEW l \in Keys,
                   NEW i \in DOMAIN queue[l], NEW j \in DOMAIN queue[l],
                   i < j, priority'[queue[l][j]]
            PROVE  priority'[queue[l][i]]
        <5>1. priority[queue[l][j]]
          BY <4>1, <4>2
        <5>2. priority[queue[l][i]]
          BY <4>2, <5>1 DEF LockInv, PriorityFirst
        <5>3. QED
          BY <4>1, <5>2
      <4>3. QED
        BY <3>1, <4>2 DEF PriorityFirst
    <3>5. QED
      BY <3>1, <3>2, <3>3, <3>4 DEF LockInv, MutualExclusion, EntryMeansHeld,
                                    QueueIsWaiters, FreeMeansEmpty
  <2>3. CASE UNCHANGED vars
    BY <2>3 DEF vars, LockInv, AskedForKey, MutualExclusion, EntryMeansHeld,
         QueueIsWaiters, FreeMeansEmpty, PriorityFirst, Granted, Waiting
  <2>4. QED
    BY <2>1, <2>2, <2>3, AcquireFreeKeeps, AcquireHeldKeeps, GiveUpKeeps,
       ReleaseKeeps DEF Next, ReleaseAgain
<1>3. QED
  BY <1>1, <1>2, TypeCorrect, PTL DEF Spec

-----------------------------------------------------------------------------
(* The refinement                                                          *)

(* Whoever was granted a key is its holder, now or after a step.           *)
LEMMA HolderIs ==
  ASSUME LockInv, NEW k \in Keys, NEW c \in Granted(k)
  PROVE  TheHolder(k) = c
<1>1. \A d \in Granted(k) : d = c
  BY DEF LockInv, MutualExclusion
<1>2. c \in Calls
  BY DEF Granted
<1>3. QED
  BY <1>1, <1>2 DEF TheHolder

LEMMA NextHolderIs ==
  ASSUME NEW k \in Keys, NEW c \in Calls, Granted(k)' = {c}
  PROVE  TheHolder(k)' = c
BY DEF TheHolder

LEMMA NextHolderNone ==
  ASSUME NEW k \in Keys, Granted(k)' = {}
  PROVE  TheHolder(k)' = None
BY DEF TheHolder

LEMMA HolderStays ==
  ASSUME NEW k \in Keys, Granted(k)' = Granted(k)
  PROVE  TheHolder(k)' = TheHolder(k)
BY DEF TheHolder

(* A held key's holder is a call, a call that holds nothing is no holder.  *)
LEMMA HolderFacts ==
  ASSUME LockInv, NEW k \in Keys
  PROVE  /\ Granted(k) # {} => TheHolder(k) # None
         /\ Granted(k) = {} => TheHolder(k) = None
         /\ \A c \in Calls : c \notin Granted(k) => TheHolder(k) # c
<1>1. CASE Granted(k) = {}
  BY <1>1, NoneAssumption DEF TheHolder
<1>2. CASE Granted(k) # {}
  <2>1. PICK d \in Granted(k) : TRUE
    BY <1>2
  <2>2. TheHolder(k) = d /\ d \in Calls
    BY <2>1, HolderIs DEF Granted
  <2>3. QED
    BY <1>2, <2>1, <2>2, NoneAssumption
<1>3. QED
  BY <1>1, <1>2

(* A call that is new is outside every key's section and queue.            *)
LEMMA NewIsOutside ==
  ASSUME LockInv, NEW c \in Calls, status[c] = "new"
  PROVE  Abs!Outside(c)
<1>1. \A k \in Keys : c \notin Granted(k) /\ c \notin Waiting(k)
  BY DEF Granted, Waiting
<1>2. \A k \in Keys : TheHolder(k) # c
  BY <1>1, HolderFacts
<1>3. QED
  BY <1>1, <1>2 DEF Abs!Outside

LEMMA SameIsStutter ==
  ASSUME \A k \in Keys : Granted(k)' = Granted(k) /\ Waiting(k)' = Waiting(k)
  PROVE  UNCHANGED Abs!absVars
<1>1. \A k \in Keys : TheHolder(k)' = TheHolder(k)
  BY HolderStays
<1>2. QED
  BY <1>1 DEF Abs!absVars

LEMMA AcquireFreeTakes ==
  ASSUME TypeOK, LockInv, NEW c \in Calls, NEW k \in Keys, AcquireFree(c, k)
  PROVE  Abs!Take(c, k)
<1>1. /\ status[c] = "new" /\ ~entry[k]
      /\ key' = [key EXCEPT ![c] = k]
      /\ status' = [status EXCEPT ![c] = "granted"]
  BY DEF AcquireFree
<1>2. Granted(k) = {}
  BY <1>1 DEF LockInv, EntryMeansHeld
<1>3. /\ Granted(k)' = Granted(k) \union {c}
      /\ \A l \in Keys : l # k => Granted(l)' = Granted(l)
      /\ \A l \in Keys : Waiting(l)' = Waiting(l)
  BY <1>1 DEF TypeOK, Granted, Waiting
<1>4. Granted(k)' = {c}
  BY <1>2, <1>3
<1>5. TheHolder(k) = None /\ TheHolder(k)' = c
  BY <1>2, <1>4, HolderFacts, NextHolderIs
<1>6. \A l \in Keys : l # k => TheHolder(l)' = TheHolder(l)
  BY <1>3, HolderStays
<1>7. Abs!Outside(c)
  BY <1>1, NewIsOutside
<1>8. QED
  BY <1>3, <1>5, <1>6, <1>7 DEF Abs!Take

LEMMA AcquireHeldWaits ==
  ASSUME TypeOK, LockInv, NEW c \in Calls, NEW k \in Keys,
         NEW prio \in BOOLEAN, AcquireHeld(c, k, prio)
  PROVE  Abs!Wait(c, k)
<1>1. /\ status[c] = "new" /\ entry[k]
      /\ key' = [key EXCEPT ![c] = k]
      /\ status' = [status EXCEPT ![c] = "waiting"]
  BY DEF AcquireHeld
<1>2. Granted(k) # {}
  BY <1>1 DEF LockInv, EntryMeansHeld
<1>3. /\ Waiting(k)' = Waiting(k) \union {c}
      /\ \A l \in Keys : l # k => Waiting(l)' = Waiting(l)
      /\ \A l \in Keys : Granted(l)' = Granted(l)
  BY <1>1 DEF TypeOK, Granted, Waiting
<1>4. TheHolder(k) # None
  BY <1>2, HolderFacts
<1>5. \A l \in Keys : TheHolder(l)' = TheHolder(l)
  BY <1>3, HolderStays
<1>6. Abs!Outside(c)
  BY <1>1, NewIsOutside
<1>7. QED
  BY <1>3, <1>4, <1>5, <1>6 DEF Abs!Wait

LEMMA GiveUpLeaves ==
  ASSUME TypeOK, LockInv, NEW c \in Calls, GiveUp(c)
  PROVE  \E k \in Keys : Abs!Leave(c, k)
<1>1. PICK k \in Keys : k = key[c]
  BY DEF GiveUp, LockInv, AskedForKey
<1>2. /\ status[c] = "waiting" /\ key' = key
      /\ status' = [status EXCEPT ![c] = "rejected"]
  BY DEF GiveUp
<1>3. /\ c \in Waiting(k)
      /\ Waiting(k)' = Waiting(k) \ {c}
      /\ \A l \in Keys : l # k => Waiting(l)' = Waiting(l)
      /\ \A l \in Keys : Granted(l)' = Granted(l)
  BY <1>1, <1>2 DEF TypeOK, Granted, Waiting
<1>4. \A l \in Keys : TheHolder(l)' = TheHolder(l)
  BY <1>3, HolderStays
<1>5. QED
  BY <1>3, <1>4 DEF Abs!Leave

LEMMA ReleaseGivesBack ==
  ASSUME TypeOK, LockInv, NEW c \in Calls, Release(c)
  PROVE  \E k \in Keys : Abs!GiveBack(c, k)
<1>1. PICK k \in Keys : k = key[c]
  BY DEF Release, LockInv, AskedForKey
<1> DEFINE q == queue[k]
<1>2. status[c] = "granted" /\ key' = key /\ HandOn(c, k)
  BY <1>1 DEF Release
<1>3. c \in Granted(k) /\ \A d \in Granted(k) : d = c
  BY <1>1, <1>2 DEF Granted, LockInv, MutualExclusion
<1>4. TheHolder(k) = c
  BY <1>3, HolderIs
<1>5. CASE q = <<>>
  <2>1. status' = [status EXCEPT ![c] = "released"]
    BY <1>2, <1>5 DEF HandOn
  <2>2. Waiting(k) = {}
    BY <1>5 DEF LockInv, QueueIsWaiters
  <2>3. /\ Granted(k)' = Granted(k) \ {c}
        /\ \A l \in Keys : l # k => Granted(l)' = Granted(l)
        /\ \A l \in Keys : Waiting(l)' = Waiting(l)
    BY <1>1, <1>2, <2>1 DEF TypeOK, Granted, Waiting
  <2>4. Granted(k)' = {}
    BY <1>3, <2>3
  <2>5. TheHolder(k)' = None /\ \A l \in Keys : l # k => TheHolder(l)' = TheHolder(l)
    BY <2>3, <2>4, NextHolderNone, HolderStays
  <2>6. QED
    BY <1>4, <2>2, <2>3, <2>5 DEF Abs!GiveBack
<1>6. CASE q # <<>>
  <2> DEFINE h == Head(q)
  <2>1. status' = [status EXCEPT ![c] = "released", ![h] = "granted"]
    BY <1>2, <1>6 DEF HandOn
  <2>2. h = q[1] /\ 1 \in DOMAIN q
    BY <1>6, HeadTailProperties DEF TypeOK
  <2>3. h \in Waiting(k)
    BY <2>2 DEF LockInv, QueueIsWaiters
  <2>4. h \in Calls /\ status[h] = "waiting" /\ key[h] = k /\ h # c
    BY <1>2, <2>3 DEF Waiting
  <2> HIDE DEF h, q
  <2>5. \A d \in Calls : status'[d] = IF d = h THEN "granted" ELSE
                                      IF d = c THEN "released" ELSE status[d]
    BY <2>1, <2>4 DEF TypeOK
  <2>6. /\ Granted(k)' = {h}
        /\ \A l \in Keys : l # k => Granted(l)' = Granted(l)
    BY <1>1, <1>2, <1>3, <2>4, <2>5 DEF Granted
  <2>7. /\ Waiting(k)' = Waiting(k) \ {h}
        /\ \A l \in Keys : l # k => Waiting(l)' = Waiting(l)
    BY <1>1, <1>2, <2>4, <2>5 DEF Waiting
  <2>8. TheHolder(k)' = h /\ \A l \in Keys : l # k => TheHolder(l)' = TheHolder(l)
    BY <2>4, <2>6, NextHolderIs, HolderStays
  <2>9. QED
    BY <1>4, <2>3, <2>7, <2>8 DEF Abs!GiveBack
<1>7. QED
  BY <1>5, <1>6

(* The registry with its queues, its grants and its release closures is a  *)
(* keyed lock: every step of acquireKeyedLock, of a waiter giving up and   *)
(* of a release is a step the abstract lock allows, or none.               *)
THEOREM LockRefines == Spec => ImplementsLock
<1>1. Init => Abs!AbsInit
  <2> SUFFICES ASSUME Init PROVE Abs!AbsInit
    OBVIOUS
  <2>1. \A k \in Keys : Granted(k) = {} /\ Waiting(k) = {}
    BY DEF Init, Granted, Waiting
  <2>2. \A k \in Keys : TheHolder(k) = None
    BY <2>1 DEF TheHolder
  <2>3. QED
    BY <2>1, <2>2 DEF Abs!AbsInit
<1>2. TypeOK /\ LockInv /\ [Next]_vars => [Abs!AbsNext]_(Abs!absVars)
  <2> SUFFICES ASSUME TypeOK, LockInv, [Next]_vars
               PROVE  Abs!AbsNext \/ UNCHANGED Abs!absVars
    OBVIOUS
  <2>1. ASSUME NEW c \in Calls, NEW k \in Keys, AcquireAborted(c, k)
        PROVE  UNCHANGED Abs!absVars
    <3>1. \A l \in Keys : Granted(l)' = Granted(l) /\ Waiting(l)' = Waiting(l)
      BY <2>1 DEF AcquireAborted, TypeOK, Granted, Waiting
    <3>2. QED
      BY <3>1, SameIsStutter
  <2>2. ASSUME NEW c \in Calls, Forget(c)
        PROVE  UNCHANGED Abs!absVars
    <3>1. \A l \in Keys : Granted(l)' = Granted(l) /\ Waiting(l)' = Waiting(l)
      BY <2>2 DEF Forget, TypeOK, Granted, Waiting
    <3>2. QED
      BY <3>1, SameIsStutter
  <2>3. CASE UNCHANGED vars
    <3>1. \A l \in Keys : Granted(l)' = Granted(l) /\ Waiting(l)' = Waiting(l)
      BY <2>3 DEF vars, Granted, Waiting
    <3>2. QED
      BY <3>1, SameIsStutter
  <2>4. QED
    BY <2>1, <2>2, <2>3, AcquireFreeTakes, AcquireHeldWaits, GiveUpLeaves,
       ReleaseGivesBack DEF Next, ReleaseAgain, Abs!AbsNext
<1>3. QED
  BY <1>1, <1>2, TypeCorrect, LockSafe, PTL DEF Spec, ImplementsLock, Abs!AbsSpec
-----------------------------------------------------------------------------
(* The order of the queue                                                  *)

(* A queue something is taken out of keeps the order of the others.        *)
LEMMA OrderOfRemove ==
  ASSUME NEW S, NEW s \in Seq(S), NEW n \in 1..Len(s),
         NEW i \in DOMAIN s, NEW j \in DOMAIN s, i < j, i # n, j # n
  PROVE  \E x, y \in DOMAIN RemoveAt(s, n) :
            x < y /\ RemoveAt(s, n)[x] = s[i] /\ RemoveAt(s, n)[y] = s[j]
<1> DEFINE t == RemoveAt(s, n)
           x == IF i < n THEN i ELSE i - 1
           y == IF j < n THEN j ELSE j - 1
<1>1. /\ t \in Seq(S)
      /\ Len(t) = Len(s) - 1
      /\ \A m \in 1..(Len(s) - 1) : t[m] = IF m < n THEN s[m] ELSE s[m + 1]
  BY RemoveAtFacts
<1> HIDE DEF t
<1>2. i \in 1..Len(s) /\ j \in 1..Len(s) /\ Len(s) \in Nat /\ DOMAIN t = 1..(Len(s) - 1)
  BY <1>1
<1>3. x \in DOMAIN t /\ y \in DOMAIN t /\ x < y
  BY <1>2
<1>4. t[x] = s[i] /\ t[y] = s[j]
  BY <1>1, <1>2, <1>3
<1>5. QED
  BY <1>3, <1>4 DEF t

LEMMA OrderOfTail ==
  ASSUME NEW S, NEW s \in Seq(S), s # <<>>,
         NEW i \in DOMAIN s, NEW j \in DOMAIN s, i < j, i # 1
  PROVE  \E x, y \in DOMAIN Tail(s) : x < y /\ Tail(s)[x] = s[i] /\ Tail(s)[y] = s[j]
<1>1. i \in 1..Len(s) /\ j \in 1..Len(s) /\ Len(s) \in Nat /\ Len(Tail(s)) = Len(s) - 1
  OBVIOUS
<1>2. DOMAIN Tail(s) = 1..(Len(s) - 1)
  BY <1>1
<1>3. i - 1 \in DOMAIN Tail(s) /\ j - 1 \in DOMAIN Tail(s) /\ i - 1 < j - 1
  BY <1>1, <1>2
<1>4. Tail(s)[i - 1] = s[i] /\ Tail(s)[j - 1] = s[j]
  BY <1>1, <1>3
<1>5. QED
  BY <1>3, <1>4

(* The same of a queue of calls.                                           *)
LEMMA CallInserted ==
  \A s \in Seq(Calls) : \A e \in Calls : \A at \in 1..(Len(s) + 1) :
     /\ InsertAt(s, at, e) \in Seq(Calls) /\ Len(InsertAt(s, at, e)) = Len(s) + 1
     /\ \A n \in 1..(Len(s) + 1) :
           InsertAt(s, at, e)[n] = IF n < at THEN s[n] ELSE IF n = at THEN e ELSE s[n - 1]
BY InsertAtFacts

(* One step, two calls that wait before and after it.                      *)
LEMMA StepKeepsOrder ==
  ASSUME TypeOK, LockInv, [Next]_vars, NEW k \in Keys, NEW c \in Calls, NEW d \in Calls,
         Before(c, d, k), status'[c] = "waiting", status'[d] = "waiting"
  PROVE  Before(c, d, k)'
<1> DEFINE q == queue[k]
<1>q. q \in Seq(Calls)
  BY DEF TypeOK
<1>1. PICK i \in DOMAIN q, j \in DOMAIN q : i < j /\ q[i] = c /\ q[j] = d
  BY DEF Before
<1>2. ASSUME queue'[k] = q PROVE Before(c, d, k)'
  BY <1>1, <1>2 DEF Before
<1>3. ASSUME NEW e \in Calls, NEW l \in Keys, AcquireFree(e, l) PROVE Before(c, d, k)'
  <2>1. l # k
    <3>1. entry[k]
      BY <1>1, <1>q DEF LockInv, FreeMeansEmpty
    <3>2. QED
      BY <1>3, <3>1 DEF AcquireFree
  <2>2. queue'[k] = q
    BY <1>3, <2>1 DEF AcquireFree, TypeOK
  <2>3. QED
    BY <1>2, <2>2
<1>4. ASSUME NEW e \in Calls, NEW l \in Keys, NEW prio \in BOOLEAN, AcquireHeld(e, l, prio)
      PROVE  Before(c, d, k)'
  <2>1. PICK at \in 1..(Len(queue[l]) + 1) :
           queue' = [queue EXCEPT ![l] = InsertAt(queue[l], at, e)]
    BY <1>4 DEF AcquireHeld
  <2>2. CASE l # k
    BY <1>2, <2>1, <2>2 DEF TypeOK
  <2>3. CASE l = k
    <3> DEFINE t == InsertAt(q, at, e)
    <3>1. queue'[k] = t /\ at \in 1..(Len(q) + 1)
      BY <2>1, <2>3 DEF TypeOK
    <3> HIDE DEF q
    <3>2. /\ t \in Seq(Calls) /\ Len(t) = Len(q) + 1
          /\ \A n \in 1..(Len(q) + 1) :
                t[n] = IF n < at THEN q[n] ELSE IF n = at THEN e ELSE q[n - 1]
      <4>1. q \in Seq(Calls) /\ at \in 1..(Len(q) + 1) /\ e \in Calls
        BY <1>q, <3>1
      <4>2. t \in Seq(Calls) /\ Len(t) = Len(q) + 1
        BY <4>1, CallInserted, Zenon
      <4>3. \A n \in 1..(Len(q) + 1) :
               t[n] = IF n < at THEN q[n] ELSE IF n = at THEN e ELSE q[n - 1]
        BY ONLY <4>1, CallInserted
      <4>4. QED
        BY <4>2, <4>3
    <3> HIDE DEF t
    <3> DEFINE x == IF i < at THEN i ELSE i + 1
               y == IF j < at THEN j ELSE j + 1
    <3>3. i \in 1..Len(q) /\ j \in 1..Len(q) /\ Len(q) \in Nat /\ DOMAIN t = 1..(Len(q) + 1)
      BY <1>q, <3>2
    <3>4. x \in DOMAIN t /\ y \in DOMAIN t /\ x < y
      BY <1>1, <3>1, <3>3
    <3>5. t[x] = q[i] /\ t[y] = q[j]
      BY <3>1, <3>2, <3>3
    <3>6. QED
      BY <1>1, <3>1, <3>4, <3>5 DEF Before
  <2>4. QED
    BY <2>2, <2>3
<1>5. ASSUME NEW e \in Calls, GiveUp(e) PROVE Before(c, d, k)'
  <2>1. PICK l \in Keys : l = key[e]
    BY <1>5 DEF GiveUp, LockInv, AskedForKey
  <2>2. PICK n \in DOMAIN queue[l] :
           queue[l][n] = e /\ queue' = [queue EXCEPT ![l] = RemoveAt(queue[l], n)]
    BY <1>5, <2>1 DEF GiveUp
  <2>3. status'[e] = "rejected"
    BY <1>5 DEF GiveUp, TypeOK
  <2>4. CASE l # k
    BY <1>2, <2>2, <2>4 DEF TypeOK
  <2>5. CASE l = k
    <3>1. queue'[k] = RemoveAt(q, n)
      BY <2>2, <2>5 DEF TypeOK
    <3>2. n \in 1..Len(q) /\ i # n /\ j # n
      BY <1>q, <1>1, <2>2, <2>3, <2>5
    <3>3. \E x, y \in DOMAIN RemoveAt(q, n) :
             x < y /\ RemoveAt(q, n)[x] = q[i] /\ RemoveAt(q, n)[y] = q[j]
      BY <1>q, <1>1, <3>2, OrderOfRemove
    <3>4. QED
      BY <1>1, <3>1, <3>3 DEF Before
  <2>6. QED
    BY <2>4, <2>5
<1>6. ASSUME NEW e \in Calls, Release(e) PROVE Before(c, d, k)'
  <2>1. PICK l \in Keys : l = key[e]
    BY <1>6 DEF Release, LockInv, AskedForKey
  <2>2. HandOn(e, l)
    BY <1>6, <2>1 DEF Release
  <2>3. CASE queue[l] = <<>> \/ l # k
    <3>1. queue'[k] = q
      BY <2>2, <2>3 DEF HandOn, TypeOK
    <3>2. QED
      BY <1>2, <3>1
  <2>4. CASE queue[l] # <<>> /\ l = k
    <3>1. queue'[k] = Tail(q) /\ status'[Head(q)] = "granted"
      <4>1. Head(q) \in Calls
        BY <1>q, <2>4
      <4>2. QED
        BY <2>2, <2>4, <4>1 DEF HandOn, TypeOK
    <3>2. i # 1
      BY <1>1, <3>1, <1>q
    <3>3. \E x, y \in DOMAIN Tail(q) : x < y /\ Tail(q)[x] = q[i] /\ Tail(q)[y] = q[j]
      BY <1>q, <1>1, <2>4, <3>2, OrderOfTail
    <3>4. QED
      BY <1>1, <3>1, <3>3 DEF Before
  <2>5. QED
    BY <2>3, <2>4
<1>7. ASSUME UNCHANGED queue PROVE Before(c, d, k)'
  BY <1>2, <1>7
<1>8. QED
  BY <1>3, <1>4, <1>5, <1>6, <1>7
     DEF Next, AcquireAborted, ReleaseAgain, Forget, vars

(* Those who wait for a key are served in the order they have: no arrival, *)
(* no time-out, no abort and no hand-over makes two waiters change places  *)
(* (acquireKeyedLock's splice, abandon, release's shift).                  *)
THEOREM OrderStands == Spec => OrderKept
<1> DEFINE Keeps == \A k \in Keys : \A c, d \in Calls :
                       (Before(c, d, k) /\ status'[c] = "waiting" /\ status'[d] = "waiting")
                           => Before(c, d, k)'
<1>1. TypeOK /\ LockInv /\ [Next]_vars => [Keeps]_vars
  BY StepKeepsOrder
<1>2. QED
  BY <1>1, TypeCorrect, LockSafe, PTL DEF Spec, OrderKept

=============================================================================
