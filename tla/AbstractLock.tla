---------------------------- MODULE AbstractLock ----------------------------
(***************************************************************************)
(* What a keyed lock promises its callers, with no queue in it: at most    *)
(* one call holds a key, a key is never free while somebody waits for it,  *)
(* and a call that stopped waiting is never handed the key.                *)
(***************************************************************************)
CONSTANTS
    Keys,       \* the keys of the registry
    Calls,      \* identities of the acquire calls in progress
    None        \* no call

VARIABLES
    holder,     \* holder[k]: the call inside key k's section, or None
    waiting     \* waiting[k]: the calls waiting for key k

absVars == <<holder, waiting>>

(* A call that neither holds nor waits for any key.                        *)
Outside(c) == \A k \in Keys : holder[k] # c /\ c \notin waiting[k]

AbsInit ==
    /\ holder = [k \in Keys |-> None]
    /\ waiting = [k \in Keys |-> {}]

(* A free key is taken at once.                                            *)
Take(c, k) ==
    /\ Outside(c)
    /\ holder[k] = None
    /\ holder' = [holder EXCEPT ![k] = c]
    /\ UNCHANGED waiting

(* A held key is waited for.                                               *)
Wait(c, k) ==
    /\ Outside(c)
    /\ holder[k] # None
    /\ waiting' = [waiting EXCEPT ![k] = @ \union {c}]
    /\ UNCHANGED holder

(* A waiter leaves, by abort or by deadline.                               *)
Leave(c, k) ==
    /\ c \in waiting[k]
    /\ waiting' = [waiting EXCEPT ![k] = @ \ {c}]
    /\ UNCHANGED holder

(* The holder gives the key back: straight to a waiter if there is one.    *)
GiveBack(c, k) ==
    /\ holder[k] = c
    /\ \/ /\ waiting[k] = {}
          /\ holder' = [holder EXCEPT ![k] = None]
          /\ UNCHANGED waiting
       \/ \E d \in waiting[k] :
             /\ holder' = [holder EXCEPT ![k] = d]
             /\ waiting' = [waiting EXCEPT ![k] = @ \ {d}]

AbsNext ==
    \E c \in Calls, k \in Keys :
        Take(c, k) \/ Wait(c, k) \/ Leave(c, k) \/ GiveBack(c, k)

AbsSpec == AbsInit /\ [][AbsNext]_absVars
=============================================================================
