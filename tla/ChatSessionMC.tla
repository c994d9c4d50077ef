--------------------------- MODULE ChatSessionMC ---------------------------
(***************************************************************************)
(* An instance of ChatSession for TLC: two messages to a conversation, of  *)
(* any kind if it is the only one, or a worker DM beside another with one  *)
(* message, whose compactions share a memory.                              *)
(***************************************************************************)
EXTENDS ChatSession

CONSTANTS c1, c2, s1, s2, s3

Places == [s \in Sends |-> IF s = s3 THEN c2 ELSE c1]
Answers == [s \in Sends |-> IF s = s1 THEN 2 ELSE 1]
Alone(k) == [c \in Convos |-> IF c = c1 THEN k ELSE None]
Beside == [c \in Convos |-> "worker"]
OneOrTwo == {Alone(k) : k \in {"assistant", "coworker", "group"}} \cup {Beside}

=============================================================================
