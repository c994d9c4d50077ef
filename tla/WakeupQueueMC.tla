--------------------------- MODULE WakeupQueueMC ---------------------------
(***************************************************************************)
(* Instances of WakeupQueue for TLC.                                       *)
(***************************************************************************)
EXTENDS WakeupQueue

CONSTANTS m1, m2, t1, t2, a1, a2

OneAssignee == [t \in Tasks |-> m1]

(* Everything is asked of one agent about one task,                        *)
Mentions == [a \in Asks |-> [member |-> m1, task |-> t1, source |-> "mention"]]
Assignments == [a \in Asks |-> [member |-> m1, task |-> t1, source |-> "assignment"]]

(* of one agent about two tasks,                                           *)
TwoTasks ==
    [a \in Asks |-> IF a = a1 THEN [member |-> m1, task |-> t1, source |-> "mention"]
                              ELSE [member |-> m1, task |-> t2, source |-> "assignment"]]

(* or of two agents about one task.                                        *)
TwoAgents == [a \in Asks |-> [member |-> IF a = a1 THEN m1 ELSE m2, task |-> t1, source |-> "mention"]]

=============================================================================
