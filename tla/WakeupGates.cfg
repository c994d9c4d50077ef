\* One assignment; every gate of dispatch opens and closes, and one of a Run now, a stuck completion, a hand-back and a blocker happens.
CONSTANTS
    m1 = m1
    m2 = m2
    t1 = t1
    t2 = t2
    a1 = a1
    a2 = a2
    Members = {m1}
    Tasks = {t1}
    Assignee <- OneAssignee
    Asks = {a1}
    For <- Assignments
    Rows = {1, 2, 3}
    Runs = {1, 2}
    MaxRetries = 2
    Env = {"press", "wedge", "handback", "blockers", "repo", "disable", "hold", "capacity", "budget"}
    MaxMishaps = 1
    None = None
SPECIFICATION Spec
CHECK_DEADLOCK FALSE
INVARIANTS
    OneRunPerAgent
