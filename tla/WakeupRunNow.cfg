\* Two agents are asked about one task; Run now is pressed on one wakeup while the cron dispatches the other.
CONSTANTS
    m1 = m1
    m2 = m2
    t1 = t1
    t2 = t2
    a1 = a1
    a2 = a2
    Members = {m1, m2}
    Tasks = {t1}
    Assignee <- OneAssignee
    Asks = {a1, a2}
    For <- TwoAgents
    Rows = {1, 2, 3}
    Runs = {1, 2}
    MaxRetries = 2
    Env = {"press"}
    MaxMishaps = 1
    None = None
SPECIFICATION Spec
CHECK_DEADLOCK FALSE
INVARIANTS
    OneRunPerTask
