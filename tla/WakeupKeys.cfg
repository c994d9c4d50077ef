\* One agent with two tasks; Run now is pressed beside the cron and a completion is stuck, or two runs are handed back.
CONSTANTS
    m1 = m1
    m2 = m2
    t1 = t1
    t2 = t2
    a1 = a1
    a2 = a2
    Members = {m1}
    Tasks = {t1, t2}
    Assignee <- OneAssignee
    Asks = {a1, a2}
    For <- TwoTasks
    Rows = {1, 2, 3, 4}
    Runs = {1, 2, 3}
    MaxRetries = 2
    Env = {"press", "wedge", "handback"}
    MaxMishaps = 2
    None = None
SPECIFICATION Spec
CHECK_DEADLOCK FALSE
INVARIANTS
    OneRunPerAgent
