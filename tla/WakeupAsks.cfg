\* One agent, one task, two mentions; runs are lost, and once the server dies or a statement fails.
CONSTANTS
    m1 = m1
    m2 = m2
    t1 = t1
    t2 = t2
    a1 = a1
    a2 = a2
    Members = {m1}
    Tasks = {t1}
    Assignee <- OneAssignee
    Asks = {a1, a2}
    For <- Mentions
    Rows = {1, 2, 3, 4}
    Runs = {1, 2}
    MaxRetries = 2
    Env = {"crash", "loss", "dbfault"}
    MaxMishaps = 1
    None = None
SPECIFICATION Spec
CHECK_DEADLOCK FALSE
INVARIANTS
    TypeOK
    AsksCarried
    OneRunPerTask
