\* One mention; runs are lost up to the ceiling, and one of all that can cut a run short happens.
CONSTANTS
    m1 = m1
    m2 = m2
    t1 = t1
    t2 = t2
    a1 = a1
    a2 = a2
    Members = {m1}
    Tasks = {t1}
    Assignee <- OneAssignee
    Asks = {a1}
    For <- Mentions
    Rows = {1, 2, 3}
    Runs = {1, 2}
    MaxRetries = 3
    Env = {"crash", "loss", "dbfault", "terminate", "wedge", "cancel"}
    MaxMishaps = 1
    None = None
SPECIFICATION FairSpec
INVARIANTS
    GuardsHeld
CHECK_DEADLOCK FALSE
PROPERTIES
    AsksEnd
    RunsEnd
    ClaimsSettle
    VerdictStands
