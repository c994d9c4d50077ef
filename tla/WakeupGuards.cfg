\* Two agents are asked about one task; runs are lost, a completion is stuck and comes late.
CONSTANTS
    m1 = m1
    m2 = m2
    t1 = t1
    t2 = t2
    a1 = a1
    a2 = a2
    Members = {m1, m2}
    Tasks = {t1}
    Assignee <- OneAssignee
    Asks = {a1, a2}
    For <- TwoAgents
    Rows = {1, 2, 3, 4}
    Runs = {1, 2, 3}
    MaxRetries = 2
    Env = {"wedge", "loss"}
    MaxMishaps = 1
    None = None
SPECIFICATION Spec
CHECK_DEADLOCK FALSE
INVARIANTS
    GuardsHeld
