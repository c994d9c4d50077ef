\* One project, two task runs and a chat turn; a budget of two containers, one of them the chat lane's.
CONSTANTS
    p1 = p1
    p2 = p2
    p3 = p3
    r1 = r1
    r2 = r2
    r3 = r3
    Projects = {p1}
    Containers = {c1, c2, c3}
    Runs = {r1, r2, r3}
    Home <- OneHome
    Chats = {r3}
    Cap <- OneCap
    Budget = 2
    ChatLane = 1
    Env = {"unpushed", "disk", "settings", "retire", "faults"}
    None = None
SPECIFICATION Spec
SYMMETRY Symmetry
INVARIANTS
    BudgetKept
