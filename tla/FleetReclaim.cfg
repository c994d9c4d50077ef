\* Two projects reclaim from each other, some of their members out of disk or pinned; to a third, without runs, members of both sizes are victims.
CONSTANTS
    p1 = p1
    p2 = p2
    p3 = p3
    r1 = r1
    r2 = r2
    r3 = r3
    Projects = {p1, p2, p3}
    Containers = {c1, c2}
    Runs = {r1, r2}
    Home <- TwoHome
    Chats = {}
    Cap <- ThreeCap
    Budget = 2
    ChatLane = 0
    Env = {"disk", "unpushed"}
    None = None
SPECIFICATION FairSpec
INVARIANTS
    TypeOK
    LadderInv
    ReclaimPlansTight
PROPERTIES
    ReclaimEnds
    ClaimsSpared
    PinnedSpared
