\* Two projects: a reclaim's plan grows old while its victim works and keeps commits it has not pushed.
CONSTANTS
    p1 = p1
    p2 = p2
    p3 = p3
    r1 = r1
    r2 = r2
    r3 = r3
    Projects = {p1, p2}
    Containers = {c1, c2}
    Runs = {r1, r2}
    Home <- TwoHome
    Chats = {}
    Cap <- TwoCap
    Budget = 2
    ChatLane = 0
    Env = {"disk", "settings", "unpushed"}
    None = None
SPECIFICATION FairSpec
PROPERTIES
    PinnedKept
