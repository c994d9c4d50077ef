\* One run, one container, one crash, fault or outside stop.
CONSTANTS
    Runs = {r1}
    Containers = {c1}
    None = None
    Env = {"liveness", "reaper", "crash", "faults", "outside"}
    MaxMishaps = 1
SPECIFICATION FairSpec
PROPERTIES
    RestIsSettled
    RequestsSettled
    MembersBilled
    OrphansReaped
