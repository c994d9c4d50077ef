\* Two runs contend for one container the sync, the memory limit and a settings change act on.
CONSTANTS
    Runs = {r1, r2}
    Containers = {c1}
    None = None
    Env = {"sync", "memory", "settings"}
    MaxMishaps = 1
SPECIFICATION Spec
SYMMETRY Symmetry
INVARIANTS
    ClaimHasHolder
