\* Two runs and one container the memory limit stops once.
CONSTANTS
    Runs = {r1, r2}
    Containers = {c1}
    None = None
    Env = {"sync", "memory"}
    MaxMishaps = 1
SPECIFICATION Spec
INVARIANTS
    OneRunPerContainer
