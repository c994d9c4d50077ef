\* Two runs, one container, held work; two of crashes, faults and removals by an operator.
CONSTANTS
    Runs = {r1, r2}
    Containers = {c1}
    None = None
    Env = {"operator", "crash", "faults", "hold"}
    MaxMishaps = 2
SPECIFICATION Spec
SYMMETRY Symmetry
INVARIANTS
    TypeOK
    OneRunPerContainer
    ClaimHasHolder
