\* Two runs and two containers; held work; one engine fault.
CONSTANTS
    Runs = {r1, r2}
    Containers = {c1, c2}
    None = None
    Env = {"faults", "hold"}
    MaxMishaps = 1
SPECIFICATION Spec
SYMMETRY Symmetry
INVARIANTS
    OneRunPerContainer
    RetirementSparesRuns
    WorkIsBilled
PROPERTIES
    HoldsRespected
