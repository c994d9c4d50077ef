\* One run and one container a retirement stops while work outside a run comes to it.
CONSTANTS
    Runs = {r1}
    Containers = {c1}
    None = None
    Env = {"hold"}
    MaxMishaps = 0
SPECIFICATION Spec
INVARIANTS
    HeldStaysUp
