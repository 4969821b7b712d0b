SPECIFICATION Spec
CONSTANTS
    Procs = {p1, p2}
    Main = Main
    Root = Root
    Caps = {"admin", "phi"}
    Effects = {"Log", "DB"}
    Setups <- MixedSetups
    MaxMade = 5
    MaxDepth = 5
INVARIANTS
    CapabilityIsScoped
CHECK_DEADLOCK FALSE
