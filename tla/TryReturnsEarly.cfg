SPECIFICATION RcSpec
CONSTANTS
    MaxCalls = 4
    Programs <- Shallow
    Inputs <- TestInputs
    Installed <- Providers
    KnownEffects <- Known
    Uppercase <- InUpperCase
INVARIANTS
    TryReturnsEarly
CHECK_DEADLOCK FALSE
