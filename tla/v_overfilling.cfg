SPECIFICATION Spec
CONSTANTS
    Configs <- Wechsel
    MaxStep = 1
    Horizon = 2
INVARIANTS
    NoOverfilling
