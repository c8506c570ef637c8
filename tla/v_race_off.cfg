SPECIFICATION Spec
CONSTANTS
    refillFaillTime = 2
    Kommandos = {"refillOn", "refillOff", "reset"}
    OsmoseSchalter = TRUE
    RefillSchalter = FALSE
    MaxStep = 1
    Horizon = 3
INVARIANTS
    RefillOffStopsPump
