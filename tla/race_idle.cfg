SPECIFICATION Spec
CONSTANTS
    refillFaillTime = 2
    Kommandos = {"refillOn", "refillOff", "reset"}
    OsmoseSchalter = TRUE
    RefillSchalter = TRUE
    MaxStep = 1
    Horizon = 3
INVARIANT PumpOffAfterIdlePass
PROPERTY ErrorMeansTimeout
