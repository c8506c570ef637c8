SPECIFICATION Spec
CONSTANTS
    Configs <- Wechsel
    MaxStep = 1
    Horizon = 3
INVARIANT ManuellStopsPump
PROPERTY MeldetWieSpezifiziert
