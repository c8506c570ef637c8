SPECIFICATION Spec
CONSTANTS
    Configs <- AutomatikConfig
    MaxStep = 1
    Horizon = 5
INVARIANT TypeOK
INVARIANT RefillInterlock
INVARIANT NoPumpingWhileProducing
INVARIANT TopSensorStopsWater
INVARIANT AquaSensorStopsPump
INVARIANT RefillWatchdog
INVARIANT NoHiddenFlow
INVARIANT CleanNeedsFresh
PROPERTY FaultStays
PROPERTY FlushBeforeOsmose
