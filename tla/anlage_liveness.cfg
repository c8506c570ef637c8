SPECIFICATION FairSpec
CONSTANTS
    Configs <- KurzConfig
    MaxStep = 1
    Horizon = 2
PROPERTY RefillEnds
PROPERTY ProductionEnds
PROPERTY FlushProceeds
PROPERTY StartsWhenEmpty
