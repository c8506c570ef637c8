SPECIFICATION FairSpec
CONSTANTS
    Configs <- ZyklusEins
    MaxStep = 1
    Horizon = 2
PROPERTIES
    ProductionEnds
