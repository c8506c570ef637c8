SPECIFICATION Spec
CONSTANTS
    Clients = {c1}
    MaxPost = 2
    MaxKommandos = 2
INVARIANT LastStatusReaches
PROPERTY PageFollows
PROPERTY StatusRuht
