SPECIFICATION SocketSpec
CONSTANTS
    Sockets = {1, 2, 3}
    Plateau = 2
INVARIANT OneConnection
INVARIANT ConnectedResetsDelay
PROPERTY TimeoutSparesOpen
PROPERTY VerbindetWieSpezifiziert
PROPERTY ConnectsAgain
