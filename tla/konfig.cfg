SPECIFICATION KonfigSpec
\* Without a readable file no process runs any more.
CHECK_DEADLOCK FALSE
CONSTANTS
    Ports = {1, 2, 3, 4}
    Einstellungen <- ZweiEinstellungen
INVARIANT KonfigTypeOK
INVARIANT FileIsWhole
INVARIANT MemoryIsFile
INVARIANT FileSurvives
INVARIANT PortsAreOutputs
PROPERTY StartsLow
