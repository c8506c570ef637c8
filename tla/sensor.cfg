SPECIFICATION Spec
CONSTANTS
    DBOUNCE_TIME_MS = 2
    Ticks = 10
    Pauses <- PassDauer
    Horizon = 4
INVARIANT AcceptedInTime
PROPERTY AcceptedAfterAgreement
