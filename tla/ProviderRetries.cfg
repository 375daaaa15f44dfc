SPECIFICATION Spec

CONSTANTS
    DLM_ACTION_MAX = 4
    MIN_SUBMISSION_INTERVAL = 1
    OFFLINE_AFTER = 6
    COUNTER_WRAP = 64
    Printable <- MCPrintable
    NoFigure = NoFigure
    Headrooms = {70, 80, 120}
    FLOOR = 60
    AmpsText <- MCAmpsText
    INTERVAL = 4
    Worlds <- MCAlone
    MaxTime = 10

\* The clock is bounded and the plugin may stop.
CHECK_DEADLOCK FALSE

INVARIANTS
    OnlyRejectionStops
