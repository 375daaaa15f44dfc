SPECIFICATION Spec

CONSTANTS
    DLM_ACTION_MAX = 4
    MIN_SUBMISSION_INTERVAL = 2
    OFFLINE_AFTER = 5
    COUNTER_WRAP = 4
    Printable <- MCPrintable
    NoFigure = NoFigure
    Headrooms = {70, 120}
    FLOOR = 60
    AmpsText <- MCAmpsText
    INTERVAL = 5
    Worlds <- MCWorlds
    MaxTime = 9

\* The clock is bounded and the plugin may stop.
CHECK_DEADLOCK FALSE

INVARIANTS
    TypeOK
    FloodStillRecorded
    OnlineIffHeard
    CountersAddUp
    PageIsOneDecision
    NeverTooFrequent

PROPERTIES
    PageNeverGoesBack
