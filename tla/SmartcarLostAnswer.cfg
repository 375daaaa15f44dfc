SPECIFICATION Spec

CONSTANTS
    REASSERT = 2
    Lives = {0, 3}

INVARIANTS
    ReportIsLastCommand
