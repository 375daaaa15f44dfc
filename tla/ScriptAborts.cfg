SPECIFICATION Spec

CONSTANTS
    Vms = {vm}
    NoVm = none
    vm = vm
    quiet = quiet
    Features = {"destructor", "object_exception", "exhaustion"}
    Actions = {quiet}
    NoAction = quiet
    IntervalGlobals = {31}
    NotAnInteger = nil
    HEARTBEAT_BUDGET = 2
    MAX_HTTP_PER_TICK = 1
    INTERVAL_MIN_S = 30
    INTERVAL_MAX_S = 3600
    INTERVAL_DEFAULT_S = 60
    MaxTries = 0
    MaxObjects = 1

\* be_throw() with no error frame ends the process: nothing follows "aborted".
CHECK_DEADLOCK FALSE

INVARIANTS
    NeverAborts
