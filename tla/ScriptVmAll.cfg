SPECIFICATION Spec

CONSTANTS
    Vms = {vm, other}
    NoVm = none
    vm = vm
    other = other
    quiet = quiet
    Features = {"handler", "destructor", "object_exception", "exhaustion"}
    Actions = {quiet}
    NoAction = quiet
    IntervalGlobals = {29, 3601}
    NotAnInteger = nil
    HEARTBEAT_BUDGET = 1
    MAX_HTTP_PER_TICK = 1
    INTERVAL_MIN_S = 30
    INTERVAL_MAX_S = 3600
    INTERVAL_DEFAULT_S = 60
    MaxTries = 1
    MaxObjects = 2

SYMMETRY VmSymmetry

\* be_throw() with no error frame ends the process: nothing follows "aborted".
CHECK_DEADLOCK FALSE

INVARIANTS
    TypeOK
    OneActive
    NoStaleFrames
    AdvisoryIsOfThisTick

PROPERTIES
    ImplementsSlot
