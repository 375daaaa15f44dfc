SPECIFICATION FairSpec

CONSTANTS
    Vms = {vm}
    NoVm = none
    vm = vm
    quiet = quiet
    Features = {"handler"}
    Actions = {quiet}
    NoAction = quiet
    IntervalGlobals = {31}
    NotAnInteger = nil
    HEARTBEAT_BUDGET = 1
    MAX_HTTP_PER_TICK = 1
    INTERVAL_MIN_S = 30
    INTERVAL_MAX_S = 3600
    INTERVAL_DEFAULT_S = 60
    MaxTries = 1
    MaxObjects = 0

PROPERTIES
    CallsEnd
