SPECIFICATION LiveSpec
CONSTANTS
    u1 = u1
    p1 = p1
    p2 = p2
    CPU = CPU
    TIMER = TIMER
    WORK_SCHEDULER = WORK_SCHEDULER
    DEFAULT = DEFAULT
    Kinds = {CPU}
    Levels = {DEFAULT}
    Uids = {u1}
    Pids = {p1, p2}
    UidOf <- OneApp
    Permitted <- AllPermitted
    Timeouts = {1}
    Forever = 12
    EarlyBoot = 0
    Faults = {}
    Int32Half = 1000
    MaxCalls = 2
    MaxTime = 1
INVARIANT AppResetReaches
INVARIANT SubscriberSeesAll
PROPERTY TimedIsReset
CHECK_DEADLOCK FALSE
