SPECIFICATION FaultSpec
CONSTANTS
    u1 = u1
    p1 = p1
    p2 = p2
    CPU = CPU
    TIMER = TIMER
    WORK_SCHEDULER = WORK_SCHEDULER
    DEFAULT = DEFAULT
    Kinds = {CPU, TIMER}
    Levels = {DEFAULT}
    Uids = {u1}
    Pids = {p1}
    UidOf <- OneApp
    Permitted <- AllPermitted
    Timeouts = {1}
    Forever = 12
    EarlyBoot = 0
    Faults = {"crash", "ability", "connect"}
    Int32Half = 1000
    MaxCalls = 2
    MaxTime = 2
 
INVARIANT TimedWillBeReset
CHECK_DEADLOCK FALSE
