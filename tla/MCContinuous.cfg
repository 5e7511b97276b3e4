SPECIFICATION MCSpec
CONSTANTS
    u1 = u1
    u2 = u2
    a1 = a1
    a2 = a2
    Uids = {u1}
    Abilities = {a1}
    Declared <- AllDeclared
    Traits <- NoTraits
    Device = {}
    Requests <- ObjectRequests
    Faults <- OneFault
    Texts = {"all"}
    Scenes = {{"filling"}, {"scheduling"}, {"sounding"}, {"removing", "dying"}, {"showing"}, {"moving"}, {"clearing", "dying"}}
    FlagSets = {{"SUSPEND", "ACTIVE"}}
    MaxId = 3
    MaxNid = 2
    MaxGen = 1
    ABILITY_TASK_MAX_NUM = 2
INVARIANTS RunningIsShown NotificationsOwned FileMatchesTasks 
CHECK_DEADLOCK FALSE
