SPECIFICATION MCSpec
CONSTANTS
    u1 = u1
    u2 = u2
    a1 = a1
    a2 = a2
    Uids = {u1}
    Abilities = {a1}
    Declared <- AllDeclared
    Traits <- NoTraits
    Device = {}
    Requests <- ObjectRequests
    Faults <- RestartFaults
    Texts = {"all"}
    Scenes = {{"crashing", "dying"}, {"crashing", "removing"}, {"crashing", "scheduling"}}
    FlagSets = {{"SUSPEND", "ACTIVE"}}
    MaxId = 3
    MaxNid = 2
    MaxGen = 2
    ABILITY_TASK_MAX_NUM = 2
INVARIANTS  TaskIdsUnique
PROPERTY TasksSurvive
CHECK_DEADLOCK FALSE
