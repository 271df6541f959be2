SPECIFICATION FairSpec
CONSTANTS
    ruleTask = ruleTask
    planTask = planTask
    planTask2 = planTask2
    RuleTasks <- MCRuleTasks
    PlanTasks <- MCPlanTasks
    Job = job
    Redistributions = {r1}
    MaxRetries = 2
    Scenarios <- MCScenarios
    MaxEdits = 1
    MaxMishaps = 2
INVARIANTS
    TypeOK
    CreatedOnce
    UndeliveredIsListed
    StatusAgrees
    SettledMeansCreated
PROPERTIES
    EverythingIsCreated
    RequestsEnd
    DeliversItsTasks
CHECK_DEADLOCK FALSE
