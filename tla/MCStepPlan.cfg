SPECIFICATION PlanSpec
CONSTANTS
    Ids = {1, 2, 3, 4}
    Calls <- MCCalls
    Conditions <- MCConditions
    MiB = 1
INVARIANTS PlanInductive OrderExact BudgetSound
CHECK_DEADLOCK FALSE
