SPECIFICATION DeadlineSpec
CONSTANTS
    Budgets <- OneMinute
    Unset = Unset
    Stacks <- ShippedStack
    BaseS = 6
    DefaultVerbS = 6
    VerbMarginS = 1
    BackstopMarginS = 2
    RequestS = 1
CHECK_DEADLOCK FALSE
INVARIANT BudgetGoverns
