SPECIFICATION Spec
CONSTANTS
    Runs = {1, 2}
    Ends = {"COMPLETED"}
    MaxFaults = 1
    MaxActs = 2
    Null = Null
INVARIANTS
    ShownEndIsReal
    ViewFollowsRun
CHECK_DEADLOCK FALSE
