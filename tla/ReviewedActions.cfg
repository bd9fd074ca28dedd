SPECIFICATION Spec
CONSTANTS
    Calls = {c1, c2, c3}
    Flows = {f1, f2}
    Repositories = {x1}
    Null = Null
    MaxTexts = 2
    Brokered = TRUE
    Configured = TRUE
    DevMock = TRUE
SYMMETRY Symmetry
INVARIANTS
    ConsentStoredOnce
    DisconnectSticks
    
    UndisturbedApproval
    KeptDraftSentOnce
PROPERTY DecisionIsFinal
CHECK_DEADLOCK FALSE
