SPECIFICATION MCSpec
CONSTANTS
    e1 = e1
    e2 = e2
    Evaluators = {e1, e2}
    Installers = {i1}
    Samples <- MCSamples
    Modes = {"FAST_LLM_ONLY", "FULL_AGENT_RUNTIME"}
    MaxCases = 2
    MaxEdits = 2
    MaxStalls = 1
    MaxTroubles = 2
    Null = Null
    t1 = t1
    t2 = t2
    t3 = t3
    Turns = {t1, t2, t3}
    TurnTexts = {"a", "b"}
    Agents = {"g", "h"}
    FirstPage = 4
    History = 2
    Nobody = Nobody
    Nothing = Nothing
    Sources = {1, 2}
    MaxSearches = 2
    MaxDeltas = 3
    MaxClears = 2
    MaxBreaks = 1
    Thrown = Thrown
    Absent = Absent
    Finished = Finished
SYMMETRY Symmetry
INVARIANTS
    ReportIsWhole
    UnfinishedIsAlive
    ConversationIsOrdered
    PromptIsConversation
    ShownAnswerIsWhole
CHECK_DEADLOCK FALSE
