CONSTANTS
    Editors = {e1}
    Client = client
    Null = Null
    Template <- MCTemplate
    TemplateTools = {"knowledge.search"}
    Tools = {"knowledge.search"}
    Posts <- MCPosts
    NodeTypes = {"knowledge.search"}
    Presets = {"previousStep.failed"}
    RecursionLimit = 5
    MaxEdits = 2
    MaxRequests = 2
    MaxActs = 3
SPECIFICATION Spec
INVARIANTS
    EditorKeepsShape
    StoredIsAccepted
    RunEndsForReason
    VersionNamesDefinition
CHECK_DEADLOCK FALSE
