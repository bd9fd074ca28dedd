--------------------------- MODULE AgentWorkflows ---------------------------
(***************************************************************************)
(* The saved workflow of one template agent: the pages that edit it, the   *)
(* requests that validate and save it, the other requests that change the  *)
(* agent.  What a run of the saved graph would do is computed from the row: *)
(* a run works on a snapshot, and AgentRun has its steps one by one.       *)
(*                                                                         *)
(* A save checks the tools, reads the version and writes the row in three  *)
(* calls to PostgreSQL; anything may happen between them.  The page's own  *)
(* state moves with what the user does and with every answer that arrives. *)
(* Labels, positions and configurations of nodes are left out: changing    *)
(* one is an edit that leaves the graph alone (Touch).                     *)
(*                                                                         *)
(* A definition without a comment that stands before the one it resembles  *)
(* is a plausible bug in it, which the run must find.                      *)
(***************************************************************************)
EXTENDS WorkflowGraph

CONSTANTS
    Editors,            \* pages on which the agent's workflow is open
    Client,             \* a program that calls the API itself
    Null,               \* a column or an answer that is not there
    Template,           \* the template's graph, as the page builds it
    TemplateTools,      \* the tools a template's agent is installed with
    Tools,              \* the tools an agent may be given
    Posts,              \* definitions that the program tries to save
    NodeTypes,          \* types on the page's palette
    Presets,            \* conditions that the page offers
    RecursionLimit,     \* nodes that LangGraph executes before it gives up
    \* Bound on what users and programs do.
    MaxEdits,           \* changes of the graph on pages
    MaxRequests,        \* saves and other changes of the agent
    MaxActs             \* edits and requests together

Savers == Editors \cup {Client}

ASSUME NamesAssumption == Client \notin Editors
ASSUME NullAssumption == Null \notin Nat
ASSUME GraphsAssumption ==
    /\ Accepted(Template) /\ TemplateTools \subseteq Tools
    /\ \A d \in Posts \cup {Template} : IsGraph(d)
ASSUME PaletteAssumption == "start" \notin NodeTypes
ASSUME LimitsAssumption == 
    {RecursionLimit, MaxEdits, MaxRequests, MaxActs} \subseteq Nat

VARIABLES
    agent,      \* the agent's row
    editor,     \* what each page shows; valid enables its Save button
    asking,     \* the answer to each page's request for a validation
    saving,     \* each saver's request to save, once it has been checked
    names,      \* the definitions that each version has named so far
    raced,      \* whether a save has written over a version it had not read
    acts        \* how many edits and requests there have been

vars == <<agent, editor, asking, saving, names, raced, acts>>

rows == <<agent, names, raced>>

(* vetted is no column: the tools the save of the definition was checked   *)
(* against.                                                                *)
Row(tools, definition, version, vetted) ==
    [tools |-> tools, definition |-> definition, version |-> version,
     deleted |-> FALSE, vetted |-> vetted]

(* templateData().                                                         *)
templateData == Row(TemplateTools, Null, Null, Null)

(* A page that has just been opened, before its query has answered.        *)
Mounted ==
    [open |-> TRUE, definition |-> Template, data |-> Null,
     agent |-> [tools |-> agent.tools, version |-> agent.version],
     valid |-> FALSE]

NotSaving == [step |-> "none", definition |-> Null, tools |-> Null, version |-> Null]

Init ==
    /\ agent = templateData
    /\ editor = [e \in Editors |-> Mounted]
    /\ asking = [e \in Editors |-> "none"]
    /\ saving = [s \in Savers |-> NotSaving]
    /\ names = {}
    /\ raced = FALSE
    /\ acts = [edits |-> 0, requests |-> 0]

More(kind, max) == acts[kind] < max /\ acts.edits + acts.requests < MaxActs

Request ==
    /\ More("requests", MaxRequests)
    /\ acts' = [acts EXCEPT !.requests = @ + 1]

-----------------------------------------------------------------------------
(* The page: what it does to a definition.                                 *)

uniqueNodeId(type, nodes) ==
    LET Free == {k \in 1 .. Len(nodes) + 1 : <<type, "-", k>> \notin {n.id : n \in ToSet(nodes)}}
    IN <<type, "-", Min(Free)>>

uniqueEdgeId_First(source, target, edges) == <<source, target, 0>>

uniqueEdgeId(source, target, edges) ==
    LET Free == {k \in 0 .. Len(edges) : <<source, target, k>> \notin {x.id : x \in ToSet(edges)}}
    IN <<source, target, Min(Free)>>

(* createsCycle(): is there a cycle that source leads to?                  *)
createsCycle(d, source) ==
    LET outgoing == buildAdjacency(d)
    IN \E n \in reachableFrom(source, outgoing) : \E target \in ToSet(outgoing[n]) :
          n \in reachableFrom(target, outgoing)

(* replacing has the id of the edge that is moved, if one is.              *)
invalidConnectionMessage(d, source, target, tools, replacing) ==
    LET others == Only(d.edges, {x \in ToSet(d.edges) : x.id \notin replacing})
        edge == [id |-> Null, source |-> source, target |-> target, condition |-> "always"]
    IN \/ source = target
       \/ TypeOf(d, target) = "start"
       \/ TypeOf(d, source) \in Terminal
       \/ ~(workflowToolIdForNode([type |-> TypeOf(d, target)]) \subseteq tools)
       \/ <<source, target>> \in Edges([d EXCEPT !.edges = others])
       \/ createsCycle([d EXCEPT !.edges = Append(others, edge)], source)

AddNode(d, type) ==
    [d EXCEPT !.nodes = Append(@, [id |-> uniqueNodeId(type, @), type |-> type])]

(* A node with the id of the template's start has one edge at most.        *)
AddEdge(d, source, target) ==
    LET stays == {x \in ToSet(d.edges) : source = <<"start", "", 0>> => x.source # source}
    IN [d EXCEPT !.edges =
           Append(Only(@, stays),
                  [id |-> uniqueEdgeId(source, target, @), source |-> source,
                   target |-> target, condition |-> "always"])]

RemoveNodes(d, ids) ==
    [nodes |-> Only(d.nodes, {n \in ToSet(d.nodes) : n.id \notin ids}),
     edges |-> Only(d.edges, {x \in ToSet(d.edges) : {x.source, x.target} \cap ids = {}})]

RemoveEdges(d, ids) ==
    [d EXCEPT !.edges = Only(@, {x \in ToSet(d.edges) : x.id \notin ids})]

-----------------------------------------------------------------------------
(* The page: what the user does.                                           *)

Showing(e) == editor[e].open

Editing(e) == Showing(e) /\ More("edits", MaxEdits)

(* updateDefinition(), which forgets what the last validation said.        *)
updateDefinition(e, d) ==
    /\ acts' = [acts EXCEPT !.edits = @ + 1]
    /\ editor' = [editor EXCEPT ![e].definition = d, ![e].valid = FALSE]
    /\ UNCHANGED <<rows, asking, saving>>

addWorkflowNode(e) ==
    /\ Editing(e)
    /\ \E type \in NodeTypes : updateDefinition(e, AddNode(editor[e].definition, type))

connectNodes(e) ==
    LET d == editor[e].definition
    IN /\ Editing(e)
       /\ \E source, target \in nodeIds(d) :
            /\ ~invalidConnectionMessage(d, source, target, editor[e].agent.tools, {})
            /\ updateDefinition(e, AddEdge(d, source, target))

reconnectWorkflowEdge(e) ==
    LET d == editor[e].definition
    IN /\ Editing(e)
       /\ \E i \in DOMAIN d.edges : \E source, target \in nodeIds(d) :
            /\ ~invalidConnectionMessage(d, source, target, editor[e].agent.tools,
                                         {d.edges[i].id})
            /\ updateDefinition(e, [d EXCEPT !.edges[i].source = source,
                                             !.edges[i].target = target])

(* A selection that is deleted: the start is never part of it.             *)
onNodesDelete(e) ==
    LET d == editor[e].definition
    IN /\ Editing(e)
       /\ \E ids \in SUBSET (nodeIds(d) \ IdsOf(d.nodes, {"start"})) :
            ids # {} /\ updateDefinition(e, RemoveNodes(d, ids))

onEdgesDelete(e) ==
    LET d == editor[e].definition
    IN /\ Editing(e)
       /\ \E ids \in SUBSET {x.id : x \in ToSet(d.edges)} :
            ids # {} /\ updateDefinition(e, RemoveEdges(d, ids))

updateSelectedEdgeCondition(e) ==
    LET d == editor[e].definition
    IN /\ Editing(e)
       /\ \E i \in DOMAIN d.edges, condition \in Presets :
            updateDefinition(e, [d EXCEPT !.edges[i].condition = condition])

resetToTemplate(e) ==
    /\ Editing(e) /\ editor[e].data # Null
    /\ updateDefinition(e, Template)

(* What leaves the graph as it is: a label, a position or a configuration  *)
(* is changed, or an edge or a configuration is refused and an error shown.*)
Touch(e) ==
    /\ Showing(e)
    /\ editor' = [editor EXCEPT ![e].valid = FALSE]
    /\ UNCHANGED <<rows, asking, saving, acts>>

-----------------------------------------------------------------------------
(* The page: what its queries answer.  The effect that copies an answer    *)
(* into the page runs when the answer, or the agent, is another than the   *)
(* one before; it takes what the user has changed with it.                 *)

Shown(page) ==
    IF page.data = Null THEN page
    ELSE [page EXCEPT !.valid = FALSE,
                      !.definition = IF page.data.definition = Null THEN Template
                                     ELSE page.data.definition]

LoadWorkflow(e) ==
    LET answer == [definition |-> agent.definition, version |-> agent.version]
    IN /\ Showing(e) /\ ~agent.deleted /\ editor[e].data # answer
       /\ editor' = [editor EXCEPT ![e] = Shown([@ EXCEPT !.data = answer])]
       /\ UNCHANGED <<rows, asking, saving, acts>>

(* The list of the agents, of which this one is a part or no longer is.    *)
LoadAgents(e) ==
    LET answer == [tools |-> agent.tools, version |-> agent.version]
    IN /\ Showing(e)
       /\ \/ /\ ~agent.deleted /\ editor[e].agent # answer
             /\ editor' = [editor EXCEPT ![e] = Shown([@ EXCEPT !.agent = answer])]
          \/ /\ agent.deleted
             /\ editor' = [editor EXCEPT ![e].open = FALSE]
       /\ UNCHANGED <<rows, asking, saving, acts>>

(* Not while an answer to the page before is still under way.              *)
OpenEditor(e) ==
    /\ ~Showing(e) /\ ~agent.deleted
    /\ asking[e] = "none" /\ saving[e] = NotSaving
    /\ editor' = [editor EXCEPT ![e] = Mounted]
    /\ UNCHANGED <<rows, asking, saving, acts>>

-----------------------------------------------------------------------------
(* POST /agents/:id/workflow/validate.  The answer is true of the moment   *)
(* the request is handled; how long it is under way before makes no        *)
(* difference to the page.                                                 *)

validateMutation(e) ==
    LET d == editor[e].definition
    IN /\ Showing(e) /\ asking[e] = "none" /\ ~agent.deleted
       /\ asking' = [asking EXCEPT ![e] =
                       IF Accepted(d) /\ workflowToolIssues(d, agent.tools) = {}
                       THEN "valid" ELSE "invalid"]
       /\ UNCHANGED <<rows, editor, saving, acts>>

(* The answer is shown, whatever the page shows by now.                    *)
ShowValidation(e) ==
    /\ asking[e] # "none"
    /\ asking' = [asking EXCEPT ![e] = "none"]
    /\ editor' = IF Showing(e) THEN [editor EXCEPT ![e].valid = asking[e] = "valid"]
                 ELSE editor
    /\ UNCHANGED <<rows, saving, acts>>

ValidationFails(e) ==
    /\ asking[e] # "none"
    /\ asking' = [asking EXCEPT ![e] = "none"]
    /\ UNCHANGED <<rows, editor, saving, acts>>

-----------------------------------------------------------------------------
(* PUT /agents/:id/workflow.                                               *)

CheckSave_Trusts(s, d) ==
    /\ saving[s].step = "none" /\ Request /\ ~agent.deleted
    /\ workflowToolIssues(d, agent.tools) = {}
    /\ saving' = [saving EXCEPT ![s] = [NotSaving EXCEPT !.step = "checked",
                                          !.definition = d, !.tools = agent.tools]]
    /\ UNCHANGED <<rows, editor, asking>>

(* The body is parsed, the agent is read and its tools are checked.  What  *)
(* is refused changes nothing.                                             *)
CheckSave(s, d) ==
    /\ saving[s].step = "none" /\ Request /\ ~agent.deleted
    /\ Accepted(d) /\ workflowToolIssues(d, agent.tools) = {}
    /\ saving' = [saving EXCEPT ![s] = [NotSaving EXCEPT !.step = "checked",
                                          !.definition = d, !.tools = agent.tools]]
    /\ UNCHANGED <<rows, editor, asking>>

saveMutation(e) ==
    /\ Showing(e) /\ editor[e].valid
    /\ CheckSave(e, editor[e].definition)

ClientSaves == \E d \in Posts : CheckSave(Client, d)

ReadVersion(s) ==
    /\ saving[s].step = "checked" /\ ~agent.deleted
    /\ saving' = [saving EXCEPT ![s].step = "read", ![s].version = agent.version]
    /\ UNCHANGED <<rows, editor, asking, acts>>

NextVersion_FromZero(version) == IF version = Null THEN 0 ELSE version

NextVersion(version) == (IF version = Null THEN 0 ELSE version) + 1

WriteWorkflow(s) ==
    LET version == NextVersion(saving[s].version)
    IN /\ saving[s].step = "read" /\ ~agent.deleted
       /\ agent' = Row(agent.tools, saving[s].definition, version, saving[s].tools)
       /\ names' = names \cup {<<version, saving[s].definition>>}
       /\ raced' = (raced \/ agent.version # saving[s].version)
       /\ saving' = [saving EXCEPT ![s] =
                        IF s = Client THEN NotSaving
                        ELSE [@ EXCEPT !.step = "answered", !.tools = Null, !.version = Null]]
       /\ UNCHANGED <<editor, asking, acts>>

(* The page calls itself valid and waits for its queries to answer again.  *)
ShowSaved(s) ==
    /\ saving[s].step = "answered"
    /\ IF Showing(s)
       THEN /\ editor' = [editor EXCEPT ![s].valid = TRUE]
            /\ saving' = [saving EXCEPT ![s].step = "refetching"]
       ELSE /\ saving' = [saving EXCEPT ![s] = NotSaving]
            /\ UNCHANGED editor
    /\ UNCHANGED <<rows, asking, acts>>

(* They have, or have failed.                                              *)
EndSave(s) ==
    /\ saving[s].step = "refetching"
    /\ saving' = [saving EXCEPT ![s] = NotSaving]
    /\ editor' = IF Showing(s)
                 THEN [editor EXCEPT ![s].definition = saving[s].definition]
                 ELSE editor
    /\ UNCHANGED <<rows, asking, acts>>

(* An error at either of the steps, or the agent is gone.                  *)
SaveFails(s) ==
    /\ saving[s].step \in {"checked", "read"}
    /\ saving' = [saving EXCEPT ![s] = NotSaving]
    /\ UNCHANGED <<rows, editor, asking, acts>>

-----------------------------------------------------------------------------
(* The other requests.                                                     *)

UpdateAgent ==
    /\ ~agent.deleted /\ Request
    /\ \E tools \in SUBSET Tools :
         tools # agent.tools /\ agent' = [agent EXCEPT !.tools = tools]
    /\ UNCHANGED <<editor, asking, saving, names, raced>>

DeleteAgent ==
    /\ ~agent.deleted /\ Request
    /\ agent' = [agent EXCEPT !.deleted = TRUE]
    /\ UNCHANGED <<editor, asking, saving, names, raced>>

InstallTemplate ==
    /\ agent.deleted /\ Request
    /\ agent' = templateData
    /\ names' = {} /\ raced' = (raced \/ \E s \in Savers : saving[s].step = "read")
    /\ UNCHANGED <<editor, asking, saving>>

(* The versions start again.                                               *)
ResetTemplate ==
    /\ Request
    /\ agent' = templateData
    /\ names' = {} /\ raced' = (raced \/ \E s \in Savers : saving[s].step = "read")
    /\ UNCHANGED <<editor, asking, saving>>

-----------------------------------------------------------------------------
Next ==
    \/ \E e \in Editors :
         \/ addWorkflowNode(e) \/ connectNodes(e) \/ reconnectWorkflowEdge(e)
         \/ onNodesDelete(e) \/ onEdgesDelete(e)
         \/ updateSelectedEdgeCondition(e) \/ resetToTemplate(e) \/ Touch(e)
         \/ LoadWorkflow(e) \/ LoadAgents(e) \/ OpenEditor(e)
         \/ validateMutation(e) \/ ShowValidation(e) \/ ValidationFails(e)
         \/ saveMutation(e)
    \/ ClientSaves
    \/ \E s \in Savers :
         \/ ReadVersion(s) \/ WriteWorkflow(s) \/ ShowSaved(s)
         \/ EndSave(s) \/ SaveFails(s)
    \/ UpdateAgent \/ DeleteAgent \/ InstallTemplate \/ ResetTemplate

Spec == Init /\ [][Next]_vars

-----------------------------------------------------------------------------
(* What any of the graphs has the form of.                                 *)
IsDefinition(d) ==
    /\ IsGraph(d)
    /\ \A i \in DOMAIN d.nodes : d.nodes[i].type \in STRING
    /\ \A i \in DOMAIN d.edges : d.edges[i].condition \in Presets \cup {"always", "field.exists"}

(* Types; a row has a version exactly when it has a graph, and a save that *)
(* has checked something knows the tools it checked.                       *)
TypeOK ==
    /\ agent.tools \subseteq Tools /\ agent.deleted \in BOOLEAN
    /\ agent.definition = Null <=> agent.version = Null
    /\ agent.definition = Null <=> agent.vetted = Null
    /\ agent.definition # Null => IsDefinition(agent.definition) /\ agent.version \in Nat
    /\ \A e \in Editors :
         /\ IsDefinition(editor[e].definition)
         /\ editor[e].valid \in BOOLEAN
         /\ asking[e] \in {"none", "valid", "invalid"}
    /\ \A s \in Savers :
         /\ saving[s].step \in {"none", "checked", "read", "answered", "refetching"}
         /\ saving[s].step \in {"checked", "read"} => saving[s].tools \subseteq Tools

(* Whatever the user does and whatever arrives in the meantime, a page     *)
(* never shows a graph with an edge into nowhere, a repeated id, a cycle,  *)
(* or an edge into the start or out of an end: the page's own checks keep  *)
(* out what the server would find, but for nodes that are not reached, do  *)
(* not end or are missing.                                                 *)
EditorKeepsShape ==
    \A e \in Editors :
       validateAgentWorkflowDefinition(editor[e].definition)
          \subseteq {"ORPHANED_NODE", "UNREACHABLE_TERMINAL", "MISSING_TERMINAL"}

(* The stored graph is one that the validation accepts, and every tool the *)
(* validation looks for was enabled when its save was checked: neither a   *)
(* stale validation on a page nor a program's request gets around it.      *)
StoredIsAccepted ==
    agent.definition # Null =>
       /\ Accepted(agent.definition)
       /\ workflowToolIssues(agent.definition, agent.vetted) = {}

(* A run of the saved graph that starts now meets no node twice, and ends  *)
(* at an end node unless one of a few things stops it: two names that the  *)
(* compiler makes one, a graph longer than LangGraph's limit, a tool that  *)
(* has been disabled since the save or that saving does not check, or a    *)
(* node all of whose edges have a condition.                               *)
RunEndsForReason ==
    agent.definition # Null =>
       LET d == agent.definition
       IN \A field \in BOOLEAN :
            LET run == Execution(d, agent.tools, field, RecursionLimit)
                at == Last(run.path)
            IN /\ IsInjective(run.path) /\ run.end # "none"
               /\ run.end = "compile" => ~Compiles(d)
               /\ run.end = "limit" => Len(d.nodes) >= RecursionLimit
               /\ run.end = "disabled" =>
                     \/ agent.tools # agent.vetted
                     \/ TypeOf(d, at) = "github.list_repositories"
               /\ run.end = "unroutable" =>
                     \A i \in DOMAIN d.edges :
                        d.edges[i].source = at => d.edges[i].condition # "always"

(* Since the last reset of the template, one version names one graph,      *)
(* unless two saves were under way at once and one wrote over a version it *)
(* had not read.                                                           *)
VersionNamesDefinition ==
    ~raced => \A x, y \in names : x[1] = y[1] => x[2] = y[2]

(* "Save must be disabled until server validation passes": while the Save  *)
(* button is enabled, the graph on the page would pass.                    *)
EnabledSaveIsValidated ==
    \A e \in Editors :
       Showing(e) /\ editor[e].valid => Accepted(editor[e].definition)

=============================================================================
