--------------------------- MODULE WorkflowGraph ---------------------------
(***************************************************************************)
(* Saved workflow definitions as packages/contracts validates them and as  *)
(* the worker's compiler routes through them.                              *)
(*                                                                         *)
(* A definition is a record of two sequences, the order of which counts:   *)
(*   nodes : [id, type]                                                    *)
(*   edges : [id, source, target, condition]                               *)
(* A node's id is a word, a mark and a number; the mark is what the        *)
(* compiler may not keep in a name.  A tool's node has the tool's name for *)
(* a type.  Two tools stand for all: knowledge.search for those that       *)
(* saving checks, github.list_repositories for the one that it does not.   *)
(* The types condition and human.review do nothing when they are executed  *)
(* and count as one.                                                       *)
(***************************************************************************)
EXTENDS SequencesExt

Terminal == {"complete", "fail"}

(* filter(): those members of a sequence that are in a set, in their order.*)
Only(s, S) ==
    LET kept[k \in 0 .. Len(s)] ==
            IF k = 0 THEN <<>>
            ELSE IF s[k] \in S THEN Append(kept[k - 1], s[k]) ELSE kept[k - 1]
    IN kept[Len(s)]

(* What the schemas parse: two arrays, of nodes and of edges.              *)
IsGraph(d) ==
    /\ DOMAIN d = {"nodes", "edges"}
    /\ d.nodes \in Seq(ToSet(d.nodes)) /\ d.edges \in Seq(ToSet(d.edges))
    /\ \A n \in ToSet(d.nodes) : DOMAIN n = {"id", "type"}
    /\ \A e \in ToSet(d.edges) : DOMAIN e = {"id", "source", "target", "condition"}

nodeIds(d) == {n.id : n \in ToSet(d.nodes)}

(* buildAdjacency(): the targets of a node's edges, in the edges' order.   *)
buildAdjacency(d) ==
    [n \in nodeIds(d) |->
        LET outgoing == Only(d.edges, {e \in ToSet(d.edges) : e.source = n})
        IN [i \in DOMAIN outgoing |-> outgoing[i].target]]

(* What the stack has put into the set when it is empty: in as many rounds *)
(* as there are nodes nothing new is left to reach.                        *)
reachableFrom(n, adjacency) ==
    LET Grow(R) == R \cup UNION {ToSet(adjacency[x]) : x \in R}
        rounds == Cardinality(DOMAIN adjacency)
        reached[k \in 0 .. rounds] == IF k = 0 THEN {n} ELSE Grow(reached[k - 1])
    IN reached[rounds]

(* The three sets of the depth-first search.                               *)
SearchState(ids) ==
    [visiting : SUBSET ids, visited : SUBSET ids, cyclic : SUBSET ids]

(* The loop over the targets of n: whoever has a flagged target is flagged *)
(* in turn.                                                                *)
follow(n, targets, s, visit) ==
    LET after[k \in 0 .. Len(targets)] ==
            IF k = 0 THEN s
            ELSE LET u == visit[<<targets[k], after[k - 1]>>]
                 IN IF targets[k] \in u.cyclic
                    THEN [u EXCEPT !.cyclic = @ \cup {n}] ELSE u
    IN after[Len(targets)]

(* visit(): a node met while it is being visited is on a cycle.  calls is  *)
(* what a call inside this one does.                                       *)
visitNode(n, targets, s, calls) ==
    IF n \in s.visiting THEN [s EXCEPT !.cyclic = @ \cup {n}]
    ELSE IF n \in s.visited THEN s
    ELSE [follow(n, targets, [s EXCEPT !.visiting = @ \cup {n}], calls)
            EXCEPT !.visiting = @ \ {n}, !.visited = @ \cup {n}]

(* Every call inside another visits one node more: they are nested no      *)
(* deeper than there are nodes, and one.                                   *)
cyclicNodeIds(d) ==
    LET ids == nodeIds(d)
        adjacency == buildAdjacency(d)
        depth == Cardinality(ids) + 1
        visit[k \in 0 .. depth] ==
            [x \in ids \X SearchState(ids) |->
                IF k = 0 THEN x[2]
                ELSE visitNode(x[1], adjacency[x[1]], x[2], visit[k - 1])]
        nothing == [visiting |-> {}, visited |-> {}, cyclic |-> {}]
        searched[k \in 0 .. Len(d.nodes)] ==
            IF k = 0 THEN nothing ELSE visit[depth][<<d.nodes[k].id, searched[k - 1]>>]
    IN searched[Len(d.nodes)].cyclic

canReachTerminal(n, adjacency, terminals) ==
    reachableFrom(n, adjacency) \cap terminals # {}

IdsOf(nodes, types) == {n.id : n \in {m \in ToSet(nodes) : m.type \in types}}

starts(d) == Only(d.nodes, {n \in ToSet(d.nodes) : n.type = "start"})

(* The errors that need no search.                                         *)
shapeErrors(d) ==
    LET sources == {e.source : e \in ToSet(d.edges)}
        targets == {e.target : e \in ToSet(d.edges)}
        Error(code, holds) == IF holds THEN {code} ELSE {}
    IN Error("DUPLICATE_NODE_ID", Cardinality(nodeIds(d)) # Len(d.nodes))
         \cup Error("DUPLICATE_EDGE_ID",
                    Cardinality({e.id : e \in ToSet(d.edges)}) # Len(d.edges))
         \cup Error("DANGLING_EDGE", ~((sources \cup targets) \subseteq nodeIds(d)))
         \cup Error("MISSING_START", Len(starts(d)) # 1)
         \cup Error("START_HAS_INCOMING_EDGE", IdsOf(d.nodes, {"start"}) \cap targets # {})
         \cup Error("MISSING_TERMINAL", IdsOf(d.nodes, Terminal) = {})
         \cup Error("TERMINAL_HAS_OUTGOING_EDGE", IdsOf(d.nodes, Terminal) \cap sources # {})

searchErrors(d) ==
    LET adjacency == buildAdjacency(d)
        terminals == IdsOf(d.nodes, Terminal)
        Orphaned == /\ starts(d) # <<>>
                    /\ reachableFrom(starts(d)[1].id, adjacency) # nodeIds(d)
        Stuck == \E n \in nodeIds(d) :
                    ~canReachTerminal(n, adjacency, terminals)
    IN (IF Orphaned THEN {"ORPHANED_NODE"} ELSE {})
         \cup (IF cyclicNodeIds(d) # {} THEN {"UNSUPPORTED_CYCLE"} ELSE {})
         \cup (IF Stuck THEN {"UNREACHABLE_TERMINAL"} ELSE {})

(* The codes of the errors.  With an edge into nowhere nothing is searched.*)
validateAgentWorkflowDefinition(d) ==
    IF "DANGLING_EDGE" \in shapeErrors(d) THEN shapeErrors(d)
    ELSE shapeErrors(d) \cup searchErrors(d)

Accepted(d) == validateAgentWorkflowDefinition(d) = {}

-----------------------------------------------------------------------------
(* What the API checks beside the shape.  The GitHub step is a tool of the *)
(* compiler's, and not one of this list.                                   *)

workflowToolIdForNode_None(n) == {}

workflowToolIdForNode(n) == {n.type} \cap {"knowledge.search"}

workflowToolIssues(d, enabled) ==
    (UNION {workflowToolIdForNode(n) : n \in ToSet(d.nodes)}) \ enabled

-----------------------------------------------------------------------------
(* The compiler.                                                           *)

(* Every mark but letters, digits and the underscore becomes one.          *)
workflowNodeName(id) ==
    [id EXCEPT ![2] = IF @ \in {"-", ".", ":"} THEN "_" ELSE @]

(* LangGraph takes no second node of a name.                               *)
Compiles(d) ==
    Cardinality({workflowNodeName(id) : id \in nodeIds(d)}) = Len(d.nodes)

(* The tools whose handlers are guarded: a snapshot without the tool fails *)
(* the run.                                                                *)
guardedToolHandler == {"knowledge.search", "github.list_repositories"}

(* The state a condition looks at: the tools in the run's snapshot, the    *)
(* number of outputs so far, and whether the run's input has the field.    *)
evaluateCondition(condition, state) ==
    \/ condition = "always"
    \/ condition = "tool.enabled" /\ "knowledge.search" \in state.tools
    \/ condition = "field.exists" /\ state.field
    \/ condition = "previousStep.succeeded" /\ state.outputs > 0
    \/ condition = "previousStep.failed" /\ state.outputs = 0

(* The first edge in order whose condition holds, or none.                 *)
selectWorkflowRoute(d, n, state) ==
    LET open == Only(d.edges, {e \in ToSet(d.edges) :
                                 e.source = n /\ evaluateCondition(e.condition, state)})
    IN IF open = <<>> THEN {} ELSE {open[1].target}

TypeOf(d, id) == (CHOOSE n \in ToSet(d.nodes) : n.id = id).type

(* The nodes that a run meets and why it ends, when no step fails.  The    *)
(* library executes limit nodes at most, the one that loads the run among  *)
(* them.                                                                   *)
Execution(d, tools, field, limit) ==
    LET outputs(path) ==
            Cardinality({i \in DOMAIN path : TypeOf(d, path[i]) \in guardedToolHandler})
        next(path) ==
            selectWorkflowRoute(d, Last(path), [tools |-> tools, field |-> field,
                                                outputs |-> outputs(path)])
        end(path) ==
            LET type == TypeOf(d, Last(path))
            IN IF Len(path) >= limit THEN "limit"
               ELSE IF type \in guardedToolHandler \ tools THEN "disabled"
               ELSE IF type \in Terminal THEN type
               ELSE IF next(path) = {} THEN "unroutable"
               ELSE "none"
        walk[k \in 0 .. limit] ==
            IF k = 0 THEN <<starts(d)[1].id>>
            ELSE LET path == walk[k - 1]
                 IN IF end(path) # "none" THEN path
                    ELSE Append(path, CHOOSE n \in next(path) : TRUE)
    IN IF Accepted(d) /\ Compiles(d)
       THEN LET path == walk[limit] IN [path |-> path, end |-> end(path)]
       ELSE [path |-> <<starts(d)[1].id>>, end |-> "compile"]

-----------------------------------------------------------------------------
(* What validation is meant to find, said without its searches.            *)

Edges(d) == {<<e.source, e.target>> : e \in ToSet(d.edges)}

(* n can be reached from m: every set closed under the edges that has m    *)
(* has n.                                                                  *)
Reaches(d, m, n) ==
    \A C \in SUBSET nodeIds(d) :
       m \in C /\ (\A e \in Edges(d) : e[1] \in C => e[2] \in C) => n \in C

(* Some nodes keep an edge among themselves each.                          *)
HasCycle(d) ==
    \E C \in (SUBSET nodeIds(d)) \ {{}} :
       \A m \in C : \E n \in C : <<m, n>> \in Edges(d)

(* One start that nothing leads into and that leads to every node, ends    *)
(* that nothing leads out of and that every node leads to, no cycle.       *)
WellFormed(d) ==
    /\ Cardinality(nodeIds(d)) = Len(d.nodes)
    /\ Cardinality({e.id : e \in ToSet(d.edges)}) = Len(d.edges)
    /\ \A e \in Edges(d) : e[1] \in nodeIds(d) /\ e[2] \in nodeIds(d)
    /\ \E s \in nodeIds(d) :
         /\ IdsOf(d.nodes, {"start"}) = {s}
         /\ \A e \in Edges(d) : e[2] # s
         /\ \A n \in nodeIds(d) : Reaches(d, s, n)
    /\ \A n \in IdsOf(d.nodes, Terminal), e \in Edges(d) : e[1] # n
    /\ \A n \in nodeIds(d) : \E t \in IdsOf(d.nodes, Terminal) : Reaches(d, n, t)
    /\ ~HasCycle(d)

=============================================================================
