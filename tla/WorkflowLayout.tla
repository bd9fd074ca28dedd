--------------------------- MODULE WorkflowLayout ---------------------------
(* Where the editor draws the nodes of a workflow, and how it names an      *)
(* edge's condition in its form.  A definition has nodes [id, type] and     *)
(* edges [source, target, condition], a condition [type, of] or Null.       *)
EXTENDS Naturals, Sequences, FiniteSets, TLC

CONSTANT Null

ToSet(s) == {s[i] : i \in DOMAIN s}

Ids(d) == {n.id : n \in ToSet(d.nodes)}

TypeOf(d, id) == (CHOOSE n \in ToSet(d.nodes) : n.id = id).type

-----------------------------------------------------------------------------
(* The main path: from the start along the edge of the best priority to a   *)
(* node not met before, up to a terminal.                                   *)

conditionOf(e) == IF e.condition = Null THEN "always" ELSE e.condition.type

edgePriority(e) ==
    CASE conditionOf(e) = "always"              -> 0
      [] conditionOf(e) \in {"tool.enabled", "field.exists", "connection.exists",
                             "previousStep.succeeded"} -> 1
      [] conditionOf(e) = "previousStep.failed" -> 10
      [] OTHER                                  -> 5

(* sort keeps the order of edges of one priority. *)
Best(edges) ==
    edges[CHOOSE i \in DOMAIN edges : \A j \in DOMAIN edges :
             \/ edgePriority(edges[i]) < edgePriority(edges[j])
             \/ edgePriority(edges[i]) = edgePriority(edges[j]) /\ i <= j]

mainWorkflowPath(d) ==
    LET starts == SelectSeq(d.nodes, LAMBDA n : n.type = "start")
        Next(path) ==
            LET at == path[Len(path)]
                New(e) == e.source = at /\ e.target \notin ToSet(path)
                edges == SelectSeq(d.edges, New)
            IN IF TypeOf(d, at) \in {"complete", "fail"} \/ edges = <<>> THEN Null
               ELSE IF Best(edges).target \in Ids(d) THEN Best(edges).target ELSE Null
        from[k \in 0 .. Len(d.nodes)] ==
            IF k = 0 THEN IF starts = <<>> THEN <<>> ELSE <<starts[1].id>>
            ELSE LET path == from[k - 1]
                     next == IF path = <<>> THEN Null ELSE Next(path)
                 IN IF next = Null THEN path ELSE Append(path, next)
    IN from[Len(d.nodes)]

-----------------------------------------------------------------------------
(* The columns: those of the main path first, then raised along the edges,  *)
(* a queue of nodes at a time, at most four times as often as there are     *)
(* nodes.  None stands for a node without a column.                         *)

Column(columns, id) == IF id \in DOMAIN columns THEN columns[id] + 1 ELSE 0

(* One node of the queue: its targets in the order of the edges.            *)
Relax(d, s) ==
    LET source == Head(s.queue)
        next == Column(s.columns, source)
        Outgoing(e) == e.source = source /\ e.target \in Ids(d)
        edges == SelectSeq(d.edges, Outgoing)
        raise[k \in 0 .. Len(edges)] ==
            IF k = 0 THEN [s EXCEPT !.queue = Tail(@)]
            ELSE LET t == raise[k - 1]
                     target == edges[k].target
                 IN IF Column(t.columns, target) > next THEN t
                    ELSE [columns |-> (target :> next) @@ t.columns,
                          queue |-> IF target \in ToSet(t.queue) THEN t.queue
                                    ELSE Append(t.queue, target)]
    IN raise[Len(edges)]

columnsOf(d) ==
    LET path == mainWorkflowPath(d)
        limit == IF d.nodes = <<>> THEN 1 ELSE 4 * Len(d.nodes)
        first == [columns |-> [id \in ToSet(path) |->
                                  (CHOOSE i \in DOMAIN path : path[i] = id) - 1],
                  queue |-> IF path # <<>> THEN <<path[1]>>
                            ELSE IF "start" \in Ids(d) THEN <<"start">> ELSE <<>>]
        from[k \in 0 .. limit] ==
            IF k = 0 THEN first
            ELSE LET s == from[k - 1] IN IF s.queue = <<>> THEN s ELSE Relax(d, s)
    IN from[limit].columns

(* The main path in the first row, any other node in the next free one.     *)
workflowLayout(d) ==
    LET columns == columnsOf(d)
        path == ToSet(mainWorkflowPath(d))
        column(i) == LET n == d.nodes[i]
                     IN IF n.id \in DOMAIN columns THEN columns[n.id]
                        ELSE IF n.type \in {"complete", "fail"} THEN 4 ELSE 1
        row(i) == IF d.nodes[i].id \in path THEN 0
                  ELSE 1 + Cardinality({j \in 1 .. i - 1 : d.nodes[j].id \notin path
                                                           /\ column(j) = column(i)})
    IN [i \in DOMAIN d.nodes |-> [x |-> column(i), y |-> row(i)]]

minimalWorkflow ==
    [nodes |-> <<[id |-> "start", type |-> "start"],
                 [id |-> "generate-answer", type |-> "llm.generate"],
                 [id |-> "complete", type |-> "complete"]>>,
     edges |-> <<[source |-> "start", target |-> "generate-answer", condition |-> Null],
                 [source |-> "generate-answer", target |-> "complete", condition |-> Null]>>]

-----------------------------------------------------------------------------
(* The presets of an edge's form.                                           *)

conditionPreset(preset, sourceNodeId) ==
    CASE preset = "knowledge" -> [type |-> "tool.enabled", of |-> "knowledge.search"]
      [] preset = "rss"       -> [type |-> "field.exists", of |-> "run.rssUrl"]
      [] preset = "feeds"     -> [type |-> "field.exists", of |-> "tenant.enabledFeeds"]
      [] preset = "gmail"     -> [type |-> "connection.exists", of |-> "GMAIL"]
      [] preset = "failure"   -> [type |-> "previousStep.failed", of |-> sourceNodeId]
      [] OTHER                -> [type |-> "always", of |-> ""]

conditionPresetValue(condition) ==
    IF condition = Null THEN "always"
    ELSE CASE condition.type = "tool.enabled"        -> "knowledge"
           [] condition.type = "field.exists" /\ condition.of = "run.rssUrl" -> "rss"
           [] condition.type = "field.exists" /\ condition.of = "tenant.enabledFeeds" -> "feeds"
           [] condition.type = "connection.exists"   -> "gmail"
           [] condition.type = "previousStep.failed" -> "failure"
           [] OTHER                                  -> "always"

-----------------------------------------------------------------------------
(* What must hold of them.                                                  *)

(* No two nodes are drawn on one spot, and the main path is in the first    *)
(* row; in a workflow without cycles it goes to the right, and so does      *)
(* every edge from the start or from a node that was given its column       *)
(* beside the path: the bound on the rounds cuts nothing off.  An edge that *)
(* leaves the path later may go back, since its end is given no column.     *)
LayoutIsReadable(d, acyclic) ==
    LET layout == workflowLayout(d)
        path == mainWorkflowPath(d)
        At(id) == layout[CHOOSE i \in DOMAIN d.nodes : d.nodes[i].id = id]
        placed == DOMAIN columnsOf(d)
        leaving == {e \in ToSet(d.edges) : e.source = path[1]}
    IN /\ acyclic =>
            /\ \A i, j \in DOMAIN layout : layout[i] = layout[j] => i = j
            /\ \A i \in 2 .. Len(path) : At(path[i - 1]).x < At(path[i]).x
            /\ \A e \in ToSet(d.edges) :
                  e.source \in (placed \ ToSet(path)) \cup {path[1]}
                     => At(e.source).x < At(e.target).x
       /\ \A id \in ToSet(path) : At(id).y = 0
       /\ Cardinality(leaving) <= 1 /\ acyclic => placed = ToSet(path)

(* A preset that is chosen is the one the form shows, and the condition it  *)
(* makes is made again by it.                                               *)
PresetsAreKept(preset, sourceNodeId) ==
    LET condition == conditionPreset(preset, sourceNodeId)
    IN /\ conditionPresetValue(condition) = preset
       /\ conditionPreset(conditionPresetValue(condition), sourceNodeId) = condition
=============================================================================
