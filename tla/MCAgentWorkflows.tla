-------------------------- MODULE MCAgentWorkflows --------------------------
(***************************************************************************)
(* An instance of AgentWorkflows for TLC, and the validation compared with *)
(* what it is meant to find on every graph of three nodes.                 *)
(***************************************************************************)
EXTENDS AgentWorkflows

Node(word, mark, n, type) == [id |-> <<word, mark, n>>, type |-> type]
Edge(source, target, condition) ==
    [id |-> <<source, target, 0>>, source |-> source, target |-> target,
     condition |-> condition]

Begin    == Node("start", "", 0, "start")
Search   == Node("knowledge", "", 0, "knowledge.search")
Generate == Node("generate", "", 0, "llm.generate")
End      == Node("complete", "", 0, "complete")
List     == Node("github.list", "-", 1, "github.list_repositories")
Dash     == Node("check", "-", 1, "condition")
Dot      == Node("check", ".", 1, "condition")

Path(nodes) ==
    [nodes |-> nodes,
     edges |-> [i \in 1 .. Len(nodes) - 1 |->
                  Edge(nodes[i].id, nodes[i + 1].id, "always")]]

MCTemplate == Path(<<Begin, Search, End>>)

(* A path too long for the limit; two ids of one name; a tool that saving  *)
(* does not check, behind a condition; a cycle.                            *)
MCPosts ==
    {Path(<<Begin, Search, Generate, Dash, End>>),
     Path(<<Begin, Dash, Dot, End>>),
     [Path(<<Begin, List, End>>) EXCEPT !.edges[1].condition = "field.exists"],
     [Path(<<Begin, Search, Dash, End>>) EXCEPT
        !.edges = Append(@, Edge(Dash.id, Search.id, "previousStep.failed"))]}

-----------------------------------------------------------------------------
Small ==
    LET Three == <<Begin, Dash, End>>
        pair == [k \in 1..9 |-> <<Three[1 + ((k - 1) \div 3)].id, Three[1 + ((k - 1) % 3)].id>>]
        every == [k \in 1..9 |-> Edge(pair[k][1], pair[k][2], "always")]
    IN {[nodes |-> [i \in 1..3 |-> [Three[i] EXCEPT !.type = types[i]]],
         edges |-> SelectSeq(every, LAMBDA x : x \in chosen)] :
        types \in [1..3 -> {"start", "condition", "complete"}],
        chosen \in SUBSET {every[k] : k \in 1..9}}

ASSUME ValidationIsWellFormed == \A d \in Small : Accepted(d) <=> WellFormed(d)

=============================================================================
