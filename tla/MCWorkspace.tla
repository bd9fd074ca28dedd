---------------------------- MODULE MCWorkspace ----------------------------
(* An instance of GoldenEvaluation, Conversations and KnowledgePage for     *)
(* TLC.  They share no state: a behaviour follows one of them and leaves    *)
(* the others in their initial states.  The run also evaluates the          *)
(* assumptions of MCAlgorithms.                                             *)
EXTENDS GoldenEvaluation, Conversations, KnowledgePage, MCAlgorithms, TLC

CONSTANTS e1, e2, t1, t2, t3

VARIABLE part

MCSamples == <<"Sample RAG grounding", "Sample RSS briefing">>

Symmetry == Permutations(Evaluators) \cup Permutations(Turns)

MCInit ==
    /\ GoldenInit /\ ConversationInit /\ KnowledgeInit
    /\ part \in {"evaluation", "conversation", "knowledge"}
    /\ part # "conversation" =>
         /\ \A t, u \in Turns : turn[t] = turn[u]
         /\ \A t \in Turns : turn[t].kind = "chat" /\ turn[t].agent = "g" /\ turn[t].text = "a"
    /\ part # "evaluation" => cases = <<>>

MCNext ==
    /\ UNCHANGED part
    /\ \/ part = "evaluation" /\ GoldenNext /\ UNCHANGED <<conversationVars, knowledgeVars>>
       \/ part = "conversation" /\ ConversationNext /\ UNCHANGED <<goldenVars, knowledgeVars>>
       \/ part = "knowledge" /\ KnowledgeNext /\ UNCHANGED <<goldenVars, conversationVars>>

MCSpec == MCInit /\ [][MCNext]_<<part, goldenVars, conversationVars, knowledgeVars>>
=============================================================================
