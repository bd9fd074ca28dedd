---------------------------- MODULE GoldenScore ----------------------------
(* How the answer to one golden case is scored, and how the page sums the   *)
(* results of an evaluation.  An answer is the set of phrases that it       *)
(* includes once both are normalized.                                       *)
EXTENDS Naturals, Sequences, FiniteSets

CONSTANT Null

-----------------------------------------------------------------------------
(* What is scored.                                                          *)

(* In FULL_AGENT_RUNTIME mode: the conversation's last answer, ...          *)
latestAssistantMessage(messages) ==
    LET answers == {i \in DOMAIN messages : messages[i].role = "ASSISTANT"}
    IN IF answers = {} THEN Null
       ELSE messages[CHOOSE i \in answers : \A j \in answers : j <= i]

(* ... or else what the first llm.generate row or the run's error says.     *)
runtimeFallbackAnswer(run, steps) ==
    LET Generates(step) == step.kind = "llm.generate"
        generations == SelectSeq(steps, Generates)
    IN IF generations # <<>> /\ Head(generations).outputPreview # Null
       THEN Head(generations).outputPreview
       ELSE IF run # Null /\ run.errorMessage # Null THEN run.errorMessage
       ELSE {}

caseResponse(run, steps, messages) ==
    LET assistant == latestAssistantMessage(messages)
    IN IF assistant = Null THEN runtimeFallbackAnswer(run, steps) ELSE assistant.content

(* mcp.github is not counted, although the usage report counts it.          *)
countRuntimeToolCalls(steps) ==
    LET Call(step) == /\ step.status = "COMPLETED"
                      /\ step.kind \in {"rag.retrieve", "mcp.news", "mcp.gmail",
                                        "usage.summary", "gmail.draft_review"}
    IN Len(SelectSeq(steps, Call))

-----------------------------------------------------------------------------
(* evaluateAnswer.  Scores are counted in thousandths.                      *)

Matched(expectations, answer) ==
    LET Found(value) == value \in answer IN Len(SelectSeq(expectations, Found))

roundScore(part, whole) == (2000 * part + whole) \div (2 * whole)

evaluateAnswer(goldenCase, answer) ==
    LET forbidden == Len(goldenCase.forbiddenClaims)
        sources == Len(goldenCase.expectedSources)
        sourcePasses == Matched(goldenCase.expectedSources, answer)
        total == Len(goldenCase.expectedFacts) + forbidden + sources
        satisfied == Matched(goldenCase.expectedFacts, answer)
                       + (forbidden - Matched(goldenCase.forbiddenClaims, answer))
                       + sourcePasses
    IN [passed |-> total = 0 \/ satisfied = total,
        score |-> IF total = 0 THEN 1000 ELSE roundScore(satisfied, total),
        retrievalHit |-> sources > 0 /\ sourcePasses = sources]

-----------------------------------------------------------------------------
(* summarizeReport: passed of total, and the mean score.                    *)

summarizeReport(results) ==
    LET Passed(row) == row.passed
        total == Len(results)
        scores[k \in 0 .. total] == IF k = 0 THEN 0 ELSE scores[k - 1] + results[k].score
    IN [passed |-> Len(SelectSeq(results, Passed)), total |-> total,
        score |-> IF total = 0 THEN 0 ELSE scores[total] \div total]

-----------------------------------------------------------------------------
(* What must hold of them.                                                  *)

(* An answer passes exactly when it has all that is expected and nothing    *)
(* forbidden, and only then is its score full: the rounding to thousandths  *)
(* never shows a failed answer as perfect.                                  *)
ScoreIsFair(goldenCase, answer) ==
    LET Said(list) == {list[i] : i \in DOMAIN list}
        right == /\ Said(goldenCase.expectedFacts) \subseteq answer
                 /\ Said(goldenCase.expectedSources) \subseteq answer
                 /\ Said(goldenCase.forbiddenClaims) \cap answer = {}
        evaluation == evaluateAnswer(goldenCase, answer)
    IN /\ evaluation.passed = right
       /\ evaluation.score \in 0 .. 1000
       /\ evaluation.score = 1000 <=> right

(* The rounding alone, for as many expectations as a case may hold.         *)
OnlyFullScoresAreFull(total) ==
    \A satisfied \in 0 .. total : roundScore(satisfied, total) = 1000 <=> satisfied = total

(* The page's mean is full only when every case passed.                     *)
SummaryIsFair(results) ==
    LET summary == summarizeReport(results)
    IN results # <<>> => (summary.score = 1000 <=> \A i \in DOMAIN results : results[i].score = 1000)

(* A run that stored an answer is scored by that answer, not by the preview *)
(* of a step nor by its error.                                              *)
AnswerIsScored(run, steps, messages) ==
    \A i \in DOMAIN messages :
       messages[i].role = "ASSISTANT"
         /\ (\A j \in i + 1 .. Len(messages) : messages[j].role = "USER")
         => caseResponse(run, steps, messages) = messages[i].content
=============================================================================
