----------------------- MODULE GoldenEvaluationProofs -----------------------
(* What holds of an evaluation for any workers, cases, requests, failures   *)
(* and stalls: it does not stay under way with nobody at work on it, and a  *)
(* report that says COMPLETED is whole.                                     *)
EXTENDS GoldenEvaluation, SequenceTheorems, FiniteSetTheorems, TLAPS

Places == {"idle", "mark", "list", "answer", "score", "complete", "caught",
           "completed", "failed"}

Job == [state : {"none", "waiting", "active", "completed", "failed"},
        holder : Evaluators \cup {Null}, stalls : Nat]

(* An execution's cases left to answer play no part in what is proved.      *)
TypeOK ==
    /\ "status" \in DOMAIN evaluation
    /\ evaluation.status \in {Null, "STARTING", "QUEUED", "RUNNING"} \cup Terminal
    /\ evaluationJob \in Job
    /\ DOMAIN evaluator = Evaluators
    /\ \A e \in Evaluators : "at" \in DOMAIN evaluator[e] /\ evaluator[e].at \in Places
    /\ "lost" \in DOMAIN trouble /\ trouble.lost \in BOOLEAN

(* A job is active under a holder, and only then.                           *)
HolderOK == evaluationJob.state = "active" <=> evaluationJob.holder # Null

(* An execution that is about to return or to throw has seen or written a   *)
(* terminal status, but for a failed call that marks the evaluation.        *)
EndedOK ==
    \A e \in Evaluators :
       \/ evaluator[e].at \in Places \ {"completed", "failed"}
       \/ evaluation.status \in Terminal
       \/ evaluator[e].at = "failed" /\ trouble.lost

(* So has a job that has left the queue.                                    *)
AliveOK ==
    evaluationJob.state \in {"completed", "failed"}
      => evaluation.status \in Terminal \/ trouble.lost

Inv == TypeOK /\ HolderOK /\ EndedOK /\ AliveOK

-----------------------------------------------------------------------------
(* What steps do to each part. *)

(* A terminal evaluation stays terminal.                                    *)
StatusMoves ==
    /\ "status" \in DOMAIN evaluation'
    /\ evaluation'.status \in {Null, "STARTING", "QUEUED", "RUNNING"} \cup Terminal
    /\ evaluation.status \in Terminal => evaluation'.status \in Terminal

(* A lost call or stall is not forgotten.                                   *)
TroubleMoves ==
    /\ "lost" \in DOMAIN trouble' /\ trouble'.lost \in BOOLEAN
    /\ trouble.lost => trouble'.lost

(* Of the executions only e moves.                                          *)
Moves(e) ==
    /\ DOMAIN evaluator' = Evaluators
    /\ \A f \in Evaluators \ {e} : evaluator'[f] = evaluator[f]
    /\ "at" \in DOMAIN evaluator'[e] /\ evaluator'[e].at \in Places

MayEnd(e) ==
    \/ evaluator'[e].at \in Places \ {"completed", "failed"}
    \/ evaluation'.status \in Terminal
    \/ evaluator'[e].at = "failed" /\ trouble'.lost

LEMMA StatusStays ==
    ASSUME TypeOK, evaluation' = evaluation
    PROVE  StatusMoves
BY DEF StatusMoves, TypeOK

LEMMA TroubleStays ==
    ASSUME TypeOK, trouble' = trouble
    PROVE  TroubleMoves
BY DEF TroubleMoves, TypeOK

LEMMA TroubleAdds ==
    ASSUME TypeOK, NEW lost \in BOOLEAN, Trouble(lost)
    PROVE  TroubleMoves /\ trouble'.lost = (trouble.lost \/ lost)
BY DEF TroubleMoves, TypeOK, Trouble

LEMMA EditMoves ==
    ASSUME TypeOK, Edit
    PROVE  TroubleMoves
BY DEF TroubleMoves, TypeOK, Edit

LEMMA Proceeds ==
    ASSUME TypeOK, NEW e \in Evaluators, NEW at \in Places, ProceedTo(e, at)
    PROVE  Moves(e) /\ evaluator'[e].at = at
BY DEF Moves, TypeOK, ProceedTo

LEMMA Becomes ==
    ASSUME TypeOK, NEW e \in Evaluators, NEW row,
           "at" \in DOMAIN row, row.at \in Places,
           evaluator' = [evaluator EXCEPT ![e] = row]
    PROVE  Moves(e) /\ evaluator'[e].at = row.at
BY DEF Moves, TypeOK

LEMMA PlaceNames ==
    /\ {"idle", "mark", "list", "answer", "score", "complete", "caught"}
         \subseteq Places \ {"completed", "failed"}
    /\ {"completed", "failed"} \subseteq Places
    /\ "at" \in DOMAIN Resting /\ Resting.at = "idle"
BY DEF Places, Resting

(* Steps that leave the job and the executions alone.                       *)
LEMMA AsideStep ==
    ASSUME Inv, StatusMoves, TroubleMoves, UNCHANGED <<evaluationJob, evaluator>>
    PROVE  Inv'
BY DEF Inv, TypeOK, HolderOK, EndedOK, AliveOK, StatusMoves, TroubleMoves

(* Steps of one execution that leave the job alone.                         *)
LEMMA ExecutionStep ==
    ASSUME Inv, NEW e \in Evaluators, StatusMoves, TroubleMoves, Moves(e), MayEnd(e),
           UNCHANGED evaluationJob
    PROVE  Inv'
<1>1. TypeOK'
  BY DEF Inv, TypeOK, StatusMoves, TroubleMoves, Moves
<1>2. EndedOK'
  BY DEF Inv, TypeOK, EndedOK, StatusMoves, TroubleMoves, Moves, MayEnd
<1>. QED
  BY <1>1, <1>2 DEF Inv, HolderOK, AliveOK, StatusMoves, TroubleMoves

-----------------------------------------------------------------------------
(* The steps. *)

LEMMA CasesStep ==
    ASSUME Inv, Cases
    PROVE  Inv'
<1>1. StatusMoves /\ UNCHANGED <<evaluationJob, evaluator>>
  BY StatusStays DEF Inv, Cases, createCase, updateCase, deleteCase, installSampleCases,
     InstallSample
<1>2. TroubleMoves
  BY TroubleStays, EditMoves DEF Inv, Cases, createCase, updateCase, deleteCase,
     installSampleCases, InstallSample
<1>. QED
  BY <1>1, <1>2, AsideStep

LEMMA RequestStep ==
    ASSUME Inv, startEvaluation \/ createEvaluationRun \/ findEvaluationRun
                  \/ listEvaluationResults
    PROVE  Inv'
<1>1. TroubleMoves /\ UNCHANGED <<evaluationJob, evaluator>>
  BY TroubleStays DEF Inv, startEvaluation, createEvaluationRun, findEvaluationRun,
     listEvaluationResults
<1>2. StatusMoves
  <2>1. CASE startEvaluation
    BY <2>1, GoldenAssumption DEF Inv, TypeOK, startEvaluation, StatusMoves, Terminal
  <2>2. CASE createEvaluationRun
    BY <2>2 DEF Inv, TypeOK, createEvaluationRun, StatusMoves, Terminal
  <2>3. CASE findEvaluationRun \/ listEvaluationResults
    BY <2>3, StatusStays DEF Inv, findEvaluationRun, listEvaluationResults
  <2>. QED
    BY <2>1, <2>2, <2>3
<1>. QED
  BY <1>1, <1>2, AsideStep

LEMMA EnqueueStep ==
    ASSUME Inv, enqueue
    PROVE  Inv'
<1>1. StatusMoves /\ TroubleMoves /\ evaluator' = evaluator
  BY StatusStays, TroubleStays DEF Inv, enqueue
<1>2. /\ evaluationJob' \in Job /\ evaluationJob'.state = "waiting"
      /\ evaluationJob'.holder = Null
  BY DEF Inv, TypeOK, Job, HolderOK, enqueue
<1>3. TypeOK' /\ EndedOK'
  BY <1>1, <1>2 DEF Inv, TypeOK, EndedOK, StatusMoves, TroubleMoves
<1>. QED
  BY <1>2, <1>3 DEF Inv, HolderOK, AliveOK

LEMMA TakeStep ==
    ASSUME Inv, NEW e \in Evaluators, Take(e)
    PROVE  Inv'
<1>1. StatusMoves /\ TroubleMoves
  BY StatusStays, TroubleStays DEF Inv, Take
<1>2. Moves(e) /\ evaluator'[e].at = "mark"
  BY PlaceNames, Proceeds DEF Inv, Take, ProceedTo
<1>3. /\ evaluationJob' \in Job /\ evaluationJob'.state = "active"
      /\ evaluationJob'.holder = e /\ e # Null
  BY GoldenAssumption DEF Inv, TypeOK, Job, Take
<1>4. TypeOK' /\ EndedOK'
  BY <1>1, <1>2, <1>3, PlaceNames
     DEF Inv, TypeOK, EndedOK, StatusMoves, TroubleMoves, Moves
<1>. QED
  BY <1>3, <1>4 DEF Inv, HolderOK, AliveOK

(* The job leaves the queue as its holder's execution ended.                *)
LEMMA SettleStep ==
    ASSUME Inv, NEW e \in Evaluators, NEW state \in {"completed", "failed"},
           Settle(e, state)
    PROVE  Inv'
<1>1. StatusMoves /\ TroubleMoves /\ evaluation' = evaluation /\ trouble' = trouble
  BY StatusStays, TroubleStays DEF Inv, Settle
<1>2. Moves(e) /\ evaluator'[e].at = "idle"
  BY PlaceNames, Becomes DEF Inv, Settle
<1>3. evaluation.status \in Terminal \/ trouble.lost
  BY DEF Inv, EndedOK, Settle, Places
<1>4. TypeOK'
  BY <1>1, <1>2 DEF Inv, TypeOK, Job, Settle, StatusMoves, TroubleMoves, Moves
<1>5. EndedOK'
  BY <1>1, <1>2, PlaceNames
     DEF Inv, TypeOK, EndedOK, StatusMoves, TroubleMoves, Moves
<1>6. HolderOK' /\ AliveOK'
  BY <1>1, <1>3 DEF Inv, TypeOK, Job, HolderOK, AliveOK, Settle
<1>. QED
  BY <1>4, <1>5, <1>6 DEF Inv

(* A job that fails for its stalls is lost.                                 *)
LEMMA StallStep ==
    ASSUME Inv, StallJob
    PROVE  Inv'
<1>. DEFINE spent == evaluationJob.stalls = MaxStalls
<1>1. StatusMoves /\ evaluation' = evaluation /\ evaluator' = evaluator
  BY StatusStays DEF Inv, StallJob
<1>2. TroubleMoves /\ (spent => trouble'.lost)
  <2>1. CASE evaluator[evaluationJob.holder] = Resting
    BY <2>1 DEF Inv, TypeOK, StallJob, TroubleMoves
  <2>2. CASE evaluator[evaluationJob.holder] # Resting
    BY <2>2, TroubleAdds DEF Inv, StallJob
  <2>. QED
    BY <2>1, <2>2
<1>3. /\ evaluationJob' \in Job /\ evaluationJob'.holder = Null
      /\ evaluationJob'.state = IF spent THEN "failed" ELSE "waiting"
  BY DEF Inv, TypeOK, Job, StallJob
<1>4. TypeOK' /\ EndedOK'
  BY <1>1, <1>2, <1>3 DEF Inv, TypeOK, EndedOK, StatusMoves, TroubleMoves
<1>. QED
  BY <1>2, <1>3, <1>4 DEF Inv, HolderOK, AliveOK

LEMMA ProcessStep ==
    ASSUME Inv, NEW e \in Evaluators,
           \/ markEvaluationRunning(e) \/ MarkRunningFails(e)
           \/ listCasesForEvaluation(e) \/ generateCaseAnswer(e) \/ runFullAgentRuntime(e)
           \/ createEvaluationResult(e) \/ markEvaluationCompleted(e)
           \/ markEvaluationFailed(e) \/ EvaluationThrows(e) \/ MarkFailedFails(e)
           \/ WorkerDies(e)
    PROVE  Inv'
<1>1. CASE markEvaluationRunning(e)
  <2>1. CASE evaluation.status \in Terminal
    BY <1>1, <2>1, PlaceNames, Proceeds, StatusStays, TroubleStays, ExecutionStep
       DEF Inv, markEvaluationRunning, MayEnd
  <2>2. CASE evaluation.status \notin Terminal
    <3>1. StatusMoves
      BY <1>1, <2>2 DEF Inv, TypeOK, markEvaluationRunning, StatusMoves
    <3>2. TroubleMoves
      BY <1>1, <2>2 DEF Inv, TypeOK, markEvaluationRunning, TroubleMoves
    <3>. QED
      BY <1>1, <2>2, <3>1, <3>2, PlaceNames, Proceeds, ExecutionStep
         DEF Inv, markEvaluationRunning, MayEnd
  <2>. QED
    BY <2>1, <2>2
<1>2. CASE MarkRunningFails(e) \/ MarkFailedFails(e)
  <2>1. StatusMoves /\ evaluationJob' = evaluationJob
    BY <1>2, StatusStays DEF Inv, MarkRunningFails, MarkFailedFails
  <2>2. TroubleMoves /\ trouble'.lost
    BY <1>2, TroubleAdds DEF Inv, TypeOK, MarkRunningFails, MarkFailedFails
  <2>3. Moves(e) /\ evaluator'[e].at = "failed"
    BY <1>2, PlaceNames, Proceeds DEF Inv, MarkRunningFails, MarkFailedFails
  <2>. QED
    BY <2>1, <2>2, <2>3, ExecutionStep DEF MayEnd
<1>3. CASE listCasesForEvaluation(e) \/ createEvaluationResult(e)
  <2>1. /\ StatusMoves /\ TroubleMoves /\ evaluationJob' = evaluationJob
    BY <1>3, StatusStays, TroubleStays
       DEF Inv, listCasesForEvaluation, createEvaluationResult
  <2>2. Moves(e) /\ evaluator'[e].at \in {"complete", "answer"}
    <3>1. PICK at \in {"complete", "answer"} : \E todo :
             evaluator' = [evaluator EXCEPT ![e] = [at |-> at, todo |-> todo]]
      BY <1>3 DEF listCasesForEvaluation, createEvaluationResult
    <3>2. PICK row : /\ "at" \in DOMAIN row /\ row.at = at
                     /\ evaluator' = [evaluator EXCEPT ![e] = row]
      BY <3>1
    <3>. QED
      BY ZenonT(40), <3>1, <3>2, PlaceNames, Becomes DEF Inv
  <2>. QED
    BY <2>1, <2>2, PlaceNames, ExecutionStep DEF MayEnd
<1>4. CASE generateCaseAnswer(e) \/ runFullAgentRuntime(e)
  <2>1. /\ StatusMoves /\ TroubleMoves /\ evaluationJob' = evaluationJob
    BY <1>4, StatusStays, TroubleStays DEF Inv, generateCaseAnswer, runFullAgentRuntime
  <2>2. Moves(e) /\ evaluator'[e].at = "score"
    BY <1>4, PlaceNames, Proceeds DEF Inv, generateCaseAnswer, runFullAgentRuntime
  <2>. QED
    BY <2>1, <2>2, PlaceNames, ExecutionStep DEF MayEnd
<1>5. CASE markEvaluationCompleted(e) \/ markEvaluationFailed(e)
  <2>1. TroubleMoves /\ evaluationJob' = evaluationJob
    BY <1>5, TroubleStays
       DEF Inv, markEvaluationCompleted, markEvaluationFailed, finishEvaluation
  <2>2. StatusMoves /\ evaluation'.status \in Terminal
    BY <1>5 DEF Inv, TypeOK, Terminal, StatusMoves, markEvaluationCompleted,
       markEvaluationFailed, finishEvaluation
  <2>3. Moves(e)
    <3>1. PICK at \in {"completed", "failed"} :
             evaluator' = [evaluator EXCEPT ![e] = [at |-> at, todo |-> <<>>]]
      BY <1>5 DEF markEvaluationCompleted, markEvaluationFailed, finishEvaluation
    <3>2. PICK row : /\ "at" \in DOMAIN row /\ row.at = at
                     /\ evaluator' = [evaluator EXCEPT ![e] = row]
      BY <3>1
    <3>. QED
      BY <3>1, <3>2, PlaceNames, Becomes DEF Inv
  <2>. QED
    BY <2>1, <2>2, <2>3, ExecutionStep DEF MayEnd
<1>6. CASE EvaluationThrows(e)
  <2>1. StatusMoves /\ TroubleMoves /\ evaluationJob' = evaluationJob
    BY <1>6, StatusStays, TroubleAdds DEF Inv, EvaluationThrows
  <2>2. Moves(e) /\ evaluator'[e].at = "caught"
    BY <1>6, PlaceNames, Proceeds DEF Inv, EvaluationThrows
  <2>. QED
    BY <2>1, <2>2, PlaceNames, ExecutionStep DEF MayEnd
<1>7. CASE WorkerDies(e)
  <2>1. StatusMoves /\ TroubleMoves /\ evaluationJob' = evaluationJob
    BY <1>7, StatusStays, TroubleAdds DEF Inv, WorkerDies
  <2>2. Moves(e) /\ evaluator'[e].at = "idle"
    BY <1>7, PlaceNames, Becomes DEF Inv, WorkerDies
  <2>. QED
    BY <2>1, <2>2, PlaceNames, ExecutionStep DEF MayEnd
<1>. QED
  BY <1>1, <1>2, <1>3, <1>4, <1>5, <1>6, <1>7

LEMMA InvInit == GoldenInit => Inv
<1>. SUFFICES ASSUME GoldenInit
              PROVE  Inv
  OBVIOUS
<1>1. TypeOK
  BY PlaceNames DEF GoldenInit, TypeOK, Job
<1>2. HolderOK /\ AliveOK
  BY DEF GoldenInit, HolderOK, AliveOK
<1>3. EndedOK
  BY PlaceNames DEF GoldenInit, EndedOK
<1>. QED
  BY <1>1, <1>2, <1>3 DEF Inv

LEMMA InvNext == Inv /\ [GoldenNext]_goldenVars => Inv'
<1>. SUFFICES ASSUME Inv, [GoldenNext]_goldenVars
              PROVE  Inv'
  OBVIOUS
<1>1. ASSUME NEW e \in Evaluators, Evaluate(e)
      PROVE  Inv'
  BY <1>1, TakeStep, SettleStep, ProcessStep DEF Evaluate
<1>2. CASE UNCHANGED goldenVars
  BY <1>2, StatusStays, TroubleStays, AsideStep DEF goldenVars, Inv
<1>. QED
  BY <1>1, <1>2, CasesStep, RequestStep, EnqueueStep, StallStep DEF GoldenNext

(* The inductive invariant: who is about to end an execution, or has ended  *)
(* the job, has seen the evaluation's end or has lost it to a failed call.  *)
THEOREM Invariance == GoldenSpec => []Inv
BY InvInit, InvNext, PTL DEF GoldenSpec

(* An evaluation is QUEUED or RUNNING only while its job waits or runs, but *)
(* for a failed call that marks it and a job that stalls too often, for any *)
(* number of workers, cases, overlaps and deliveries.                       *)
THEOREM UnfinishedIsTakenUp == GoldenSpec => []UnfinishedIsAlive
<1>1. Inv => UnfinishedIsAlive
  BY DEF Inv, TypeOK, Job, AliveOK, UnfinishedIsAlive, Terminal
<1>. QED
  BY <1>1, Invariance, PTL

-----------------------------------------------------------------------------
(* What a completed report says. *)

CaseNames == {"own"} \cup {Samples[k] : k \in DOMAIN Samples}

CaseRow == [name : CaseNames, live : BOOLEAN, edition : Nat]
TodoRow == [case : Nat, edition : Nat]
Execution == [at : Places, todo : Seq(TodoRow)]

(* The parts of the state that the report depends on.                       *)
Shapes ==
    /\ cases \in Seq(CaseRow) /\ Len(cases) <= MaxCases
    /\ {"config", "mode"} \subseteq DOMAIN evaluation
    /\ runs \in [1 .. MaxCases -> Nat]
    /\ evaluator \in [Evaluators -> Execution]
    /\ {"status", "results", "says"} \subseteq DOMAIN report
    /\ "deliveries" \in DOMAIN trouble /\ trouble.deliveries \in Nat

(* The cases that are as they were when the evaluation was asked for.       *)
Steady == {c \in DOMAIN evaluation.config :
              c \in Live /\ cases[c].edition = evaluation.config[c]}

(* Cases are not removed and editions only grow.                            *)
ConfigOK ==
    /\ DOMAIN evaluation.config \subseteq DOMAIN cases
    /\ \A c \in DOMAIN evaluation.config :
          evaluation.config[c] \in Nat /\ evaluation.config[c] <= cases[c].edition

(* Nothing happens before the evaluation is asked for.                      *)
QuietOK ==
    evaluation.status \in {Null, "STARTING"} =>
      /\ evaluationJob.state = "none"
      /\ \A e \in Evaluators : evaluator[e] = Resting
      /\ DOMAIN results = {}
      /\ report.status = Null /\ report.says = Null

(* The cases an execution has still to answer: each once, and a steady one  *)
(* in the edition asked for.                                                *)
TodoOf(e) ==
    LET todo == evaluator[e].todo
    IN /\ \A k \in DOMAIN todo :
             /\ todo[k].case \in DOMAIN cases
             /\ todo[k].case \in Steady => todo[k].edition = evaluation.config[todo[k].case]
       /\ \A j, k \in DOMAIN todo : todo[j].case = todo[k].case => j = k
       /\ evaluator[e].at \in {"answer", "score"} => todo # <<>>
       /\ evaluator[e].at = "complete" => todo = <<>>
       /\ evaluator[e].at \in {"answer", "score", "complete"} =>
             \A c \in Steady : c \in DOMAIN results \/ \E k \in DOMAIN todo : todo[k].case = c
       /\ evaluator[e].at = "score" /\ evaluation.mode = "FULL_AGENT_RUNTIME" =>
             runs[todo[1].case] >= 1

(* A steady case is scored as it is.                                        *)
ResultsOK ==
    /\ DOMAIN results \subseteq DOMAIN cases
    /\ \A c \in Steady \cap DOMAIN results : results[c] = evaluation.config[c]
    /\ evaluation.mode = "FULL_AGENT_RUNTIME" => \A c \in DOMAIN results : runs[c] >= 1

(* Whoever says COMPLETED has all steady cases scored.                      *)
CoverOK ==
    /\ "COMPLETED" \in {evaluation.status, report.says} => Steady \subseteq DOMAIN results
    /\ report.status = "COMPLETED" =>
          /\ Steady \subseteq DOMAIN report.results
          /\ DOMAIN report.results \subseteq DOMAIN results
          /\ \A c \in Steady : report.results[c] = evaluation.config[c]

(* The executions that may still create a run for a case.                   *)
MayRun(c) == {e \in Evaluators :
    \/ evaluator[e].at = "list"
    \/ /\ evaluator[e].at \in {"answer", "score"}
       /\ \E k \in DOMAIN evaluator[e].todo :
             evaluator[e].todo[k].case = c /\ (evaluator[e].at = "score" => k # 1)}

(* Each delivery creates at most one run for each case.                     *)
RunsOK ==
    \A c \in DOMAIN runs :
       IsFiniteSet(MayRun(c)) /\ runs[c] + Cardinality(MayRun(c)) <= trouble.deliveries

WholeInv == /\ Shapes /\ ConfigOK /\ QuietOK /\ \A e \in Evaluators : TodoOf(e)
            /\ ResultsOK /\ CoverOK /\ RunsOK
LEMMA EmptySequence == DOMAIN <<>> = {} /\ <<>> \in Seq(TodoRow)
<1>1. <<>> \in Seq(TodoRow) /\ Len(<<>>) = 0
  BY EmptySeq
<1>2. DOMAIN <<>> = 1 .. 0
  BY <1>1, LenProperties
<1>. QED
  BY <1>1, <1>2

LEMMA RestingTyped == Resting \in Execution /\ Resting.at = "idle" /\ Resting.todo = <<>>
BY EmptySequence DEF Resting, Execution, Places

LEMMA GoldenConstants ==
    /\ Null \notin {"STARTING", "QUEUED", "RUNNING", "COMPLETED", "FAILED"}
    /\ Null \notin Terminal
    /\ MaxCases \in Nat \ {0}
BY GoldenAssumption DEF Terminal

(* An execution under way has an evaluation under way.                      *)
LEMMA Underway ==
    ASSUME WholeInv, NEW e \in Evaluators,
           evaluator[e].at # "idle" \/ evaluationJob.state # "none"
    PROVE  evaluation.status \notin {Null, "STARTING"}
BY RestingTyped DEF WholeInv, QuietOK

(* A bounded set and a part of it, or of it and one more element.           *)
LEMMA SmallerSet ==
    ASSUME NEW S, IsFiniteSet(S), NEW T, T \subseteq S
    PROVE  /\ IsFiniteSet(T) /\ Cardinality(T) \in Nat /\ Cardinality(S) \in Nat
           /\ Cardinality(T) <= Cardinality(S)
BY FS_Subset, FS_CardinalityType

LEMMA LargerSet ==
    ASSUME NEW S, IsFiniteSet(S), NEW x, NEW T, T \subseteq S \cup {x}
    PROVE  /\ IsFiniteSet(T) /\ Cardinality(T) \in Nat /\ Cardinality(S) \in Nat
           /\ Cardinality(T) <= Cardinality(S) + 1
<1>1. /\ IsFiniteSet(S \cup {x}) /\ Cardinality(S) \in Nat
      /\ Cardinality(S \cup {x}) = IF x \in S THEN Cardinality(S) ELSE Cardinality(S) + 1
  BY FS_AddElement, FS_CardinalityType
<1>2. IsFiniteSet(T) /\ Cardinality(T) \in Nat /\ Cardinality(T) <= Cardinality(S \cup {x})
  BY <1>1, FS_Subset, FS_CardinalityType
<1>. QED
  BY <1>1, <1>2

-----------------------------------------------------------------------------
(* Steps that change the cases, and nothing else that counts.               *)
LEMMA CasesKeep ==
    ASSUME WholeInv,
           UNCHANGED <<evaluation, results, runs, evaluationJob, evaluator, report>>,
           "deliveries" \in DOMAIN trouble', trouble'.deliveries = trouble.deliveries,
           cases' \in Seq(CaseRow), Len(cases') <= MaxCases,
           DOMAIN cases \subseteq DOMAIN cases',
           \A c \in DOMAIN cases : /\ cases'[c].edition >= cases[c].edition
                                   /\ cases'[c].live => cases[c].live
    PROVE  WholeInv'
<1>0. /\ Shapes /\ ConfigOK /\ QuietOK /\ \A e \in Evaluators : TodoOf(e)
      /\ ResultsOK /\ CoverOK /\ RunsOK
  BY DEF WholeInv
<1>1. Shapes'
  BY <1>0 DEF Shapes
<1>2. /\ \A c \in DOMAIN cases : cases[c].edition \in Nat
      /\ \A c \in DOMAIN cases' : cases'[c].edition \in Nat
  <2>1. /\ \A c \in DOMAIN cases : cases[c] \in CaseRow
        /\ \A c \in DOMAIN cases' : cases'[c] \in CaseRow
    BY <1>0, LenProperties DEF Shapes
  <2>. QED
    BY <2>1 DEF CaseRow
<1>3. ConfigOK'
  BY <1>0, <1>2 DEF ConfigOK
<1>4. Steady' \subseteq Steady
  <2>. SUFFICES ASSUME NEW c \in Steady' PROVE c \in Steady
    OBVIOUS
  <2>1. /\ c \in DOMAIN evaluation.config /\ c \in DOMAIN cases
        /\ cases'[c].live /\ cases'[c].edition = evaluation.config[c]
    BY <1>0 DEF Steady, Live, ConfigOK
  <2>2. cases[c].live /\ cases[c].edition = evaluation.config[c]
    BY <1>0, <1>2, <2>1 DEF ConfigOK
  <2>. QED
    BY <2>1, <2>2 DEF Steady, Live
<1>5. QuietOK'
  BY <1>0 DEF QuietOK
<1>6. \A e \in Evaluators : TodoOf(e)'
  BY <1>0, <1>4 DEF TodoOf
<1>7. ResultsOK'
  BY <1>0, <1>4 DEF ResultsOK
<1>8. CoverOK'
  BY <1>0, <1>4 DEF CoverOK
<1>9. RunsOK'
  BY <1>0 DEF RunsOK, MayRun
<1>. QED
  BY <1>1, <1>3, <1>5, <1>6, <1>7, <1>8, <1>9 DEF WholeInv

LEMMA WholeCases ==
    ASSUME WholeInv, Cases
    PROVE  WholeInv'
<1>0. cases \in Seq(CaseRow) /\ Len(cases) <= MaxCases /\ DOMAIN cases = 1 .. Len(cases)
      /\ Len(cases) \in Nat
      /\ \A c \in DOMAIN cases : cases[c] \in CaseRow /\ cases[c].edition \in Nat
  <2>1. cases \in Seq(CaseRow) /\ Len(cases) <= MaxCases
    BY DEF WholeInv, Shapes
  <2>2. DOMAIN cases = 1 .. Len(cases) /\ Len(cases) \in Nat
        /\ \A c \in DOMAIN cases : cases[c] \in CaseRow
    BY <2>1, LenProperties
  <2>. QED
    BY <2>1, <2>2 DEF CaseRow
<1>1. /\ UNCHANGED <<evaluation, results, runs, evaluationJob, evaluator, report>>
      /\ "deliveries" \in DOMAIN trouble' /\ trouble'.deliveries = trouble.deliveries
  BY DEF WholeInv, Shapes, Cases, createCase, updateCase, deleteCase, installSampleCases,
     InstallSample, Edit
<1>2. ASSUME NEW name \in CaseNames, NewCase(name) PROVE WholeInv'
  <2>. DEFINE row == [name |-> name, live |-> TRUE, edition |-> 0]
  <2>1. row \in CaseRow
    BY DEF CaseRow
  <2>. HIDE DEF row
  <2>2. cases' = Append(cases, row) /\ Len(cases) < MaxCases
    BY <1>2 DEF NewCase, row
  <2>3. /\ cases' \in Seq(CaseRow) /\ Len(cases') = Len(cases) + 1
        /\ \A c \in 1 .. Len(cases) : cases'[c] = cases[c]
    BY <1>0, <2>1, <2>2, AppendProperties
  <2>4. DOMAIN cases' = 1 .. Len(cases) + 1 /\ Len(cases') <= MaxCases
    BY <1>0, <2>2, <2>3, LenProperties, GoldenConstants
  <2>. QED
    BY <1>0, <1>1, <2>3, <2>4, CasesKeep
<1>3. ASSUME NEW c \in Live, updateCase(c) \/ deleteCase(c) PROVE WholeInv'
  <2>1. c \in DOMAIN cases
    BY <1>3 DEF Live
  <2>2. PICK row \in CaseRow :
           /\ cases' = [cases EXCEPT ![c] = row]
           /\ row.edition >= cases[c].edition
           /\ row.live => cases[c].live
    <3>1. CASE updateCase(c)
      <4>1. [cases[c] EXCEPT !.edition = @ + 1] \in CaseRow
        BY <1>0, <2>1 DEF CaseRow
      <4>2. /\ [cases[c] EXCEPT !.edition = @ + 1].edition >= cases[c].edition
            /\ [cases[c] EXCEPT !.edition = @ + 1].live = cases[c].live
        BY <1>0, <2>1 DEF CaseRow
      <4>. QED
        BY <3>1, <4>1, <4>2 DEF updateCase
    <3>2. CASE deleteCase(c)
      <4>1. [cases[c] EXCEPT !.live = FALSE] \in CaseRow
        BY <1>0, <2>1 DEF CaseRow
      <4>2. /\ [cases[c] EXCEPT !.live = FALSE].edition >= cases[c].edition
            /\ ~[cases[c] EXCEPT !.live = FALSE].live
        BY <1>0, <2>1 DEF CaseRow
      <4>. QED
        BY <3>2, <4>1, <4>2 DEF deleteCase
    <3>. QED
      BY <1>3, <3>1, <3>2
  <2>3. /\ cases' \in Seq(CaseRow) /\ Len(cases') = Len(cases)
        /\ \A j \in 1 .. Len(cases) : cases'[j] = IF j = c THEN row ELSE cases[j]
    BY <1>0, <2>1, <2>2, ExceptSeq
  <2>4. DOMAIN cases' = DOMAIN cases
    BY <1>0, <2>3, LenProperties
  <2>5. \A j \in DOMAIN cases : /\ cases'[j].edition >= cases[j].edition
                                /\ cases'[j].live => cases[j].live
    <3>1. \A j \in DOMAIN cases : cases[j].edition >= cases[j].edition
      BY <1>0
    <3>. QED
      BY <1>0, <2>2, <2>3, <3>1
  <2>. QED
    BY <1>0, <1>1, <2>3, <2>4, <2>5, CasesKeep
<1>4. ASSUME cases' = cases PROVE WholeInv'
  BY <1>0, <1>1, <1>4, CasesKeep
<1>5. ASSUME NEW i \in Installers, InstallSample(i) PROVE WholeInv'
  <2>1. Samples[install[i].next] \in CaseNames
    BY <1>5 DEF InstallSample, CaseNames
  <2>. QED
    BY <1>2, <1>4, <1>5, <2>1 DEF InstallSample
<1>6. CASE createCase
  <2>1. NewCase("own")
    BY <1>6 DEF createCase
  <2>2. "own" \in CaseNames
    BY DEF CaseNames
  <2>. QED
    BY <1>2, <2>1, <2>2
<1>7. ASSUME NEW i \in Installers, installSampleCases(i) PROVE WholeInv'
  BY <1>4, <1>7 DEF installSampleCases
<1>. QED
  BY <1>3, <1>5, <1>6, <1>7 DEF Cases

-----------------------------------------------------------------------------
(* One execution moves; what it has answered does not change.               *)
LEMMA EvaluatorStep ==
    ASSUME WholeInv, NEW e \in Evaluators, NEW row \in Execution,
           UNCHANGED <<cases, results, runs, report>>,
           {"config", "mode"} \subseteq DOMAIN evaluation',
           evaluation'.config = evaluation.config, evaluation'.mode = evaluation.mode,
           evaluation'.status \notin {Null, "STARTING"},
           evaluation'.status = "COMPLETED"
             => evaluation.status = "COMPLETED" \/ evaluator[e].at = "complete",
           evaluator' = [evaluator EXCEPT ![e] = row],
           TodoOf(e)',
           "deliveries" \in DOMAIN trouble', trouble'.deliveries \in Nat,
           \/ trouble'.deliveries = trouble.deliveries + 1
           \/ /\ trouble'.deliveries = trouble.deliveries
              /\ \A c \in DOMAIN runs : e \in MayRun(c)' => e \in MayRun(c)
    PROVE  WholeInv'
<1>0. /\ Shapes /\ ConfigOK /\ QuietOK /\ \A f \in Evaluators : TodoOf(f)
      /\ ResultsOK /\ CoverOK /\ RunsOK
  BY DEF WholeInv
<1>1. Shapes'
  BY <1>0 DEF Shapes
<1>2. /\ ConfigOK' /\ QuietOK' /\ ResultsOK'
      /\ Steady' = Steady
  BY <1>0 DEF ConfigOK, QuietOK, ResultsOK, Steady, Live
<1>3. \A f \in Evaluators \ {e} : evaluator'[f] = evaluator[f]
  BY <1>0 DEF Shapes
<1>4. \A f \in Evaluators : TodoOf(f)'
  BY SMTT(30), <1>0, <1>2, <1>3 DEF TodoOf
<1>5. evaluator[e].at = "complete" => Steady \subseteq DOMAIN results
  BY <1>0, EmptySequence DEF TodoOf
<1>6. CoverOK'
  BY <1>0, <1>2, <1>5 DEF CoverOK
<1>7. RunsOK'
  <2>. SUFFICES ASSUME NEW c \in DOMAIN runs
                PROVE  /\ IsFiniteSet(MayRun(c)')
                       /\ runs[c] + Cardinality(MayRun(c)') <= trouble'.deliveries
    BY DEF RunsOK
  <2>0. /\ IsFiniteSet(MayRun(c)) /\ runs[c] + Cardinality(MayRun(c)) <= trouble.deliveries
        /\ runs[c] \in Nat /\ trouble.deliveries \in Nat
    BY <1>0 DEF RunsOK, Shapes
  <2>1. MayRun(c)' \subseteq MayRun(c) \cup {e}
    BY <1>3 DEF MayRun
  <2>2. CASE trouble'.deliveries = trouble.deliveries + 1
    <3>1. /\ IsFiniteSet(MayRun(c)') /\ Cardinality(MayRun(c)') \in Nat
          /\ Cardinality(MayRun(c)) \in Nat
          /\ Cardinality(MayRun(c)') <= Cardinality(MayRun(c)) + 1
      BY <2>0, <2>1, LargerSet
    <3>. QED
      BY <2>0, <2>2, <3>1
  <2>3. CASE trouble'.deliveries = trouble.deliveries /\ (e \in MayRun(c)' => e \in MayRun(c))
    <3>1. MayRun(c)' \subseteq MayRun(c)
      BY <2>1, <2>3
    <3>. QED
      BY <2>0, <2>3, <3>1, SmallerSet
  <2>. QED
    BY <2>2, <2>3
<1>. QED
  BY <1>1, <1>2, <1>4, <1>6, <1>7 DEF WholeInv

(* ... to a place from which it answers nothing, or to its list.            *)
LEMMA RestsStep ==
    ASSUME WholeInv, NEW e \in Evaluators, NEW row \in Execution,
           row.todo \in {evaluator[e].todo, <<>>},
           row.at \notin {"answer", "score", "complete"},
           UNCHANGED <<cases, results, runs, report>>,
           {"config", "mode"} \subseteq DOMAIN evaluation',
           evaluation'.config = evaluation.config, evaluation'.mode = evaluation.mode,
           evaluation'.status \notin {Null, "STARTING"},
           evaluation'.status = "COMPLETED"
             => evaluation.status = "COMPLETED" \/ evaluator[e].at = "complete",
           evaluator' = [evaluator EXCEPT ![e] = row],
           "deliveries" \in DOMAIN trouble', trouble'.deliveries \in Nat,
           \/ trouble'.deliveries = trouble.deliveries + 1
           \/ trouble'.deliveries = trouble.deliveries /\ row.at # "list"
    PROVE  WholeInv'
<1>1. evaluator'[e] = row /\ TodoOf(e)
  BY DEF WholeInv, Shapes
<1>2. Steady' = Steady
  BY DEF Steady, Live
<1>3. TodoOf(e)'
  BY <1>1, <1>2, EmptySequence DEF TodoOf
<1>4. row.at # "list" => \A c \in DOMAIN runs : e \notin MayRun(c)'
  BY <1>1 DEF MayRun
<1>. QED
  BY <1>3, <1>4, EvaluatorStep

-----------------------------------------------------------------------------
(* The steps of the requests, of the queue and of the processor.            *)

(* Every execution is as a record of its place and its list.                *)
LEMMA ExecutionShape ==
    ASSUME WholeInv, NEW e \in Evaluators
    PROVE  /\ evaluator[e] \in Execution /\ evaluator[e].todo \in Seq(TodoRow)
           /\ \A at \in Places :
                 /\ [evaluator[e] EXCEPT !.at = at] \in Execution
                 /\ [evaluator[e] EXCEPT !.at = at].at = at
                 /\ [evaluator[e] EXCEPT !.at = at].todo = evaluator[e].todo
           /\ \A at \in Places, todo \in Seq(TodoRow) :
                 [at |-> at, todo |-> todo] \in Execution
BY DEF WholeInv, Shapes, Execution

LEMMA WholeStart ==
    ASSUME WholeInv, startEvaluation
    PROVE  WholeInv'
<1>0. /\ Shapes /\ ConfigOK /\ QuietOK /\ \A e \in Evaluators : TodoOf(e)
      /\ ResultsOK /\ CoverOK /\ RunsOK
  BY DEF WholeInv
<1>1. /\ evaluationJob.state = "none" /\ \A e \in Evaluators : evaluator[e] = Resting
      /\ DOMAIN results = {} /\ report.status = Null /\ report.says = Null
      /\ UNCHANGED <<cases, results, runs, evaluationJob, evaluator, report, trouble>>
  BY <1>0 DEF startEvaluation, QuietOK, caseVars
<1>2. /\ evaluation'.status = "STARTING" /\ evaluation'.config = configVersion
      /\ {"config", "mode"} \subseteq DOMAIN evaluation'
  BY DEF startEvaluation
<1>3. Shapes' /\ QuietOK'
  BY <1>0, <1>1, <1>2 DEF Shapes, QuietOK
<1>4. \A c \in Live : c \in DOMAIN cases /\ cases[c].edition \in Nat
  <2>1. \A c \in DOMAIN cases : cases[c] \in CaseRow
    BY <1>0, LenProperties DEF Shapes
  <2>. QED
    BY <2>1 DEF Live, CaseRow
<1>5. ConfigOK'
  BY <1>1, <1>2, <1>4 DEF ConfigOK, configVersion
<1>6. \A e \in Evaluators : TodoOf(e)'
  BY <1>1, EmptySequence DEF TodoOf, Resting
<1>7. ResultsOK' /\ CoverOK' /\ RunsOK'
  BY ZenonT(40), <1>0, <1>1, <1>2, GoldenConstants DEF ResultsOK, CoverOK, RunsOK, MayRun
<1>. QED
  BY <1>3, <1>5, <1>6, <1>7 DEF WholeInv

(* Steps that touch neither the cases nor the executions nor what counts.   *)
LEMMA AsideKeep ==
    ASSUME WholeInv, UNCHANGED <<cases, results, runs, evaluator>>,
           {"config", "mode"} \subseteq DOMAIN evaluation',
           evaluation'.config = evaluation.config, evaluation'.mode = evaluation.mode,
           evaluation'.status = "COMPLETED" => evaluation.status = "COMPLETED",
           "deliveries" \in DOMAIN trouble', trouble'.deliveries = trouble.deliveries,
           QuietOK', CoverOK', {"status", "results", "says"} \subseteq DOMAIN report'
    PROVE  WholeInv'
<1>0. /\ Shapes /\ ConfigOK /\ \A e \in Evaluators : TodoOf(e)
      /\ ResultsOK /\ RunsOK
  BY DEF WholeInv
<1>1. Steady' = Steady
  BY DEF Steady, Live
<1>2. Shapes'
  BY <1>0 DEF Shapes
<1>3. ConfigOK' /\ ResultsOK'
  BY <1>0, <1>1 DEF ConfigOK, ResultsOK
<1>4. \A e \in Evaluators : TodoOf(e)'
  BY <1>0, <1>1 DEF TodoOf
<1>5. RunsOK'
  BY <1>0 DEF RunsOK, MayRun
<1>. QED
  BY <1>2, <1>3, <1>4, <1>5 DEF WholeInv

LEMMA WholeRequest ==
    ASSUME WholeInv, createEvaluationRun \/ enqueue \/ StallJob \/ findEvaluationRun
                       \/ listEvaluationResults
    PROVE  WholeInv'
<1>. USE GoldenConstants
<1>0. /\ Shapes /\ QuietOK /\ CoverOK /\ ResultsOK
  BY DEF WholeInv
<1>1. CASE createEvaluationRun
  <2>1. /\ evaluation' = [evaluation EXCEPT !.status = "QUEUED"]
        /\ UNCHANGED <<cases, results, runs, evaluationJob, evaluator, report, trouble>>
    BY <1>1 DEF createEvaluationRun, caseVars
  <2>2. /\ {"config", "mode"} \subseteq DOMAIN evaluation'
        /\ evaluation'.config = evaluation.config /\ evaluation'.mode = evaluation.mode
        /\ evaluation'.status \notin {Null, "STARTING", "COMPLETED"}
    BY <1>0, <1>1, <2>1 DEF Shapes, createEvaluationRun
  <2>3. Steady' = Steady
    BY <2>1, <2>2 DEF Steady, Live
  <2>4. QuietOK' /\ CoverOK'
    BY <1>0, <2>1, <2>2, <2>3 DEF QuietOK, CoverOK
  <2>. QED
    BY <1>0, <2>1, <2>2, <2>4, AsideKeep DEF Shapes
<1>2. CASE enqueue
  <2>1. /\ UNCHANGED <<cases, evaluation, results, runs, evaluator, report, trouble>>
        /\ evaluation.status \notin {Null, "STARTING"}
    BY <1>2 DEF enqueue, caseVars
  <2>2. Steady' = Steady
    BY <2>1 DEF Steady, Live
  <2>3. QuietOK' /\ CoverOK'
    BY <1>0, <2>1, <2>2 DEF QuietOK, CoverOK
  <2>. QED
    BY <1>0, <2>1, <2>3, AsideKeep DEF Shapes
<1>3. CASE StallJob
  <2>1. /\ UNCHANGED <<cases, evaluation, results, runs, evaluator, report>>
        /\ evaluation.status \notin {Null, "STARTING"}
    BY <1>0, <1>3 DEF StallJob, caseVars, QuietOK
  <2>2. "deliveries" \in DOMAIN trouble' /\ trouble'.deliveries = trouble.deliveries
    BY <1>0, <1>3 DEF StallJob, Trouble, Shapes
  <2>3. Steady' = Steady
    BY <2>1 DEF Steady, Live
  <2>4. QuietOK' /\ CoverOK'
    BY <1>0, <2>1, <2>3 DEF QuietOK, CoverOK
  <2>. QED
    BY <1>0, <2>1, <2>2, <2>4, AsideKeep DEF Shapes
<1>4. CASE findEvaluationRun
  <2>1. /\ UNCHANGED <<cases, evaluation, results, runs, evaluationJob, evaluator, trouble>>
        /\ evaluation.status \in Terminal
        /\ report' = [report EXCEPT !.says = evaluation.status]
    BY <1>4 DEF findEvaluationRun, caseVars
  <2>2. /\ {"status", "results", "says"} \subseteq DOMAIN report'
        /\ report'.says = evaluation.status /\ report'.status = report.status
        /\ report'.results = report.results
    BY <1>0, <2>1 DEF Shapes
  <2>3. Steady' = Steady
    BY <2>1 DEF Steady, Live
  <2>4. QuietOK'
    BY <2>1, GoldenAssumption DEF QuietOK, Terminal
  <2>5. CoverOK'
    BY <1>0, <2>1, <2>2, <2>3 DEF CoverOK
  <2>. QED
    BY <1>0, <2>1, <2>2, <2>4, <2>5, AsideKeep DEF Shapes
<1>5. CASE listEvaluationResults
  <2>1. /\ UNCHANGED <<cases, evaluation, results, runs, evaluationJob, evaluator, trouble>>
        /\ report.says # Null
        /\ report' = [status |-> report.says, results |-> results, says |-> Null]
    BY <1>5 DEF listEvaluationResults, caseVars
  <2>2. Steady' = Steady
    BY <2>1 DEF Steady, Live
  <2>3. QuietOK'
    BY <1>0, <2>1 DEF QuietOK
  <2>4. CoverOK'
    BY <1>0, <2>1, <2>2 DEF CoverOK, ResultsOK
  <2>. QED
    BY <1>0, <2>1, <2>3, <2>4, AsideKeep DEF Shapes
<1>. QED
  BY <1>1, <1>2, <1>3, <1>4, <1>5

(* An execution goes to a place from which it answers nothing.              *)
LEMMA RestsAt ==
    ASSUME WholeInv, NEW e \in Evaluators, NEW at \in Places,
           at \notin {"answer", "score", "complete"},
           ProceedTo(e, at),
           UNCHANGED <<cases, results, runs, report>>,
           evaluator[e].at # "idle" \/ evaluationJob.state # "none",
           \/ evaluation' = evaluation
           \/ evaluation' = [evaluation EXCEPT !.status = "RUNNING"],
           "deliveries" \in DOMAIN trouble', trouble'.deliveries \in Nat,
           \/ trouble'.deliveries = trouble.deliveries + 1
           \/ trouble'.deliveries = trouble.deliveries /\ at # "list"
    PROVE  WholeInv'
<1>. DEFINE row == [evaluator[e] EXCEPT !.at = at]
<1>1. row \in Execution /\ row.at = at /\ row.todo = evaluator[e].todo
  BY ExecutionShape
<1>2. evaluator' = [evaluator EXCEPT ![e] = row]
  BY DEF ProceedTo
<1>. HIDE DEF row
<1>3. evaluation.status \notin {Null, "STARTING"} /\ Shapes
  BY Underway DEF WholeInv
<1>4. /\ {"config", "mode"} \subseteq DOMAIN evaluation'
      /\ evaluation'.config = evaluation.config /\ evaluation'.mode = evaluation.mode
      /\ evaluation'.status \in {evaluation.status, "RUNNING"}
  <2>1. CASE evaluation' = evaluation
    BY <1>3, <2>1 DEF Shapes
  <2>2. CASE evaluation' = [evaluation EXCEPT !.status = "RUNNING"]
    BY <1>3, <2>2 DEF Shapes
  <2>. QED
    BY <2>1, <2>2
<1>5. /\ evaluation'.status \notin {Null, "STARTING"}
      /\ evaluation'.status = "COMPLETED" => evaluation.status = "COMPLETED"
  BY <1>3, <1>4, GoldenConstants
<1>. QED
  BY <1>1, <1>2, <1>4, <1>5, RestsStep

(* The steps of an execution between its answers.                           *)
LEMMA WholeRests ==
    ASSUME WholeInv, NEW e \in Evaluators,
           \/ Take(e) \/ markEvaluationRunning(e) \/ MarkRunningFails(e)
           \/ markEvaluationCompleted(e) \/ markEvaluationFailed(e)
           \/ EvaluationThrows(e) \/ MarkFailedFails(e)
           \/ Settle(e, "completed") \/ Settle(e, "failed") \/ WorkerDies(e)
    PROVE  WholeInv'
<1>0. /\ Shapes /\ {"mark", "list", "completed", "failed", "caught"} \subseteq Places
      /\ "deliveries" \in DOMAIN trouble /\ trouble.deliveries \in Nat
  BY DEF WholeInv, Places, Shapes
<1>1. CASE Take(e)
  <2>1. /\ ProceedTo(e, "mark") /\ evaluationJob.state # "none"
        /\ UNCHANGED <<cases, evaluation, results, runs, report, trouble>>
    BY <1>1 DEF Take, ProceedTo, caseVars
  <2>. QED
    BY <1>0, <2>1, RestsAt
<1>2. CASE markEvaluationRunning(e)
  <2>1. evaluator[e].at # "idle" /\ UNCHANGED <<cases, results, runs, report>>
    BY <1>2 DEF markEvaluationRunning, caseVars
  <2>2. CASE evaluation.status \in Terminal
    <3>1. ProceedTo(e, "completed") /\ UNCHANGED <<evaluation, trouble>>
      BY <1>2, <2>2 DEF markEvaluationRunning
    <3>. QED
      BY <1>0, <2>1, <3>1, RestsAt
  <2>3. CASE evaluation.status \notin Terminal
    <3>1. /\ evaluation' = [evaluation EXCEPT !.status = "RUNNING"]
          /\ trouble' = [trouble EXCEPT !.deliveries = @ + 1]
          /\ ProceedTo(e, "list")
      BY <1>2, <2>3 DEF markEvaluationRunning
    <3>2. /\ "deliveries" \in DOMAIN trouble' /\ trouble'.deliveries \in Nat
          /\ trouble'.deliveries = trouble.deliveries + 1
      BY <1>0, <3>1
    <3>. QED
      BY <1>0, <2>1, <3>1, <3>2, RestsAt
  <2>. QED
    BY <2>2, <2>3
<1>3. CASE MarkRunningFails(e) \/ MarkFailedFails(e) \/ EvaluationThrows(e)
  <2>1. /\ evaluator[e].at # "idle"
        /\ UNCHANGED <<cases, evaluation, results, runs, report>>
        /\ ProceedTo(e, "failed") \/ ProceedTo(e, "caught")
    BY <1>3 DEF MarkRunningFails, MarkFailedFails, EvaluationThrows, caseVars
  <2>2. "deliveries" \in DOMAIN trouble' /\ trouble'.deliveries = trouble.deliveries
    BY <1>0, <1>3 DEF MarkRunningFails, MarkFailedFails, EvaluationThrows, Trouble
  <2>. QED
    BY <1>0, <2>1, <2>2, RestsAt
<1>4. CASE markEvaluationCompleted(e) \/ markEvaluationFailed(e)
  <2>1. PICK status \in {"COMPLETED", "FAILED"}, to \in {"completed", "failed"} :
           /\ evaluator[e].at # "idle"
           /\ evaluation' = [evaluation EXCEPT !.status = status]
           /\ evaluator' = [evaluator EXCEPT ![e] = [at |-> to, todo |-> <<>>]]
           /\ status = "COMPLETED" => evaluator[e].at = "complete"
           /\ UNCHANGED <<cases, results, runs, report, trouble>>
    BY <1>4 DEF markEvaluationCompleted, markEvaluationFailed, finishEvaluation, caseVars
  <2>2. evaluation.status \notin {Null, "STARTING"}
    BY <2>1, Underway
  <2>. DEFINE row == [at |-> to, todo |-> <<>>]
  <2>3. row \in Execution /\ row.at = to /\ row.todo = <<>>
    BY <1>0, EmptySequence, ExecutionShape
  <2>4. evaluator' = [evaluator EXCEPT ![e] = row]
    BY <2>1
  <2>. HIDE DEF row
  <2>5. /\ {"config", "mode"} \subseteq DOMAIN evaluation'
        /\ evaluation'.config = evaluation.config /\ evaluation'.mode = evaluation.mode
        /\ evaluation'.status \in {evaluation.status, status}
        /\ evaluation'.status = "COMPLETED"
             => evaluation.status = "COMPLETED" \/ evaluator[e].at = "complete"
    BY <1>0, <2>1 DEF Shapes
  <2>6. evaluation'.status \notin {Null, "STARTING"}
    BY <2>1, <2>2, <2>5, GoldenConstants
  <2>. QED
    BY <1>0, <2>1, <2>3, <2>4, <2>5, <2>6, RestsStep
<1>5. CASE Settle(e, "completed") \/ Settle(e, "failed") \/ WorkerDies(e)
  <2>1. /\ UNCHANGED <<cases, evaluation, results, runs, report>>
        /\ evaluator' = [evaluator EXCEPT ![e] = Resting]
    BY <1>5 DEF Settle, WorkerDies, caseVars
  <2>2. evaluator[e] # Resting
    BY <1>5, RestingTyped DEF Settle, WorkerDies
  <2>3. evaluation.status \notin {Null, "STARTING"}
    BY <2>2 DEF WholeInv, QuietOK
  <2>4. "deliveries" \in DOMAIN trouble' /\ trouble'.deliveries = trouble.deliveries
    BY <1>0, <1>5 DEF Settle, WorkerDies, Trouble
  <2>5. {"config", "mode"} \subseteq DOMAIN evaluation'
    BY <1>0, <2>1 DEF Shapes
  <2>. QED
    BY <1>0, <2>1, <2>3, <2>4, <2>5, RestingTyped, RestsStep
<1>. QED
  BY <1>1, <1>2, <1>3, <1>4, <1>5

(* The answer of a model.                                                   *)
LEMMA WholeAnswer ==
    ASSUME WholeInv, NEW e \in Evaluators, generateCaseAnswer(e)
    PROVE  WholeInv'
<1>. DEFINE row == [evaluator[e] EXCEPT !.at = "score"]
<1>1. row \in Execution /\ row.at = "score" /\ row.todo = evaluator[e].todo
  BY ExecutionShape DEF Places
<1>2. /\ evaluator' = [evaluator EXCEPT ![e] = row]
      /\ evaluation.mode = "FAST_LLM_ONLY" /\ evaluator[e].at = "answer"
      /\ UNCHANGED <<cases, evaluation, results, runs, report, trouble>>
  BY DEF generateCaseAnswer, ProceedTo, caseVars
<1>. HIDE DEF row
<1>3. Shapes /\ TodoOf(e) /\ evaluation.status \notin {Null, "STARTING"}
  BY <1>2, Underway DEF WholeInv
<1>4. evaluator'[e] = row /\ Steady' = Steady
  BY <1>2, <1>3 DEF Shapes, Steady, Live
<1>5. TodoOf(e)'
  BY <1>1, <1>2, <1>3, <1>4 DEF TodoOf
<1>6. \A c \in DOMAIN runs : e \in MayRun(c)' => e \in MayRun(c)
  BY <1>1, <1>2, <1>4 DEF MayRun
<1>7. /\ {"config", "mode"} \subseteq DOMAIN evaluation'
      /\ "deliveries" \in DOMAIN trouble' /\ trouble'.deliveries \in Nat
  BY <1>2, <1>3 DEF Shapes
<1>. QED
  BY <1>1, <1>2, <1>3, <1>5, <1>6, <1>7, EvaluatorStep

(* A run for the first case of the list; the execution will make no other   *)
(* for it.                                                                  *)
LEMMA WholeRun ==
    ASSUME WholeInv, NEW e \in Evaluators, runFullAgentRuntime(e)
    PROVE  WholeInv'
<1>. DEFINE row == [evaluator[e] EXCEPT !.at = "score"]
            this == evaluator[e].todo[1].case
<1>0. /\ Shapes /\ ConfigOK /\ QuietOK /\ \A f \in Evaluators : TodoOf(f)
      /\ ResultsOK /\ CoverOK /\ RunsOK
  BY DEF WholeInv
<1>1. row \in Execution /\ row.at = "score" /\ row.todo = evaluator[e].todo
  BY ExecutionShape DEF Places
<1>2. /\ evaluator' = [evaluator EXCEPT ![e] = row]
      /\ evaluator[e].at = "answer"
      /\ runs' = [runs EXCEPT ![Head(evaluator[e].todo).case] = @ + 1]
      /\ UNCHANGED <<cases, evaluation, results, evaluationJob, report, trouble>>
  BY DEF runFullAgentRuntime, ProceedTo, caseVars
<1>. HIDE DEF row
<1>3. evaluation.status \notin {Null, "STARTING"}
  BY <1>2, Underway
<1>4. evaluator'[e] = row /\ Steady' = Steady
      /\ \A f \in Evaluators \ {e} : evaluator'[f] = evaluator[f]
  BY <1>0, <1>2 DEF Shapes, Steady, Live
<1>5. /\ 1 \in DOMAIN evaluator[e].todo /\ Head(evaluator[e].todo) = evaluator[e].todo[1]
      /\ this \in DOMAIN cases
  <2>1. evaluator[e].todo # <<>> /\ evaluator[e].todo \in Seq(TodoRow)
    BY <1>0, <1>2, ExecutionShape DEF TodoOf
  <2>2. Len(evaluator[e].todo) # 0 /\ Len(evaluator[e].todo) \in Nat
    BY <2>1, EmptySeq, LenProperties
  <2>3. 1 \in DOMAIN evaluator[e].todo /\ Head(evaluator[e].todo) = evaluator[e].todo[1]
    BY <2>1, <2>2, LenProperties
  <2>. QED
    BY <1>0, <2>3 DEF TodoOf
<1>6. this \in DOMAIN runs
  <2>1. DOMAIN cases = 1 .. Len(cases) /\ Len(cases) \in Nat /\ Len(cases) <= MaxCases
    BY <1>0, LenProperties DEF Shapes
  <2>. QED
    BY <1>0, <1>5, <2>1, GoldenConstants DEF Shapes
<1>7. /\ runs' = [runs EXCEPT ![this] = @ + 1]
      /\ runs' \in [1 .. MaxCases -> Nat] /\ DOMAIN runs' = DOMAIN runs
      /\ \A c \in DOMAIN runs : runs[c] \in Nat
      /\ \A c \in DOMAIN runs : runs'[c] = IF c = this THEN runs[c] + 1 ELSE runs[c]
  BY <1>0, <1>2, <1>5, <1>6 DEF Shapes
<1>. HIDE DEF this
<1>8. \A c \in DOMAIN cases : c \in DOMAIN runs /\ (runs[c] >= 1 => runs'[c] >= 1)
  <2>1. DOMAIN cases = 1 .. Len(cases) /\ Len(cases) \in Nat /\ Len(cases) <= MaxCases
    BY <1>0, LenProperties DEF Shapes
  <2>2. \A c \in DOMAIN cases : c \in DOMAIN runs
    BY <1>0, <2>1, GoldenConstants DEF Shapes
  <2>. QED
    BY <1>7, <2>2
<1>9. Shapes'
  BY <1>0, <1>1, <1>2, <1>7 DEF Shapes
<1>10. ConfigOK' /\ QuietOK' /\ CoverOK'
  BY <1>0, <1>2, <1>3, <1>4 DEF ConfigOK, QuietOK, CoverOK
<1>11. ResultsOK'
  BY <1>0, <1>2, <1>4, <1>8 DEF ResultsOK
<1>12. ASSUME NEW f \in Evaluators \ {e} PROVE TodoOf(f)'
  <2>1. evaluator'[f] = evaluator[f] /\ TodoOf(f)
    BY <1>0, <1>4
  <2>2. evaluator[f].at = "score" => 1 \in DOMAIN evaluator[f].todo
    <3>1. evaluator[f].todo \in Seq(TodoRow)
      BY ExecutionShape
    <3>2. evaluator[f].at = "score" => evaluator[f].todo # <<>>
      BY <2>1 DEF TodoOf
    <3>3. evaluator[f].todo # <<>> => Len(evaluator[f].todo) # 0 /\ Len(evaluator[f].todo) \in Nat
      BY <3>1, EmptySeq, LenProperties
    <3>. QED
      BY <3>1, <3>2, <3>3, LenProperties
  <2>. QED
    BY <1>2, <1>4, <1>8, <2>1, <2>2 DEF TodoOf
<1>13. TodoOf(e)'
  <2>1. runs'[row.todo[1].case] >= 1
    BY <1>1, <1>6, <1>7 DEF this
  <2>. QED
    BY <1>0, <1>1, <1>2, <1>4, <2>1 DEF TodoOf
<1>14. RunsOK'
  <2>. SUFFICES ASSUME NEW c \in DOMAIN runs
                PROVE  /\ IsFiniteSet(MayRun(c)')
                       /\ runs'[c] + Cardinality(MayRun(c)') <= trouble'.deliveries
    BY <1>7 DEF RunsOK
  <2>0. /\ IsFiniteSet(MayRun(c)) /\ runs[c] + Cardinality(MayRun(c)) <= trouble.deliveries
        /\ runs[c] \in Nat /\ trouble.deliveries \in Nat /\ trouble'.deliveries = trouble.deliveries
    BY <1>0, <1>2 DEF RunsOK, Shapes
  <2>1. MayRun(c)' \subseteq MayRun(c)
    BY <1>1, <1>2, <1>4 DEF MayRun
  <2>2. CASE c = this
    <3>1. e \in MayRun(c)
      BY <1>2, <1>5, <2>2 DEF MayRun, this
    <3>2. e \notin MayRun(c)'
      <4>1. \A k \in DOMAIN row.todo : row.todo[k].case = c => k = 1
        BY <1>0, <1>1, <1>5, <2>2 DEF TodoOf, this
      <4>. QED
        BY <1>1, <1>4, <4>1 DEF MayRun
    <3>3. /\ IsFiniteSet(MayRun(c) \ {e}) /\ Cardinality(MayRun(c)) \in Nat
          /\ Cardinality(MayRun(c) \ {e}) = Cardinality(MayRun(c)) - 1
      BY <2>0, <3>1, FS_RemoveElement, FS_CardinalityType
    <3>4. MayRun(c)' \subseteq MayRun(c) \ {e}
      BY <2>1, <3>2
    <3>5. /\ IsFiniteSet(MayRun(c)') /\ Cardinality(MayRun(c)') \in Nat
          /\ Cardinality(MayRun(c)') <= Cardinality(MayRun(c) \ {e})
      BY <3>3, <3>4, SmallerSet
    <3>6. runs'[c] = runs[c] + 1
      BY <1>7, <2>2
    <3>. QED
      BY <2>0, <3>3, <3>5, <3>6
  <2>3. CASE c # this
    <3>1. runs'[c] = runs[c]
      BY <1>7, <2>3
    <3>. QED
      BY <2>0, <2>1, <3>1, SmallerSet
  <2>. QED
    BY <2>2, <2>3
<1>. QED
  BY <1>9, <1>10, <1>11, <1>12, <1>13, <1>14 DEF WholeInv

(* The list holds each live case once.                                      *)
LEMMA ListIsWhole ==
    ASSUME Shapes, NEW ids \in InCreationOrder
    PROVE  /\ Cardinality(Live) \in Nat /\ DOMAIN ids = 1 .. Cardinality(Live)
           /\ \A k \in DOMAIN ids : ids[k] \in Live
           /\ \A j, k \in DOMAIN ids : ids[j] = ids[k] => j = k
           /\ \A c \in Live : \E k \in DOMAIN ids : ids[k] = c
<1>1. DOMAIN cases = 1 .. Len(cases) /\ Len(cases) \in Nat
  BY LenProperties DEF Shapes
<1>2. IsFiniteSet(Live) /\ Cardinality(Live) \in Nat /\ \A c \in Live : c \in Nat
  <2>1. IsFiniteSet(1 .. Len(cases))
    BY <1>1, FS_Interval
  <2>2. Live \subseteq 1 .. Len(cases)
    BY <1>1 DEF Live
  <2>3. IsFiniteSet(Live) /\ Cardinality(Live) \in Nat
    BY <2>1, <2>2, SmallerSet
  <2>4. \A c \in Live : c \in Nat
    BY <1>1, <2>2
  <2>. QED
    BY <2>3, <2>4
<1>3. /\ ids \in [1 .. Cardinality(Live) -> Live] /\ DOMAIN ids = 1 .. Cardinality(Live)
      /\ \A j, k \in DOMAIN ids : j < k => ids[j] < ids[k]
  BY DEF InCreationOrder
<1>4. ASSUME NEW j \in DOMAIN ids, NEW k \in DOMAIN ids, ids[j] = ids[k]
      PROVE  j = k
  <2>1. j \in Nat /\ k \in Nat /\ ids[j] \in Nat /\ ids[k] \in Nat
    BY <1>2, <1>3
  <2>2. ~(j < k) /\ ~(k < j)
    BY <1>3, <1>4, <2>1
  <2>. QED
    BY <2>1, <2>2
<1>5. ids \in Injection(1 .. Cardinality(Live), Live)
  BY <1>3, <1>4 DEF Injection, IsInjective
<1>6. Cardinality(1 .. Cardinality(Live)) = Cardinality(Live)
  <2>1. 1 \in Int /\ Cardinality(Live) \in Int
    BY <1>2
  <2>. QED
    BY <1>2, <2>1, FS_Interval
<1>7. ids \in Surjection(1 .. Cardinality(Live), Live)
  BY <1>2, <1>5, <1>6, FS_Injection
<1>. QED
  BY <1>2, <1>3, <1>4, <1>7 DEF Surjection

LEMMA WholeList ==
    ASSUME WholeInv, NEW e \in Evaluators, listCasesForEvaluation(e)
    PROVE  WholeInv'
<1>0. Shapes /\ ConfigOK
  BY DEF WholeInv
<1>1. PICK ids \in InCreationOrder :
         evaluator' = [evaluator EXCEPT
             ![e] = [at |-> IF Live = {} THEN "complete" ELSE "answer",
                     todo |-> [k \in DOMAIN ids |-> [case |-> ids[k],
                                                     edition |-> cases[ids[k]].edition]]]]
  BY DEF listCasesForEvaluation
<1>. DEFINE todo == [k \in DOMAIN ids |-> [case |-> ids[k], edition |-> cases[ids[k]].edition]]
            row == [at |-> IF Live = {} THEN "complete" ELSE "answer", todo |-> todo]
<1>2. /\ evaluator' = [evaluator EXCEPT ![e] = row]
      /\ row.todo = todo /\ row.at = IF Live = {} THEN "complete" ELSE "answer"
  BY <1>1
<1>3. /\ DOMAIN todo = DOMAIN ids
      /\ \A k \in DOMAIN ids : /\ todo[k] = [case |-> ids[k], edition |-> cases[ids[k]].edition]
                               /\ todo[k].case = ids[k]
                               /\ todo[k].edition = cases[ids[k]].edition
  OBVIOUS
<1>4. /\ Cardinality(Live) \in Nat /\ DOMAIN ids = 1 .. Cardinality(Live)
      /\ \A k \in DOMAIN ids : ids[k] \in Live
      /\ \A j, k \in DOMAIN ids : ids[j] = ids[k] => j = k
      /\ \A c \in Live : \E k \in DOMAIN ids : ids[k] = c
  BY <1>0, ListIsWhole
<1>5. \A c \in Live : c \in DOMAIN cases /\ c \in Nat /\ cases[c].edition \in Nat
  <2>1. DOMAIN cases = 1 .. Len(cases) /\ \A c \in DOMAIN cases : cases[c] \in CaseRow
    BY <1>0, LenProperties DEF Shapes
  <2>. QED
    BY <1>0, <2>1 DEF Live, CaseRow
<1>6. todo \in Seq(TodoRow)
  <2>1. \A k \in DOMAIN ids : todo[k] \in TodoRow
    BY <1>3, <1>4, <1>5 DEF TodoRow
  <2>2. todo \in [1 .. Cardinality(Live) -> TodoRow]
    BY <1>4, <2>1
  <2>. QED
    BY <1>4, <2>2, SeqDef
<1>7. Live = {} => todo = <<>>
  <2>1. Live = {} => DOMAIN todo = {}
    BY <1>3, <1>4
  <2>2. Live = {} => Len(todo) = 0
    BY <1>4, <1>6, <2>1, LenProperties
  <2>. QED
    BY <1>6, <2>2, EmptySeq, SeqEqual
<1>8. Live # {} => todo # <<>>
  BY <1>3, <1>4, EmptySequence
<1>9. row \in Execution
  BY <1>6 DEF Execution, Places
<1>. HIDE DEF row, todo
<1>10. /\ evaluator[e].at = "list"
       /\ UNCHANGED <<cases, evaluation, results, runs, report, trouble>>
  BY DEF listCasesForEvaluation, caseVars
<1>11. /\ evaluator'[e] = row /\ Steady' = Steady /\ Steady \subseteq Live
       /\ evaluation.status \notin {Null, "STARTING"}
  BY <1>0, <1>2, <1>10, Underway DEF Shapes, Steady, Live
<1>12. TodoOf(e)'
  <2>1. \A k \in DOMAIN todo :
           /\ todo[k].case \in DOMAIN cases
           /\ todo[k].case \in Steady => todo[k].edition = evaluation.config[todo[k].case]
    BY <1>3, <1>4, <1>5 DEF Steady
  <2>2. /\ \A j, k \in DOMAIN todo : todo[j].case = todo[k].case => j = k
        /\ \A c \in Live : \E k \in DOMAIN todo : todo[k].case = c
    BY <1>3, <1>4
  <2>3. row.at # "score"
    BY <1>2
  <2>. QED
    BY <1>2, <1>7, <1>8, <1>10, <1>11, <2>1, <2>2, <2>3 DEF TodoOf
<1>13. \A c \in DOMAIN runs : e \in MayRun(c)
  BY <1>10 DEF MayRun
<1>14. /\ {"config", "mode"} \subseteq DOMAIN evaluation'
       /\ "deliveries" \in DOMAIN trouble' /\ trouble'.deliveries \in Nat
  BY <1>0, <1>10 DEF Shapes
<1>. QED
  BY <1>2, <1>9, <1>10, <1>11, <1>12, <1>13, <1>14, EvaluatorStep

(* A case is scored as the execution listed it, and leaves its list.        *)
LEMMA WholeScore ==
    ASSUME WholeInv, NEW e \in Evaluators, createEvaluationResult(e)
    PROVE  WholeInv'
<1>. DEFINE todo == evaluator[e].todo
            this == todo[1]
            rest == Tail(todo)
            row == [at |-> IF rest = <<>> THEN "complete" ELSE "answer", todo |-> rest]
<1>0. /\ Shapes /\ ConfigOK /\ QuietOK /\ \A f \in Evaluators : TodoOf(f)
      /\ ResultsOK /\ CoverOK /\ RunsOK
  BY DEF WholeInv
<1>1. /\ evaluator[e].at = "score"
      /\ results' = [c \in DOMAIN results \cup {Head(todo).case} |->
                        IF c = Head(todo).case THEN Head(todo).edition ELSE results[c]]
      /\ evaluator' = [evaluator EXCEPT ![e] = row]
      /\ UNCHANGED <<cases, evaluation, runs, evaluationJob, report, trouble>>
  BY DEF createEvaluationResult, caseVars
<1>2. todo # <<>> /\ todo \in Seq(TodoRow)
  BY <1>0, <1>1, ExecutionShape DEF TodoOf
<1>3. /\ DOMAIN todo = 1 .. Len(todo) /\ Len(todo) \in Nat \ {0} /\ 1 \in DOMAIN todo
      /\ Head(todo) = this
  <2>1. Len(todo) # 0 /\ Len(todo) \in Nat /\ DOMAIN todo = 1 .. Len(todo)
    BY <1>2, EmptySeq, LenProperties
  <2>. QED
    BY <1>2, <2>1
<1>4. /\ rest \in Seq(TodoRow) /\ Len(rest) = Len(todo) - 1 /\ DOMAIN rest = 1 .. Len(rest)
      /\ \A k \in 1 .. Len(rest) : rest[k] = todo[k + 1]
  BY <1>2, HeadTailProperties, LenProperties
<1>5. /\ \A k \in DOMAIN rest : /\ k \in Nat /\ k + 1 \in DOMAIN todo /\ k + 1 # 1
                                /\ rest[k] = todo[k + 1]
      /\ \A k \in DOMAIN todo : k = 1 \/ (k \in Nat /\ k - 1 \in DOMAIN rest
                                          /\ rest[k - 1] = todo[k])
  BY <1>3, <1>4
<1>6. /\ row \in Execution /\ row.todo = rest
      /\ row.at = IF rest = <<>> THEN "complete" ELSE "answer"
  BY <1>4 DEF Execution, Places
<1>7. /\ DOMAIN results' = DOMAIN results \cup {this.case}
      /\ \A c \in DOMAIN results' : results'[c] = IF c = this.case THEN this.edition ELSE results[c]
  BY <1>1, <1>3
<1>8. /\ this.case \in DOMAIN cases
      /\ this.case \in Steady => this.edition = evaluation.config[this.case]
      /\ evaluation.mode = "FULL_AGENT_RUNTIME" => runs[this.case] >= 1
      /\ \A c \in Steady : c \in DOMAIN results \/ \E k \in DOMAIN todo : todo[k].case = c
  BY <1>0, <1>1, <1>3 DEF TodoOf
<1>. HIDE DEF row, rest
<1>9. /\ evaluator'[e] = row /\ Steady' = Steady
      /\ \A f \in Evaluators \ {e} : evaluator'[f] = evaluator[f]
      /\ evaluation.status \notin {Null, "STARTING"}
  BY <1>0, <1>1, Underway DEF Shapes, Steady, Live
<1>10. Shapes'
  BY <1>0, <1>1, <1>6 DEF Shapes
<1>11. ConfigOK' /\ QuietOK'
  BY <1>0, <1>1, <1>9 DEF ConfigOK, QuietOK
<1>12. ResultsOK'
  BY SMTT(30), <1>0, <1>1, <1>7, <1>8, <1>9 DEF ResultsOK
<1>13. CoverOK'
  BY <1>0, <1>1, <1>7, <1>9 DEF CoverOK
<1>14. ASSUME NEW f \in Evaluators \ {e} PROVE TodoOf(f)'
  BY SMTT(30), <1>0, <1>1, <1>7, <1>9 DEF TodoOf
<1>15. TodoOf(e)'
  <2>1. \A k \in DOMAIN rest :
           /\ rest[k].case \in DOMAIN cases
           /\ rest[k].case \in Steady => rest[k].edition = evaluation.config[rest[k].case]
    BY <1>0, <1>5 DEF TodoOf
  <2>2. ASSUME NEW j \in DOMAIN rest, NEW k \in DOMAIN rest, rest[j].case = rest[k].case
        PROVE  j = k
    <3>1. j + 1 = k + 1
      BY <1>0, <1>5, <2>2 DEF TodoOf
    <3>. QED
      BY <1>5, <3>1
  <2>3. \A c \in Steady : c \in DOMAIN results' \/ \E k \in DOMAIN rest : rest[k].case = c
    BY <1>5, <1>7, <1>8
  <2>4. row.at \in {"complete", "answer"} /\ row.at # "score"
        /\ (row.at = "complete" <=> rest = <<>>)
    BY <1>6
  <2>. QED
    BY <1>1, <1>6, <1>9, <2>1, <2>2, <2>3, <2>4 DEF TodoOf
<1>16. RunsOK'
  <2>. SUFFICES ASSUME NEW c \in DOMAIN runs
                PROVE  /\ IsFiniteSet(MayRun(c)')
                       /\ runs[c] + Cardinality(MayRun(c)') <= trouble.deliveries
    BY <1>1 DEF RunsOK
  <2>0. /\ IsFiniteSet(MayRun(c)) /\ runs[c] + Cardinality(MayRun(c)) <= trouble.deliveries
        /\ runs[c] \in Nat /\ trouble.deliveries \in Nat
    BY <1>0 DEF RunsOK, Shapes
  <2>1. e \in MayRun(c)' => e \in MayRun(c)
    BY <1>1, <1>5, <1>6, <1>9 DEF MayRun
  <2>2. MayRun(c)' \subseteq MayRun(c)
    BY <1>9, <2>1 DEF MayRun
  <2>. QED
    BY <2>0, <2>2, SmallerSet
<1>. QED
  BY <1>10, <1>11, <1>12, <1>13, <1>14, <1>15, <1>16 DEF WholeInv

-----------------------------------------------------------------------------
LEMMA WholeInit == GoldenInit => WholeInv
<1>. SUFFICES ASSUME GoldenInit
              PROVE  WholeInv
  OBVIOUS
<1>1. cases \in Seq(CaseRow) /\ Len(cases) <= MaxCases
  <2>1. CASE cases = <<>>
    BY <2>1, EmptySeq, GoldenConstants
  <2>2. CASE cases = <<[name |-> "own", live |-> TRUE, edition |-> 0]>>
    <3>1. [name |-> "own", live |-> TRUE, edition |-> 0] \in CaseRow
      BY DEF CaseRow, CaseNames
    <3>. HIDE DEF CaseRow
    <3>2. cases \in Seq(CaseRow) /\ Len(cases) = 1
      BY <2>2, <3>1
    <3>. QED
      BY <3>2, GoldenConstants
  <2>. QED
    BY <2>1, <2>2 DEF GoldenInit
<1>2. /\ evaluation = [status |-> Null, config |-> <<>>, mode |-> Null]
      /\ results = <<>> /\ runs = [c \in 1 .. MaxCases |-> 0]
      /\ evaluationJob = [state |-> "none", holder |-> Null, stalls |-> 0]
      /\ evaluator = [e \in Evaluators |-> Resting]
      /\ report = [status |-> Null, results |-> <<>>, says |-> Null]
      /\ trouble = [edits |-> 0, count |-> 0, deliveries |-> 0, lost |-> FALSE]
  BY DEF GoldenInit
<1>3. Shapes
  BY <1>1, <1>2, RestingTyped DEF Shapes
<1>4. DOMAIN evaluation.config = {} /\ DOMAIN results = {}
  BY <1>2, EmptySequence
<1>5. ConfigOK /\ QuietOK /\ Steady = {}
  BY <1>2, <1>4 DEF ConfigOK, QuietOK, Steady
<1>6. \A e \in Evaluators : evaluator[e].at = "idle" /\ evaluator[e].todo = <<>>
  BY <1>2, RestingTyped
<1>7. \A e \in Evaluators : TodoOf(e)
  BY <1>5, <1>6, EmptySequence DEF TodoOf
<1>8. ResultsOK /\ CoverOK
  BY <1>2, <1>4, <1>5, GoldenConstants DEF ResultsOK, CoverOK
<1>9. RunsOK
  <2>1. \A c \in DOMAIN runs : MayRun(c) = {} /\ runs[c] = 0
    BY <1>2, <1>6 DEF MayRun
  <2>2. trouble.deliveries = 0
    BY <1>2
  <2>. QED
    BY <2>1, <2>2, FS_EmptySet DEF RunsOK
<1>. QED
  BY <1>3, <1>5, <1>7, <1>8, <1>9 DEF WholeInv

LEMMA WholeNext == WholeInv /\ [GoldenNext]_goldenVars => WholeInv'
<1>. SUFFICES ASSUME WholeInv, [GoldenNext]_goldenVars
              PROVE  WholeInv'
  OBVIOUS
<1>1. ASSUME NEW e \in Evaluators, Evaluate(e)
      PROVE  WholeInv'
  BY <1>1, WholeRests, WholeList, WholeAnswer, WholeRun, WholeScore DEF Evaluate
<1>2. CASE UNCHANGED goldenVars
  <2>1. /\ UNCHANGED <<cases, evaluation, results, runs, evaluationJob, evaluator, report>>
        /\ trouble' = trouble
    BY <1>2 DEF goldenVars
  <2>2. Shapes /\ QuietOK /\ CoverOK
    BY DEF WholeInv
  <2>3. Steady' = Steady
    BY <2>1 DEF Steady, Live
  <2>4. QuietOK' /\ CoverOK'
    BY <2>1, <2>2, <2>3 DEF QuietOK, CoverOK
  <2>5. /\ {"config", "mode"} \subseteq DOMAIN evaluation'
        /\ {"status", "results", "says"} \subseteq DOMAIN report'
        /\ "deliveries" \in DOMAIN trouble'
    BY <2>1, <2>2 DEF Shapes
  <2>. QED
    BY <2>1, <2>4, <2>5, AsideKeep
<1>. QED
  BY <1>1, <1>2, WholeCases, WholeStart, WholeRequest DEF GoldenNext

(* What an execution still has to answer, what is scored and what is said   *)
(* hang together: the steady cases, those that have not changed since the   *)
(* evaluation was asked for, are at all times scored or on the list of      *)
(* every execution that will reach the end of its list.                     *)
THEOREM WholeInvariance == GoldenSpec => []WholeInv
BY WholeInit, WholeNext, PTL DEF GoldenSpec

(* A report shown as COMPLETED scores every case that has not changed since *)
(* the evaluation was asked for, in the edition asked for; and when nothing *)
(* has changed it scores nothing else, at one agent run for each case and   *)
(* delivery at most: for any number of workers, cases, edits, failed calls, *)
(* dead workers, overlapping executions and deliveries.                     *)
THEOREM ReportsAreWhole == GoldenSpec => []ReportIsWhole
<1>1. WholeInv => ReportIsWhole
  <2>. SUFFICES ASSUME WholeInv, report.status = "COMPLETED"
                PROVE  /\ \A c \in DOMAIN evaluation.config :
                             c \in Live /\ cases[c].edition = evaluation.config[c]
                               => /\ c \in DOMAIN report.results
                                  /\ report.results[c] = cases[c].edition
                       /\ configVersion = evaluation.config /\ Live = DOMAIN cases
                            => /\ DOMAIN report.results = Live
                               /\ evaluation.mode = "FULL_AGENT_RUNTIME" =>
                                     \A c \in Live : runs[c] \in 1 .. trouble.deliveries
    BY DEF ReportIsWhole
  <2>1. /\ Shapes /\ ResultsOK /\ RunsOK
        /\ Steady \subseteq DOMAIN report.results
        /\ DOMAIN report.results \subseteq DOMAIN results
        /\ \A c \in Steady : report.results[c] = evaluation.config[c]
    BY DEF WholeInv, CoverOK
  <2>2. ASSUME NEW c \in DOMAIN evaluation.config,
               c \in Live, cases[c].edition = evaluation.config[c]
        PROVE  c \in DOMAIN report.results /\ report.results[c] = cases[c].edition
    BY <2>1, <2>2 DEF Steady
  <2>3. ASSUME configVersion = evaluation.config, Live = DOMAIN cases
        PROVE  /\ DOMAIN report.results = Live
               /\ evaluation.mode = "FULL_AGENT_RUNTIME" =>
                     \A c \in Live : runs[c] \in 1 .. trouble.deliveries
    <3>1. /\ DOMAIN evaluation.config = Live
          /\ \A c \in Live : cases[c].edition = evaluation.config[c]
      BY <2>3 DEF configVersion
    <3>2. Steady = Live
      BY <3>1 DEF Steady
    <3>3. DOMAIN report.results = Live /\ DOMAIN results = Live
      BY <2>1, <2>3, <3>2 DEF ResultsOK
    <3>4. ASSUME evaluation.mode = "FULL_AGENT_RUNTIME", NEW c \in Live
          PROVE  runs[c] \in 1 .. trouble.deliveries
      <4>1. runs[c] >= 1
        BY <2>1, <3>3, <3>4 DEF ResultsOK
      <4>2. c \in DOMAIN runs /\ runs[c] \in Nat /\ trouble.deliveries \in Nat
        <5>1. DOMAIN cases = 1 .. Len(cases) /\ Len(cases) \in Nat /\ Len(cases) <= MaxCases
          BY <2>1, LenProperties DEF Shapes
        <5>2. c \in 1 .. MaxCases
          BY <2>3, <5>1, GoldenConstants
        <5>. QED
          BY <2>1, <5>2 DEF Shapes
      <4>3. runs[c] + Cardinality(MayRun(c)) <= trouble.deliveries /\ Cardinality(MayRun(c)) \in Nat
        BY <2>1, <4>2, FS_CardinalityType DEF RunsOK
      <4>. QED
        BY <4>1, <4>2, <4>3
    <3>. QED
      BY <3>3, <3>4
  <2>. QED
    BY <2>2, <2>3
<1>. QED
  BY <1>1, WholeInvariance, PTL
=============================================================================
