-------------------------- MODULE GoldenEvaluation --------------------------
(* The golden cases of a tenant and one evaluation of them: the requests    *)
(* that create, edit and delete cases and install the samples, the request  *)
(* that starts the evaluation, its job in the queue evaluate-golden-set,    *)
(* the worker that answers one case after the other, in FULL_AGENT_RUNTIME  *)
(* mode with a whole agent run for each, and the page that polls the report.*)
(* A case is its name, whether it is deleted, and its edition, which stands *)
(* for its input and its expectations.  How an answer is scored is in       *)
(* GoldenScore.                                                             *)
EXTENDS Naturals, Sequences, FiniteSets

CONSTANTS
    Evaluators,     \* executions of the job: one slot of each worker process
    Installers,     \* requests that install the samples
    Samples,        \* the names of the sample cases, in their order
    Modes,          \* FAST_LLM_ONLY and FULL_AGENT_RUNTIME
    MaxCases,       \* bound on the case rows
    MaxEdits,       \* bound on the requests that change cases
    MaxTroubles,    \* bound on failed calls, dead workers and lost locks
    MaxStalls,      \* BullMQ's maxStalledCount
    Null

ASSUME GoldenAssumption ==
    /\ Modes \subseteq {"FAST_LLM_ONLY", "FULL_AGENT_RUNTIME"}
    /\ {MaxCases, MaxEdits, MaxTroubles, MaxStalls} \subseteq Nat
    /\ MaxCases # 0
    /\ Samples \in Seq(STRING)
    /\ Null \notin Evaluators \cup {"STARTING", "QUEUED", "RUNNING", "COMPLETED", "FAILED"}

VARIABLES
    cases,          \* the rows of GoldenCase, in order of creation
    install,        \* each installer's place and the names it has read
    evaluation,     \* the row of EvaluationRun, and the cases it was started for
    results,        \* the rows of EvaluationResult: the edition each has scored
    runs,           \* how many agent runs have been created for each case
    evaluationJob,  \* BullMQ's job
    evaluator,      \* the executions
    report,         \* what the page shows, and its request under way
    trouble         \* what has gone wrong so far

caseVars == <<cases, install>>
goldenVars == <<cases, install, evaluation, results, runs, evaluationJob,
                evaluator, report, trouble>>

Terminal == {"COMPLETED", "FAILED"}

Live == {c \in DOMAIN cases : cases[c].live}

(* What configVersion tells apart: the cases and their editions.            *)
configVersion == [c \in Live |-> cases[c].edition]

Resting == [at |-> "idle", todo |-> <<>>]

GoldenInit ==
    /\ cases \in {<<>>, <<[name |-> "own", live |-> TRUE, edition |-> 0]>>}
    /\ install = [i \in Installers |-> [next |-> 0, names |-> {}]]
    /\ evaluation = [status |-> Null, config |-> <<>>, mode |-> Null]
    /\ results = <<>>
    /\ runs = [c \in 1 .. MaxCases |-> 0]
    /\ evaluationJob = [state |-> "none", holder |-> Null, stalls |-> 0]
    /\ evaluator = [e \in Evaluators |-> Resting]
    /\ report = [status |-> Null, results |-> <<>>, says |-> Null]
    /\ trouble = [edits |-> 0, count |-> 0, deliveries |-> 0, lost |-> FALSE]

Trouble(lost) ==
    /\ trouble.count < MaxTroubles
    /\ trouble' = [trouble EXCEPT !.count = @ + 1, !.lost = @ \/ lost]

-----------------------------------------------------------------------------
(* The cases: GoldenService's requests.                                     *)

Edit ==
    /\ trouble.edits < MaxEdits
    /\ trouble' = [trouble EXCEPT !.edits = @ + 1]

NewCase(name) ==
    /\ Len(cases) < MaxCases
    /\ cases' = Append(cases, [name |-> name, live |-> TRUE, edition |-> 0])

createCase ==
    /\ Edit
    /\ NewCase("own")
    /\ UNCHANGED <<install, evaluation, results, runs, evaluationJob, evaluator, report>>

updateCase(c) ==
    /\ Edit
    /\ c \in Live
    /\ cases' = [cases EXCEPT ![c].edition = @ + 1]
    /\ UNCHANGED <<install, evaluation, results, runs, evaluationJob, evaluator, report>>

deleteCase(c) ==
    /\ Edit
    /\ c \in Live
    /\ cases' = [cases EXCEPT ![c].live = FALSE]
    /\ UNCHANGED <<install, evaluation, results, runs, evaluationJob, evaluator, report>>

(* The names are read once; the missing samples are created one by one.     *)
installSampleCases(i) ==
    /\ install[i].next = 0
    /\ Edit
    /\ install' = [install EXCEPT
                      ![i] = [next |-> 1, names |-> {cases[c].name : c \in Live}]]
    /\ UNCHANGED <<cases, evaluation, results, runs, evaluationJob, evaluator, report>>

InstallSample(i) ==
    LET next == install[i].next
    IN /\ next \in DOMAIN Samples
       /\ install' = [install EXCEPT ![i].next = @ + 1]
       /\ IF Samples[next] \in install[i].names
          THEN UNCHANGED cases
          ELSE NewCase(Samples[next])
       /\ UNCHANGED <<evaluation, results, runs, evaluationJob, evaluator, report, trouble>>

-----------------------------------------------------------------------------
(* GoldenService.startEvaluation.                                           *)

(* The cases are read for the version only, before the row is created; the  *)
(* worker reads them again.                                                 *)
startEvaluation ==
    /\ evaluation.status = Null
    /\ Live # {}
    /\ \E mode \in Modes :
          evaluation' = [status |-> "STARTING", config |-> configVersion, mode |-> mode]
    /\ UNCHANGED <<caseVars, results, runs, evaluationJob, evaluator, report, trouble>>

createEvaluationRun ==
    /\ evaluation.status = "STARTING"
    /\ evaluation' = [evaluation EXCEPT !.status = "QUEUED"]
    /\ UNCHANGED <<caseVars, results, runs, evaluationJob, evaluator, report, trouble>>

(* The request may fail before this step, and the row stays QUEUED.         *)
enqueue ==
    /\ evaluation.status = "QUEUED"
    /\ evaluationJob.state = "none"
    /\ evaluationJob' = [evaluationJob EXCEPT !.state = "waiting"]
    /\ UNCHANGED <<caseVars, evaluation, results, runs, evaluator, report, trouble>>

-----------------------------------------------------------------------------
(* The queue.                                                               *)

Take(e) ==
    /\ evaluationJob.state = "waiting"
    /\ evaluator[e] = Resting
    /\ evaluationJob' = [evaluationJob EXCEPT !.state = "active", !.holder = e]
    /\ evaluator' = [evaluator EXCEPT ![e].at = "mark"]
    /\ UNCHANGED <<caseVars, evaluation, results, runs, report, trouble>>

(* attempts: 1.  An execution that has lost the lock settles nothing.       *)
Settle(e, state) ==
    /\ evaluator[e].at = state
    /\ evaluator' = [evaluator EXCEPT ![e] = Resting]
    /\ evaluationJob' = IF evaluationJob.holder = e
                        THEN [evaluationJob EXCEPT !.state = state, !.holder = Null]
                        ELSE evaluationJob
    /\ UNCHANGED <<caseVars, evaluation, results, runs, report, trouble>>

WorkerDies(e) ==
    /\ evaluator[e] # Resting
    /\ Trouble(FALSE)
    /\ evaluator' = [evaluator EXCEPT ![e] = Resting]
    /\ UNCHANGED <<caseVars, evaluation, results, runs, evaluationJob, report>>

(* A job whose lock has run out waits again, and fails when it has stalled  *)
(* more often than allowed, with nobody to mark its evaluation FAILED.      *)
StallJob ==
    /\ evaluationJob.state = "active"
    /\ LET died == evaluator[evaluationJob.holder] = Resting
           spent == evaluationJob.stalls = MaxStalls
       IN /\ IF died
             THEN trouble' = [trouble EXCEPT !.lost = @ \/ spent]
             ELSE Trouble(spent)
          /\ evaluationJob' =
                [state |-> IF spent THEN "failed" ELSE "waiting", holder |-> Null,
                 stalls |-> evaluationJob.stalls + 1]
    /\ UNCHANGED <<caseVars, evaluation, results, runs, evaluator, report>>

-----------------------------------------------------------------------------
(* GoldenEvaluationProcessor.process.                                       *)

ProceedTo(e, at) == evaluator' = [evaluator EXCEPT ![e].at = at]

markEvaluationRunning_OnlyQueued(e) ==
    /\ evaluator[e].at = "mark"
    /\ IF evaluation.status # "QUEUED"
       THEN /\ ProceedTo(e, "completed")
            /\ UNCHANGED <<evaluation, trouble>>
       ELSE /\ evaluation' = [evaluation EXCEPT !.status = "RUNNING"]
            /\ trouble' = [trouble EXCEPT !.deliveries = @ + 1]
            /\ ProceedTo(e, "list")
    /\ UNCHANGED <<caseVars, results, runs, evaluationJob, report>>

(* A terminal evaluation ends the job without a second thought.             *)
markEvaluationRunning(e) ==
    /\ evaluator[e].at = "mark"
    /\ IF evaluation.status \in Terminal
       THEN /\ ProceedTo(e, "completed")
            /\ UNCHANGED <<evaluation, trouble>>
       ELSE /\ evaluation' = [evaluation EXCEPT !.status = "RUNNING"]
            /\ trouble' = [trouble EXCEPT !.deliveries = @ + 1]
            /\ ProceedTo(e, "list")
    /\ UNCHANGED <<caseVars, results, runs, evaluationJob, report>>

(* The call is outside of the try block: the row keeps its status.          *)
MarkRunningFails(e) ==
    /\ evaluator[e].at = "mark"
    /\ Trouble(TRUE)
    /\ ProceedTo(e, "failed")
    /\ UNCHANGED <<caseVars, evaluation, results, runs, evaluationJob, report>>

(* The live cases in order of creation: there is one such list.             *)
InCreationOrder ==
    {ids \in [1 .. Cardinality(Live) -> Live] :
        \A j, k \in DOMAIN ids : j < k => ids[j] < ids[k]}

(* Each case is answered as it is now.                                      *)
listCasesForEvaluation(e) ==
    /\ evaluator[e].at = "list"
    /\ \E ids \in InCreationOrder :
          evaluator' = [evaluator EXCEPT
             ![e] = [at |-> IF Live = {} THEN "complete" ELSE "answer",
                     todo |-> [k \in DOMAIN ids |-> [case |-> ids[k],
                                                     edition |-> cases[ids[k]].edition]]]]
    /\ UNCHANGED <<caseVars, evaluation, results, runs, evaluationJob, report, trouble>>

(* A model's answer, or an agent run's: the run is created here, without a  *)
(* job, and executed at once; how it ends does not matter.                  *)
generateCaseAnswer(e) ==
    /\ evaluation.mode = "FAST_LLM_ONLY"
    /\ evaluator[e].at = "answer"
    /\ ProceedTo(e, "score")
    /\ UNCHANGED <<caseVars, evaluation, results, runs, evaluationJob, report, trouble>>

runFullAgentRuntime(e) ==
    /\ evaluation.mode = "FULL_AGENT_RUNTIME"
    /\ evaluator[e].at = "answer"
    /\ runs' = [runs EXCEPT ![Head(evaluator[e].todo).case] = @ + 1]
    /\ ProceedTo(e, "score")
    /\ UNCHANGED <<caseVars, evaluation, results, evaluationJob, report, trouble>>

createEvaluationResult(e) ==
    LET this == Head(evaluator[e].todo)
        rest == Tail(evaluator[e].todo)
    IN /\ evaluator[e].at = "score"
       /\ results' = [c \in DOMAIN results \cup {this.case} |->
                         IF c = this.case THEN this.edition ELSE results[c]]
       /\ evaluator' = [evaluator EXCEPT
                           ![e] = [at |-> IF rest = <<>> THEN "complete" ELSE "answer",
                                   todo |-> rest]]
       /\ UNCHANGED <<caseVars, evaluation, runs, evaluationJob, report, trouble>>

(* finishEvaluation writes whatever the row holds.                          *)
finishEvaluation(e, from, status, to) ==
    /\ evaluator[e].at = from
    /\ evaluation' = [evaluation EXCEPT !.status = status]
    /\ evaluator' = [evaluator EXCEPT ![e] = [at |-> to, todo |-> <<>>]]
    /\ UNCHANGED <<caseVars, results, runs, evaluationJob, report, trouble>>

markEvaluationCompleted(e) == finishEvaluation(e, "complete", "COMPLETED", "completed")
markEvaluationFailed(e) == finishEvaluation(e, "caught", "FAILED", "failed")

EvaluationThrows_Skips(e) ==
    /\ evaluator[e].at = "score"
    /\ Trouble(FALSE)
    /\ evaluator' = [evaluator EXCEPT
                        ![e] = [at |-> IF Len(evaluator[e].todo) = 1 THEN "complete"
                                       ELSE "answer",
                                todo |-> Tail(evaluator[e].todo)]]
    /\ UNCHANGED <<caseVars, evaluation, results, runs, evaluationJob, report>>

(* Any call of the try block throws: the catch block is next.               *)
EvaluationThrows(e) ==
    /\ evaluator[e].at \in {"list", "answer", "score", "complete"}
    /\ Trouble(FALSE)
    /\ ProceedTo(e, "caught")
    /\ UNCHANGED <<caseVars, evaluation, results, runs, evaluationJob, report>>

(* The catch block throws itself: the row stays RUNNING.                    *)
MarkFailedFails(e) ==
    /\ evaluator[e].at = "caught"
    /\ Trouble(TRUE)
    /\ ProceedTo(e, "failed")
    /\ UNCHANGED <<caseVars, evaluation, results, runs, evaluationJob, report>>

-----------------------------------------------------------------------------
(* The page: GoldenService.getEvaluationReport, asked again every two       *)
(* seconds until the status is terminal.  The answers before that are shown *)
(* and replaced; only the one that ends the polling is kept here.           *)

findEvaluationRun ==
    /\ evaluation.status \in Terminal
    /\ report = [status |-> Null, results |-> <<>>, says |-> Null]
    /\ report' = [report EXCEPT !.says = evaluation.status]
    /\ UNCHANGED <<caseVars, evaluation, results, runs, evaluationJob, evaluator, trouble>>

listEvaluationResults ==
    /\ report.says # Null
    /\ report' = [status |-> report.says, results |-> results, says |-> Null]
    /\ UNCHANGED <<caseVars, evaluation, results, runs, evaluationJob, evaluator, trouble>>

-----------------------------------------------------------------------------
Cases ==
    \/ createCase
    \/ \E c \in Live : updateCase(c) \/ deleteCase(c)
    \/ \E i \in Installers : installSampleCases(i) \/ InstallSample(i)

Evaluate(e) ==
    \/ Take(e) \/ markEvaluationRunning(e) \/ MarkRunningFails(e)
    \/ listCasesForEvaluation(e) \/ generateCaseAnswer(e) \/ runFullAgentRuntime(e)
    \/ createEvaluationResult(e) \/ markEvaluationCompleted(e)
    \/ markEvaluationFailed(e) \/ EvaluationThrows(e) \/ MarkFailedFails(e)
    \/ Settle(e, "completed") \/ Settle(e, "failed") \/ WorkerDies(e)

GoldenNext ==
    \/ Cases
    \/ startEvaluation \/ createEvaluationRun \/ enqueue
    \/ StallJob
    \/ \E e \in Evaluators : Evaluate(e)
    \/ findEvaluationRun \/ listEvaluationResults

GoldenSpec == GoldenInit /\ [][GoldenNext]_goldenVars

-----------------------------------------------------------------------------
(* The properties.                                                          *)

GoldenTypeOK ==
    /\ cases \in Seq([name : STRING, live : BOOLEAN, edition : Nat])
    /\ evaluation.status \in {Null, "STARTING", "QUEUED", "RUNNING"} \cup Terminal
    /\ evaluationJob \in [state : {"none", "waiting", "active", "completed", "failed"},
                          holder : Evaluators \cup {Null}, stalls : Nat]
    /\ \A e \in Evaluators :
          evaluator[e].at \in {"idle", "mark", "list", "answer", "score", "complete",
                              "caught", "completed", "failed"}

(* A report shown as COMPLETED scores every case that has not changed since *)
(* the evaluation was asked for, in the edition that was asked for, through *)
(* faults, deaths, overlaps and second deliveries; and when nothing has     *)
(* changed it scores nothing else, and in FULL_AGENT_RUNTIME mode each case *)
(* has cost one agent run for each delivery at most.                        *)
ReportIsWhole ==
    report.status = "COMPLETED" =>
      /\ \A c \in DOMAIN evaluation.config :
            c \in Live /\ cases[c].edition = evaluation.config[c]
              => c \in DOMAIN report.results /\ report.results[c] = cases[c].edition
      /\ configVersion = evaluation.config /\ Live = DOMAIN cases
            => /\ DOMAIN report.results = Live
               /\ evaluation.mode = "FULL_AGENT_RUNTIME" =>
                     \A c \in Live : runs[c] \in 1 .. trouble.deliveries

(* An evaluation whose job was added is under way only while the job waits  *)
(* or runs: no return, throw, death or overlap leaves it QUEUED or RUNNING  *)
(* for ever - but for a failed call that marks it, and a job that stalls    *)
(* more often than the queue allows.                                        *)
UnfinishedIsAlive ==
    evaluation.status \in {"QUEUED", "RUNNING"} /\ ~trouble.lost
      => evaluationJob.state \in {"none", "waiting", "active"}
=============================================================================
