--------------------------- MODULE AgentRunProofs ---------------------------
(***************************************************************************)
(* What holds of AgentRun for every set of workers, every set of           *)
(* configurations, every token use and every bound on the environment.     *)
(***************************************************************************)
EXTENDS AgentRun, FiniteSetTheorems, TLAPS

-----------------------------------------------------------------------------
(* The row numbers of a plan. *)

(* Every node's row is one of the seven.                                   *)
LEMMA SequenceRange ==
    ASSUME NEW c \in Config, NEW n \in Nodes
    PROVE  Sequence(c, n) \in Sequences
<1>. n \in {1, 2, 3, 4, 5, 6, 7}
  BY DEF Nodes
<1>. QED
  BY DEF Sequence, Sequences, draftReviewSequence, llmSequence, usageSequence,
         githubSequence, Retrieve, News, Gmail, Github, Usage, Generate, DraftReview

(* The nodes of a plan use different rows, numbered in graph order.        *)
LEMMA SequenceOrder ==
    ASSUME NEW c \in Config, NEW m \in Nodes, NEW n \in Nodes,
           InPlan(c, m), InPlan(c, n), m < n
    PROVE  Sequence(c, m) < Sequence(c, n)
<1>. m \in {1, 2, 3, 4, 5, 6, 7} /\ n \in {1, 2, 3, 4, 5, 6, 7}
  BY DEF Nodes
<1>. QED
  BY DEF Sequence, InPlan, isGmailTemplate, hasUsageStep,
         draftReviewSequence, llmSequence, usageSequence,
         githubSequence, Retrieve, News, Gmail, Github, Usage, Generate, DraftReview

-----------------------------------------------------------------------------
(* Typing. *)

(* The places of an execution that works on one step. *)
Stepping == {"find", "create", "reset", "execute", "review", "persist", "fail"}

(* An execution works only on steps of its run's plan.                     *)
PlaceOK ==
    \A w \in Workers :
       /\ exec[w].pc \in Stepping => exec[w].at \in Nodes /\ InPlan(config, exec[w].at)
       /\ exec[w].pc \in {"graph", "load"} => exec[w].at = 1

Typed == TypeOK /\ PlaceOK

(* The constant sets have the members the actions use.                     *)
LEMMA Members ==
    /\ \A p \in Stepping : p \in PCs
    /\ {"idle", "graph", "load", "node", "handle", "ack", "nack"} \subseteq PCs
    /\ {"none", "cancelled", "budget", "timeout", "failed"} \subseteq Errors
BY DEF PCs, Errors, Stepping

LEMMA IdleTyped == Idle \in Execution /\ Started \in Execution
<1>1. Idle \in Execution
  BY DEF Execution, Idle, PCs, Errors
<1>. QED
  BY <1>1, Members DEF Started, Execution

(* How the three ways of moving on change an execution. *)
LEMMA GoToMoves ==
    ASSUME exec \in [Workers -> Execution], NEW w \in Workers, NEW p \in PCs, GoTo(w, p)
    PROVE  /\ exec' \in [Workers -> Execution]
           /\ exec'[w].pc = p /\ exec'[w].at = exec[w].at
           /\ \A v \in Workers \ {w} : exec'[v] = exec[v]
<1>1. exec'[w] = [exec[w] EXCEPT !.pc = p] /\ exec[w] \in Execution
  BY DEF GoTo
<1>2. exec'[w] \in Execution
  BY <1>1 DEF Execution
<1>3. exec'[w].pc = p /\ exec'[w].at = exec[w].at
  BY <1>1 DEF Execution
<1>. QED
  BY <1>2, <1>3 DEF GoTo

LEMMA RaiseMoves ==
    ASSUME exec \in [Workers -> Execution], NEW w \in Workers, NEW p \in PCs,
           NEW e \in Errors, Raise(w, e, p)
    PROVE  /\ exec' \in [Workers -> Execution]
           /\ exec'[w].pc = p /\ exec'[w].at = exec[w].at
           /\ \A v \in Workers \ {w} : exec'[v] = exec[v]
<1>1. exec'[w] = [exec[w] EXCEPT !.error = e, !.pc = p] /\ exec[w] \in Execution
  BY DEF Raise
<1>2. exec'[w] \in Execution
  BY <1>1 DEF Execution
<1>3. exec'[w].pc = p /\ exec'[w].at = exec[w].at
  BY <1>1 DEF Execution
<1>. QED
  BY <1>2, <1>3 DEF Raise

LEMMA AdvanceMoves ==
    ASSUME exec \in [Workers -> Execution], NEW w \in Workers, exec[w].at \in Nodes,
           Advance(w)
    PROVE  /\ exec' \in [Workers -> Execution]
           /\ exec'[w].pc = "node" /\ exec'[w].at = exec[w].at + 1
           /\ \A v \in Workers \ {w} : exec'[v] = exec[v]
<1>1. /\ exec'[w] = [exec[w] EXCEPT !.at = exec[w].at + 1, !.pc = "node"]
      /\ exec[w] \in Execution
  BY DEF Advance
<1>2. exec[w].at + 1 \in 1..8 /\ "node" \in PCs
  BY Members DEF Nodes
<1>3. exec'[w] \in Execution
  BY <1>1, <1>2 DEF Execution
<1>4. exec'[w].pc = "node" /\ exec'[w].at = exec[w].at + 1
  BY <1>1 DEF Execution
<1>. QED
  BY <1>3, <1>4 DEF Advance

(* The steps that write the history of a request to cancel write nothing   *)
(* else of the effects.                                                    *)
SameEffects ==
    /\ fx'.messages = fx.messages /\ fx'.spent = fx.spent
    /\ fx'.drafts = fx.drafts /\ fx'.reviews = fx.reviews
    /\ fx'.lateStarts = fx.lateStarts

LEMMA CancelNoted ==
    ASSUME fx \in Effects,
           Cancel \/ (\E w \in Workers : CompleteRun(w) \/ HandleError(w))
    PROVE  fx' \in Effects /\ SameEffects
<1>1. CASE Cancel
  <2>1. fx' = [fx EXCEPT !.cancel = "standing"]
    BY <1>1 DEF Cancel
  <2>. QED
    BY <2>1 DEF Effects, SameEffects
<1>2. ASSUME NEW w \in Workers, CompleteRun(w) \/ HandleError(w)
      PROVE  fx' \in Effects /\ SameEffects
  <2>1. \/ fx' = [fx EXCEPT !.cancel = fx.cancel]
        \/ fx' = [fx EXCEPT !.cancel = "overwritten"]
    BY <1>2 DEF CompleteRun, HandleError, Finish
  <2>. QED
    BY <2>1 DEF Effects, SameEffects
<1>. QED
  BY <1>1, <1>2

(* A step of the queue keeps the job typed.                                *)
LEMMA JobUpdates ==
    ASSUME job \in Job
    PROVE  /\ Requeue => job' \in Job
           /\ \A w \in Workers :
                 job' = [job EXCEPT !.state = "active", !.holder = w] => job' \in Job
           /\ job' = [job EXCEPT !.state = "completed", !.holder = NoWorker] => job' \in Job
           /\ job' = [job EXCEPT !.holder = NoWorker] => job' \in Job
           /\ job' = [job EXCEPT !.state = "waiting"] => job' \in Job
           /\ \A w \in Workers : JobFailed(w) => job' \in Job
<1>. {"none", "waiting", "active", "completed", "failed"} \subseteq JobStates
  BY DEF JobStates
<1>1. ASSUME Requeue PROVE job' \in Job
  <2>1. job' = [state |-> IF job.stalls < MaxStalls THEN "waiting" ELSE "failed",
                attemptsMade |-> job.attemptsMade, stalls |-> job.stalls + 1,
                holder |-> NoWorker]
    BY <1>1 DEF Job, Requeue
  <2>. QED
    BY <2>1 DEF Job
<1>2. ASSUME NEW w \in Workers, job' = [job EXCEPT !.state = "active", !.holder = w]
      PROVE  job' \in Job
  BY <1>2 DEF Job
<1>3. job' = [job EXCEPT !.state = "completed", !.holder = NoWorker] => job' \in Job
  BY DEF Job
<1>4. job' = [job EXCEPT !.holder = NoWorker] => job' \in Job
  BY DEF Job
<1>5. job' = [job EXCEPT !.state = "waiting"] => job' \in Job
  BY DEF Job
<1>6. ASSUME NEW w \in Workers, JobFailed(w) PROVE job' \in Job
  <2>1. CASE job.holder # w
    BY <1>6, <2>1 DEF JobFailed
  <2>2. CASE job.holder = w
    <3>1. job' = [state |-> IF job.attemptsMade + 1 < MaxAttempts
                            THEN "waiting" ELSE "failed",
                  attemptsMade |-> job.attemptsMade + 1, stalls |-> job.stalls,
                  holder |-> NoWorker]
      BY <1>6, <2>2 DEF Job, JobFailed
    <3>. QED
      BY <3>1 DEF Job
  <2>. QED
    BY <2>1, <2>2
<1>. QED
  BY <1>1, <1>2, <1>3, <1>4, <1>5, <1>6

-----------------------------------------------------------------------------
(* The type invariant. *)

LEMMA TypedInit == Init => Typed
<1>. SUFFICES ASSUME Init PROVE Typed
  OBVIOUS
<1>1. TypeOK
  BY BoundsAssumption, IdleTyped
  DEF Init, TypeOK, Job, JobStates, Effects, Environment
<1>2. PlaceOK
  BY DEF Init, PlaceOK, Idle, Stepping
<1>. QED
  BY <1>1, <1>2 DEF Typed

LEMMA TypedStep == Typed /\ [Next]_vars => Typed'
<1>. SUFFICES ASSUME Typed, [Next]_vars PROVE Typed'
  OBVIOUS
<1>. USE BoundsAssumption, ConfigsAssumption, TokensAssumption, WorkersAssumption,
         Members
<1>. USE DEF Typed, TypeOK, PlaceOK, Environment, Stepping, Nodes, Node, envVars
<1>. "idle" \notin Stepping
  OBVIOUS
<1>0. \A st \in {"RUNNING", "COMPLETED", "SKIPPED", "FAILED"} :
         st \in (RunStepStatus \ {"PENDING"}) \cup {"NONE"}
  BY DEF RunStepStatus
<1>1. CASE UNCHANGED vars
  BY <1>1 DEF vars
<1>2. CASE CreateRun
  BY <1>2 DEF CreateRun, AgentRunStatus
<1>3. CASE Enqueue
  <2>1. job' \in Job
    BY <1>3, JobUpdates DEF Enqueue
  <2>. QED
    BY <1>3, <2>1 DEF Enqueue
<1>4. CASE EnqueueFails
  BY <1>4 DEF EnqueueFails
<1>5. CASE Cancel
  BY <1>5, CancelNoted DEF Cancel, AgentRunStatus
<1>6. CASE Stall
  BY <1>6, JobUpdates DEF Stall
<1>7. CASE LockLost
  <2>1. job' \in Job
    BY <1>7, JobUpdates DEF LockLost
  <2>2. env' \in Environment
    BY <1>7 DEF LockLost
  <2>. QED
    BY <1>7, <2>1, <2>2 DEF LockLost
<1>8. ASSUME NEW w \in Workers, Pick(w) PROVE Typed'
  <2>1. job' \in Job
    BY <1>8, JobUpdates DEF Pick
  <2>2. exec' \in [Workers -> Execution]
    BY <1>8, IdleTyped DEF Pick
  <2>3. exec'[w].pc = "graph" /\ exec'[w].at = 1
    BY <1>8 DEF Pick, Started, Idle
  <2>. QED
    BY <1>8, <2>1, <2>2, <2>3 DEF Pick
<1>9. ASSUME NEW w \in Workers, Crash(w) PROVE Typed'
  <2>1. job' \in Job
    BY <1>9, JobUpdates DEF Crash
  <2>2. exec' \in [Workers -> Execution]
    BY <1>9, IdleTyped DEF Crash
  <2>3. exec'[w].pc = "idle"
    BY <1>9 DEF Crash, Idle
  <2>. QED
    BY <1>9, <2>1, <2>2, <2>3 DEF Crash
<1>10. ASSUME NEW w \in Workers, DatabaseFault(w) PROVE Typed'
  <2>1. env' \in Environment
    BY <1>10 DEF DatabaseFault
  <2>. QED
    BY <1>10, <2>1, GoToMoves, RaiseMoves DEF DatabaseFault
<1>11. ASSUME NEW w \in Workers, Work(w) PROVE Typed'
  <2>1. CASE BuildGraph(w)
    BY <2>1, GoToMoves DEF BuildGraph
  <2>2. CASE LoadRun(w)
    BY <2>2, GoToMoves DEF LoadRun, AgentRunStatus
  <2>3. CASE PassNode(w)
    BY <2>3, AdvanceMoves DEF PassNode
  <2>4. CASE CheckStep(w)
    BY <2>4, GoToMoves, RaiseMoves DEF CheckStep
  <2>5. CASE FindStep(w)
    BY <2>5, GoToMoves, AdvanceMoves DEF FindStep
  <2>6. CASE StartStep(w)
    <3>1. steps' \in [Sequences -> (RunStepStatus \ {"PENDING"}) \cup {"NONE"}]
      BY <2>6, <1>0 DEF StartStep, WriteStep
    <3>2. fx' \in Effects
      BY <2>6 DEF StartStep, CountLateStart, Effects
    <3>. QED
      BY <2>6, <3>1, <3>2, GoToMoves, RaiseMoves DEF StartStep
  <2>7. CASE ExecuteSkip(w)
    BY <2>7, GoToMoves DEF ExecuteSkip
  <2>8. CASE ExecuteTools(w)
    <3>1. CallsLeft(w) \in Nat \ {0}
      BY <2>8 DEF ExecuteTools, CallsLeft, Config, Execution
    <3>2. exec' \in [Workers -> Execution]
      BY <2>8, <3>1 DEF ExecuteTools, CallCounts, Config, Execution
    <3>3. exec'[w].pc = "persist" /\ exec'[w].at = exec[w].at
      BY <2>8 DEF ExecuteTools, Execution
    <3>. QED
      BY ZenonT(40), <2>8, <3>2, <3>3 DEF ExecuteTools
  <2>9. CASE ExecuteModel(w)
    <3>1. exec' \in [Workers -> Execution]
      BY <2>9 DEF ExecuteModel, Execution
    <3>2. exec'[w].pc = "persist" /\ exec'[w].at = exec[w].at
      BY <2>9 DEF ExecuteModel, Execution
    <3>. QED
      BY <2>9, <3>1, <3>2 DEF ExecuteModel
  <2>10. CASE ExecuteDraft(w)
    <3>1. fx' \in Effects
      BY <2>10 DEF ExecuteDraft, Effects
    <3>2. CASE Raise(w, "timeout", "fail")
      BY <2>10, <3>1, <3>2, RaiseMoves DEF ExecuteDraft
    <3>3. CASE exec' = [exec EXCEPT ![w].toolCalls = @ + 1, ![w].pc = "review"]
      <4>1. /\ exec'[w] = [exec[w] EXCEPT !.toolCalls = exec[w].toolCalls + 1,
                                          !.pc = "review"]
            /\ exec[w] \in Execution
        BY <3>3
      <4>2. exec[w].toolCalls + 1 \in Nat /\ "review" \in PCs
        BY DEF Execution
      <4>3. exec'[w] \in Execution
        BY <4>1, <4>2 DEF Execution
      <4>4. exec' \in [Workers -> Execution]
        BY <3>3, <4>3
      <4>5. exec'[w].pc = "review" /\ exec'[w].at = exec[w].at
        BY <3>3 DEF Execution
      <4>. QED
        BY <2>10, <3>1, <3>3, <4>4, <4>5 DEF ExecuteDraft
    <3>. QED
      BY <2>10, <3>2, <3>3 DEF ExecuteDraft
  <2>11. CASE SaveReview(w)
    <3>1. fx' \in Effects
      BY <2>11 DEF SaveReview, Effects
    <3>. QED
      BY <2>11, <3>1, GoToMoves DEF SaveReview
  <2>12. CASE ExecuteFails(w)
    BY <2>12, RaiseMoves DEF ExecuteFails
  <2>13. CASE PersistStep(w)
    <3>1. steps' \in [Sequences -> (RunStepStatus \ {"PENDING"}) \cup {"NONE"}]
      BY <2>13, <1>0 DEF PersistStep, WriteStep
    <3>2. fx' \in Effects
      <4>1. /\ fx.messages + 1 \in Nat /\ fx.spent + exec[w].tokens \in Nat
            /\ fx \in Effects
        BY DEF Effects, Execution
      <4>2. [fx EXCEPT !.messages = @ + 1, !.spent = @ + exec[w].tokens] \in Effects
        BY <4>1 DEF Effects
      <4>. QED
        BY <2>13, <4>1, <4>2 DEF PersistStep
    <3>. QED
      BY <2>13, <3>1, <3>2, AdvanceMoves, RaiseMoves DEF PersistStep
  <2>14. CASE FailStep(w)
    <3>1. steps' \in [Sequences -> (RunStepStatus \ {"PENDING"}) \cup {"NONE"}]
      BY <2>14, <1>0 DEF FailStep, WriteStep
    <3>. QED
      BY <2>14, <3>1, GoToMoves DEF FailStep
  <2>15. CASE CompleteRun(w)
    BY <2>15, GoToMoves, CancelNoted DEF CompleteRun, Finish, AgentRunStatus
  <2>16. CASE HandleError(w)
    <3>1. fx' \in Effects
      BY <2>16, CancelNoted
    <3>2. status' \in AgentRunStatus
      BY <2>16 DEF HandleError, Finish, FinalStatus, AgentRunStatus
    <3>. QED
      BY <2>16, <3>1, <3>2, GoToMoves DEF HandleError
  <2>17. CASE JobDone(w)
    <3>1. job' \in Job
      BY <2>17, JobUpdates DEF JobDone
    <3>2. exec' \in [Workers -> Execution] /\ exec'[w].pc = "idle"
      BY <2>17, IdleTyped DEF JobDone, Idle
    <3>. QED
      BY <2>17, <3>1, <3>2 DEF JobDone
  <2>18. CASE JobFailed(w)
    <3>1. job' \in Job
      BY <2>18, JobUpdates
    <3>2. exec' \in [Workers -> Execution] /\ exec'[w].pc = "idle"
      BY <2>18, IdleTyped DEF JobFailed, Idle
    <3>. QED
      BY <2>18, <3>1, <3>2 DEF JobFailed
  <2>. QED
    BY <1>11, <2>1, <2>2, <2>3, <2>4, <2>5, <2>6, <2>7, <2>8, <2>9, <2>10, <2>11,
       <2>12, <2>13, <2>14, <2>15, <2>16, <2>17, <2>18 DEF Work
<1>. QED
  BY <1>1, <1>2, <1>3, <1>4, <1>5, <1>6, <1>7, <1>8, <1>9, <1>10, <1>11 DEF Next

(* Every variable keeps its type, and an execution works only on steps of  *)
(* its run's plan.                                                         *)
THEOREM Typing == Spec => []Typed
<1>. QED
  BY TypedInit, TypedStep, PTL DEF Spec

(* The type invariant alone, as the runs check it.                         *)
THEOREM TypeCorrect == Spec => []TypeOK
<1>1. Typed => TypeOK
  BY DEF Typed
<1>. QED
  BY <1>1, Typing, PTL

-----------------------------------------------------------------------------
(* The request, the queue's lock, and what is final. *)

(* The row exists once the request has inserted it; the job exists, and    *)
(* may be worked on, once the request has enqueued it.                     *)
RequestOK ==
    /\ api = "create" <=> status = "NONE"
    /\ api # "started" => /\ job.state = "none" /\ job.holder = NoWorker
                          /\ \A w \in Workers : exec[w].pc = "idle"

(* A step of a worker that executes leaves the request alone. *)
LEMMA WorkerKeepsRequest ==
    ASSUME NEW w \in Workers, Work(w) \/ DatabaseFault(w) PROVE api' = api
BY DEF Work, DatabaseFault, BuildGraph, LoadRun, PassNode, CheckStep, FindStep,
       StartStep, ExecuteSkip, ExecuteTools, ExecuteModel, ExecuteDraft,
       SaveReview, ExecuteFails, PersistStep, FailStep, CompleteRun, HandleError,
       JobDone, JobFailed, envVars

(* Only these steps of a worker write the run's status. *)
LEMMA WorkerWritesStatus ==
    ASSUME NEW w \in Workers, Work(w) \/ DatabaseFault(w)
    PROVE  \/ status' = status
           \/ LoadRun(w) /\ status \in {"QUEUED", "RUNNING"} /\ status' = "RUNNING"
           \/ (CompleteRun(w) \/ HandleError(w)) /\ status' \in RunTerminal
BY DEF Work, DatabaseFault, BuildGraph, LoadRun, PassNode, CheckStep, FindStep,
       StartStep, ExecuteSkip, ExecuteTools, ExecuteModel, ExecuteDraft,
       SaveReview, ExecuteFails, PersistStep, FailStep, CompleteRun, HandleError,
       JobDone, JobFailed, Finish, FinalStatus, RunTerminal

(* Only the end of the processor changes the job, and only its holder's.   *)
LEMMA WorkerWritesJob ==
    ASSUME job \in Job, NEW w \in Workers, Work(w) \/ DatabaseFault(w)
    PROVE  \/ job' = job
           \/ /\ JobDone(w) \/ JobFailed(w)
              /\ job.holder = w /\ job'.holder = NoWorker
<1>1. CASE JobDone(w)
  BY <1>1 DEF JobDone, Job
<1>2. CASE JobFailed(w)
  BY <1>2 DEF JobFailed, Job
<1>3. CASE ~JobDone(w) /\ ~JobFailed(w)
  BY <1>3 DEF Work, DatabaseFault, BuildGraph, LoadRun, PassNode, CheckStep, FindStep,
       StartStep, ExecuteSkip, ExecuteTools, ExecuteModel, ExecuteDraft,
       SaveReview, ExecuteFails, PersistStep, FailStep, CompleteRun, HandleError,
       envVars
<1>. QED
  BY <1>1, <1>2, <1>3

(* A worker that works is not idle before its step, touches no other       *)
(* worker, and stops only by ending its processor.                         *)
LEMMA WorkerMoves ==
    ASSUME Typed, NEW w \in Workers, Work(w) \/ DatabaseFault(w)
    PROVE  /\ exec[w].pc # "idle"
           /\ \A v \in Workers \ {w} : exec'[v] = exec[v]
           /\ JobDone(w) \/ JobFailed(w) => exec'[w].pc = "idle"
<1>. exec \in [Workers -> Execution]
  BY DEF Typed, TypeOK
<1>1. exec[w].pc # "idle"
  BY DEF Work, DatabaseFault, BuildGraph, LoadRun, PassNode, CheckStep, FindStep,
       StartStep, ExecuteSkip, ExecuteTools, ExecuteModel, ExecuteDraft,
       SaveReview, ExecuteFails, PersistStep, FailStep, CompleteRun, HandleError,
       JobDone, JobFailed
<1>2. \A v \in Workers \ {w} : exec'[v] = exec[v]
  BY DEF Work, DatabaseFault, BuildGraph, LoadRun, PassNode, CheckStep, FindStep,
       StartStep, ExecuteSkip, ExecuteTools, ExecuteModel, ExecuteDraft,
       SaveReview, ExecuteFails, PersistStep, FailStep, CompleteRun, HandleError,
       JobDone, JobFailed, GoTo, Raise, Advance
<1>3. JobDone(w) \/ JobFailed(w) => exec'[w].pc = "idle"
  BY DEF JobDone, JobFailed, Idle
<1>. QED
  BY <1>1, <1>2, <1>3

LEMMA RequestInit == Init => RequestOK
BY DEF Init, RequestOK, Idle

LEMMA RequestStep == Typed /\ RequestOK /\ [Next]_vars => RequestOK'
<1>. SUFFICES ASSUME Typed, RequestOK, [Next]_vars PROVE RequestOK'
  OBVIOUS
<1>. job \in Job
  BY DEF Typed, TypeOK
<1>. USE WorkersAssumption DEF RequestOK
<1>1. CASE UNCHANGED vars
  BY <1>1 DEF vars
<1>2. CASE CreateRun \/ Enqueue \/ EnqueueFails \/ Cancel
  BY <1>2 DEF CreateRun, Enqueue, EnqueueFails, Cancel
<1>3. CASE Stall \/ LockLost
  BY <1>3 DEF Stall, LockLost, Requeue
<1>4. ASSUME NEW w \in Workers, Pick(w) \/ Crash(w) PROVE RequestOK'
  <2>1. api = "started"
    BY <1>4 DEF Pick, Crash
  <2>. QED
    BY <1>4, <2>1 DEF Pick, Crash
<1>5. ASSUME NEW w \in Workers, Work(w) \/ DatabaseFault(w) PROVE RequestOK'
  <2>1. api = "started" /\ api' = api
    BY <1>5, WorkerMoves, WorkerKeepsRequest
  <2>2. status' # "NONE"
    BY <1>5, <2>1, WorkerWritesStatus DEF RunTerminal
  <2>. QED
    BY <2>1, <2>2
<1>. QED
  BY <1>1, <1>2, <1>3, <1>4, <1>5 DEF Next

(* Terminal states cannot return to active states: whatever is retried,    *)
(* repeated or executed twice, a run that has ended stays ended.           *)
THEOREM TerminalIsFinal == Spec => TerminalStaysTerminal
<1>1. Init => Typed /\ RequestOK
  BY TypedInit, RequestInit
<1>2. Typed /\ RequestOK /\ [Next]_vars => (Typed /\ RequestOK)'
  BY TypedStep, RequestStep
<1>3. Typed /\ RequestOK /\ [Next]_vars
        => [(status \in RunTerminal) => (status' \in RunTerminal)]_status
  <2>. SUFFICES ASSUME RequestOK, [Next]_vars, status \in RunTerminal
                PROVE  status' \in RunTerminal
    OBVIOUS
  <2>1. CASE UNCHANGED vars
    BY <2>1 DEF vars
  <2>2. CASE CreateRun \/ Enqueue \/ EnqueueFails \/ Cancel \/ Stall \/ LockLost
    BY <2>2 DEF RequestOK, RunTerminal, CreateRun, Enqueue, EnqueueFails, Cancel,
                Stall, LockLost
  <2>3. ASSUME NEW w \in Workers, Pick(w) \/ Crash(w) PROVE status' \in RunTerminal
    BY <2>3 DEF Pick, Crash
  <2>4. ASSUME NEW w \in Workers, Work(w) \/ DatabaseFault(w)
        PROVE  status' \in RunTerminal
    BY <2>4, WorkerWritesStatus DEF RunTerminal
  <2>. QED
    BY <2>1, <2>2, <2>3, <2>4 DEF Next
<1>. QED
  BY <1>1, <1>2, <1>3, PTL DEF Spec, TerminalStaysTerminal

-----------------------------------------------------------------------------
(* Mutual exclusion. *)

LEMMA WorkKeepsEnvironment ==
    ASSUME NEW w \in Workers, Work(w) PROVE env' = env
BY DEF Work, BuildGraph, LoadRun, PassNode, CheckStep, FindStep, StartStep,
       ExecuteSkip, ExecuteTools, ExecuteModel, ExecuteDraft, SaveReview,
       ExecuteFails, PersistStep, FailStep, CompleteRun, HandleError, JobDone,
       JobFailed, envVars

(* A lost lock is counted and never forgotten.                             *)
LEMMA LockLossCounted ==
    ASSUME env \in Environment, [Next]_vars, env'.lockLosses = 0
    PROVE  env.lockLosses = 0 /\ ~LockLost
<1>. env.lockLosses \in Nat
  BY BoundsAssumption DEF Environment
<1>1. CASE UNCHANGED vars
  BY <1>1 DEF vars, LockLost, Environment
<1>2. CASE CreateRun \/ Enqueue \/ Stall
  BY <1>2 DEF CreateRun, Enqueue, Stall, LockLost, Environment
<1>3. CASE EnqueueFails \/ Cancel
  BY <1>3 DEF EnqueueFails, Cancel, LockLost, Environment
<1>4. CASE LockLost
  BY <1>4 DEF LockLost, Environment
<1>5. ASSUME NEW w \in Workers, Pick(w) \/ Crash(w) \/ DatabaseFault(w)
      PROVE  env.lockLosses = 0 /\ ~LockLost
  BY <1>5 DEF Pick, Crash, DatabaseFault, LockLost, Environment
<1>6. ASSUME NEW w \in Workers, Work(w) PROVE env.lockLosses = 0 /\ ~LockLost
  BY <1>6, WorkKeepsEnvironment DEF LockLost, Environment
<1>. QED
  BY <1>1, <1>2, <1>3, <1>4, <1>5, <1>6 DEF Next

LEMMA ExclusiveStep ==
    Typed /\ RequestOK /\ ExclusiveExecution /\ [Next]_vars => ExclusiveExecution'
<1>. SUFFICES ASSUME Typed, RequestOK, ExclusiveExecution, [Next]_vars,
                     env'.lockLosses = 0
              PROVE  \A v \in Workers : exec'[v].pc # "idle" =>
                           job'.holder = v /\ job'.state = "active"
  BY DEF ExclusiveExecution
<1>. job \in Job /\ exec \in [Workers -> Execution]
  BY DEF Typed, TypeOK
<1>0. /\ ~LockLost
      /\ \A v \in Workers : exec[v].pc # "idle" => job.holder = v /\ job.state = "active"
  BY LockLossCounted DEF Typed, TypeOK, ExclusiveExecution
<1>. USE WorkersAssumption, <1>0
<1>1. CASE UNCHANGED vars
  BY <1>1 DEF vars
<1>2. CASE CreateRun \/ EnqueueFails \/ Cancel
  BY <1>2 DEF CreateRun, EnqueueFails, Cancel
<1>3. CASE Enqueue
  BY <1>3 DEF Enqueue, RequestOK
<1>4. CASE Stall
  BY <1>4 DEF Stall
<1>5. ASSUME NEW w \in Workers, Pick(w)
      PROVE  \A v \in Workers : exec'[v].pc # "idle" =>
                   job'.holder = v /\ job'.state = "active"
  <2>1. job'.holder = w /\ job'.state = "active"
    BY <1>5 DEF Pick, Job
  <2>2. \A v \in Workers \ {w} : exec'[v].pc = "idle"
    BY <1>5 DEF Pick
  <2>. QED
    BY <2>1, <2>2
<1>6. ASSUME NEW w \in Workers, Crash(w)
      PROVE  \A v \in Workers : exec'[v].pc = "idle"
  BY <1>6 DEF Crash, Idle
<1>7. ASSUME NEW w \in Workers, Work(w) \/ DatabaseFault(w)
      PROVE  \A v \in Workers : exec'[v].pc # "idle" =>
                   job'.holder = v /\ job'.state = "active"
  <2>1. \A v \in Workers \ {w} : exec'[v].pc = "idle"
    BY <1>7, WorkerMoves
  <2>2. exec'[w].pc # "idle" => job' = job
    BY <1>7, WorkerMoves, WorkerWritesJob
  <2>. QED
    BY <1>7, <2>1, <2>2, WorkerMoves
<1>. QED
  BY <1>1, <1>2, <1>3, <1>4, <1>5, <1>6, <1>7 DEF Next

(* As long as no live worker loses the job's lock, at most one execution   *)
(* of the run is under way, and its worker holds the job.                  *)
THEOREM MutualExclusion == Spec => []ExclusiveExecution
<1>1. Init => Typed /\ RequestOK /\ ExclusiveExecution
  BY TypedInit, RequestInit DEF Init, ExclusiveExecution, Idle
<1>2. Typed /\ RequestOK /\ ExclusiveExecution /\ [Next]_vars
        => (Typed /\ RequestOK /\ ExclusiveExecution)'
  BY TypedStep, RequestStep, ExclusiveStep
<1>. QED
  BY <1>1, <1>2, PTL DEF Spec

-----------------------------------------------------------------------------
(* What the rows say about the execution, and the execution about them. *)

(* The places at which an execution has judged its step's row unfinished.  *)
Writing == {"create", "reset", "execute", "review", "persist", "fail"}

(* The row of a node's step. *)
StepOf(n) == steps[Sequence(config, n)]

(* ... and after a step, which never changes the plan. *)
StepOfNext(n) == steps'[Sequence(config, n)]

Planned == {n \in Nodes : InPlan(config, n)}

(* Behind an execution everything is done; ahead of a step it works on     *)
(* nothing has begun; the step itself is not done, unless it has just been *)
(* stored and found to exceed the token budget; and the run is not over.   *)
ProgressOf(w) ==
    /\ exec[w].pc \in {"node"} \cup Stepping =>
         /\ \A m \in Planned : m < exec[w].at => StepOf(m) \in Done
         /\ status \in {"RUNNING", "CANCEL_REQUESTED"}
    /\ exec[w].pc \in Writing =>
         \A n \in Planned : n > exec[w].at => StepOf(n) = "NONE"
    /\ \/ exec[w].pc \in Writing \ {"fail"}
       \/ exec[w].pc = "fail" /\ config.maxTokens = NoLimit
       => StepOf(exec[w].at) \notin Done

RowsInOrder ==
    \A m, n \in Planned : m < n /\ StepOf(n) # "NONE" => StepOf(m) \in Done

(* The answer is stored with its step. *)
AnswerStored ==
    /\ StepOf(Generate) # "SKIPPED"
    /\ StepOf(Generate) = "COMPLETED" => fx.messages >= 1
    /\ config.maxTokens = NoLimit =>
         fx.messages = IF StepOf(Generate) = "COMPLETED" THEN 1 ELSE 0

RunWhole ==
    status = "COMPLETED" =>
      /\ \A n \in Planned : StepOf(n) \in Done
      /\ fx.messages >= 1

Progress ==
    env.lockLosses = 0 =>
      /\ \A w \in Workers : ProgressOf(w)
      /\ RowsInOrder
      /\ AnswerStored
      /\ RunWhole

Inv == Typed /\ RequestOK /\ ExclusiveExecution /\ Progress

(* Writing the row of the step at hand leaves the plan's other rows alone. *)
LEMMA WriteRow ==
    ASSUME Typed, NEW w \in Workers, exec[w].at \in Planned, NEW st, WriteStep(w, st),
           config' = config
    PROVE  /\ StepOfNext(exec[w].at) = st
           /\ \A n \in Planned : n # exec[w].at => StepOfNext(n) = StepOf(n)
<1>1. config \in Config
  BY ConfigsAssumption DEF Typed, TypeOK
<1>2. \A n \in Planned : n # exec[w].at =>
         Sequence(config, n) # Sequence(config, exec[w].at)
  <2>. SUFFICES ASSUME NEW n \in Planned, n # exec[w].at
                PROVE  Sequence(config, n) # Sequence(config, exec[w].at)
    OBVIOUS
  <2>1. n \in Nodes /\ InPlan(config, n) /\ exec[w].at \in Nodes /\ InPlan(config, exec[w].at)
    BY DEF Planned
  <2>2. n < exec[w].at \/ exec[w].at < n
    BY <2>1 DEF Nodes
  <2>3. Sequence(config, n) \in Int /\ Sequence(config, exec[w].at) \in Int
    BY <1>1, <2>1, SequenceRange DEF Sequences
  <2>. QED
    BY <1>1, <2>1, <2>2, <2>3, SequenceOrder
<1>3. Sequence(config, exec[w].at) \in Sequences
  BY <1>1, SequenceRange DEF Planned
<1>4. steps \in [Sequences -> (RunStepStatus \ {"PENDING"}) \cup {"NONE"}]
  BY DEF Typed, TypeOK
<1>5. steps' = [steps EXCEPT ![Sequence(config, exec[w].at)] = st]
  BY DEF WriteStep, Row, Node
<1>6. StepOfNext(exec[w].at) = st
  BY <1>3, <1>4, <1>5 DEF StepOfNext
<1>7. ASSUME NEW n \in Planned, n # exec[w].at PROVE StepOfNext(n) = StepOf(n)
  BY <1>2, <1>4, <1>5, <1>7 DEF StepOf, StepOfNext
<1>. QED
  BY <1>6, <1>7

(* A step that writes neither the rows nor the run's status nor messages.  *)
Quiet == UNCHANGED <<config, steps, status>> /\ fx'.messages = fx.messages

LEMMA QuietKeeps ==
    ASSUME Quiet, RowsInOrder, AnswerStored, RunWhole
    PROVE  RowsInOrder' /\ AnswerStored' /\ RunWhole'
<1>1. Planned' = Planned /\ \A n : StepOf(n)' = StepOf(n)
  BY DEF Quiet, Planned, StepOf
<1>. QED
  BY <1>1 DEF Quiet, RowsInOrder, AnswerStored, RunWhole, Planned, StepOf

(* A quiet step keeps the progress of an execution that stays at its node, *)
(* and of one that leaves a node without a step or with a finished one.    *)
LEMMA QuietStays ==
    ASSUME Quiet, NEW w \in Workers, ProgressOf(w), exec'[w].at = exec[w].at,
           \/ exec'[w].pc \notin {"node"} \cup Stepping
           \/ exec[w].pc \in Writing \ {"fail"} /\ exec'[w].pc \in Writing
           \/ exec[w].pc = "node" /\ exec'[w].pc = "find"
    PROVE  ProgressOf(w)'
BY DEF Quiet, ProgressOf, Planned, StepOf, Writing, Stepping

LEMMA QuietAdvances ==
    ASSUME Quiet, NEW w \in Workers, ProgressOf(w), exec[w].at \in Nodes,
           exec[w].pc \in {"node", "find"},
           exec'[w].pc = "node", exec'[w].at = exec[w].at + 1,
           exec[w].at \in Planned => StepOf(exec[w].at) \in Done
    PROVE  ProgressOf(w)'
<1>1. \A m \in Planned : m < exec[w].at + 1 => StepOf(m) \in Done
  <2>. SUFFICES ASSUME NEW m \in Planned, m < exec[w].at + 1, m # exec[w].at
                PROVE  StepOf(m) \in Done
    OBVIOUS
  <2>1. m < exec[w].at
    BY DEF Planned, Nodes
  <2>. QED
    BY <2>1 DEF ProgressOf, Stepping
<1>2. status \in {"RUNNING", "CANCEL_REQUESTED"}
  BY DEF ProgressOf, Stepping
<1>. QED
  BY <1>1, <1>2 DEF Quiet, ProgressOf, Planned, StepOf, Writing, Stepping

LEMMA QuietFinds ==
    ASSUME Quiet, NEW w \in Workers, ProgressOf(w), RowsInOrder,
           exec[w].at \in Planned, exec[w].pc = "find",
           exec'[w].pc \in {"create", "reset"}, exec'[w].at = exec[w].at,
           StepOf(exec[w].at) \notin Done
    PROVE  ProgressOf(w)'
<1>1. \A n \in Planned : n > exec[w].at => StepOf(n) = "NONE"
  BY DEF RowsInOrder, Planned, Nodes
<1>. QED
  BY <1>1 DEF Quiet, ProgressOf, Planned, StepOf, Writing, Stepping

(* A write of the row at hand.                                             *)
LEMMA LoudRows ==
    ASSUME Typed, NEW w \in Workers, exec[w].at \in Planned, exec[w].pc \in Writing,
           ProgressOf(w), RowsInOrder, NEW st, WriteStep(w, st), config' = config
    PROVE  /\ RowsInOrder'
           /\ \A m \in Planned : m < exec[w].at => StepOfNext(m) \in Done
           /\ \A n \in Planned : n > exec[w].at => StepOfNext(n) = "NONE"
<1>1. /\ \A m \in Planned : m < exec[w].at => StepOf(m) \in Done
      /\ \A n \in Planned : n > exec[w].at => StepOf(n) = "NONE"
  BY DEF ProgressOf, Writing, Stepping
<1>2. /\ \A m \in Planned : m < exec[w].at => StepOfNext(m) \in Done
      /\ \A n \in Planned : n > exec[w].at => StepOfNext(n) = "NONE"
  BY <1>1, WriteRow DEF Planned, Nodes
<1>3. ASSUME NEW m \in Planned, NEW n \in Planned, m < n, StepOfNext(n) # "NONE"
      PROVE  StepOfNext(m) \in Done
  <2>1. CASE n = exec[w].at
    BY <1>2, <1>3, <2>1
  <2>2. CASE m = exec[w].at
    BY <1>2, <1>3, <2>2
  <2>3. CASE n # exec[w].at /\ m # exec[w].at
    BY <1>3, <2>3, WriteRow DEF RowsInOrder
  <2>. QED
    BY <2>1, <2>2, <2>3
<1>4. RowsInOrder'
  BY <1>3 DEF RowsInOrder, Planned, StepOf, StepOfNext
<1>. QED
  BY <1>2, <1>4

(* A write of a status that is not a finished one.                         *)
LEMMA UnfinishedAnswer ==
    ASSUME Typed, NEW w \in Workers, exec[w].at \in Planned, exec[w].pc \in Writing,
           ProgressOf(w), AnswerStored, NEW st \in {"RUNNING", "FAILED"},
           WriteStep(w, st), config' = config, fx'.messages = fx.messages
    PROVE  AnswerStored'
<1>1. Generate \in Planned
  BY DEF Planned, Nodes, Generate, InPlan
<1>2. StepOf(Generate)' = StepOfNext(Generate)
  BY DEF StepOf, StepOfNext, Generate
<1>3. CASE exec[w].at = Generate
  <2>1. StepOfNext(Generate) = st
    BY <1>3, WriteRow
  <2>2. config.maxTokens = NoLimit => StepOf(Generate) \notin Done
    BY <1>3 DEF ProgressOf, Writing
  <2>. QED
    BY <1>2, <2>1, <2>2 DEF AnswerStored, Done
<1>4. CASE exec[w].at # Generate
  <2>1. StepOfNext(Generate) = StepOf(Generate)
    BY <1>1, <1>4, WriteRow
  <2>. QED
    BY <1>2, <2>1 DEF AnswerStored
<1>. QED
  BY <1>3, <1>4

(* completeStep: the answer is stored with its step, or neither is.        *)
LEMMA PersistedAnswer ==
    ASSUME Typed, NEW w \in Workers, exec[w].at \in Planned, ProgressOf(w),
           AnswerStored, PersistStep(w)
    PROVE  AnswerStored'
<1>. DEFINE st == IF SkipsStep(config, Node(w)) THEN "SKIPPED" ELSE "COMPLETED"
<1>0. WriteStep(w, st) /\ config' = config
  BY DEF PersistStep, envVars
<1>1. Generate \in Planned
  BY DEF Planned, Nodes, Generate, InPlan
<1>2. StepOf(Generate)' = StepOfNext(Generate)
  BY <1>0 DEF StepOf, StepOfNext, Generate
<1>3. fx \in Effects /\ fx.messages \in Nat
  BY DEF Typed, TypeOK, Effects
<1>4. CASE exec[w].at = Generate
  <2>1. st = "COMPLETED"
    BY <1>4 DEF SkipsStep, Generate, Retrieve, News, Github, Node
  <2>2. StepOfNext(Generate) = "COMPLETED"
    BY <1>0, <1>4, <2>1, WriteRow
  <2>3. fx'.messages = fx.messages + 1
    BY <1>3, <1>4 DEF PersistStep, Node, Effects
  <2>4. config.maxTokens = NoLimit => StepOf(Generate) \notin Done
    BY <1>4 DEF ProgressOf, PersistStep, Writing
  <2>. QED
    BY <1>0, <1>2, <1>3, <2>2, <2>3, <2>4 DEF AnswerStored, Done
<1>5. CASE exec[w].at # Generate
  <2>1. StepOfNext(Generate) = StepOf(Generate)
    BY <1>0, <1>1, <1>5, WriteRow
  <2>2. fx' = fx
    BY <1>5 DEF PersistStep, Node
  <2>. QED
    BY <1>0, <1>2, <2>1, <2>2 DEF AnswerStored
<1>. QED
  BY <1>4, <1>5

-----------------------------------------------------------------------------
(* The inductive invariant. *)

(* A step of the worker that holds the job.                                *)
LEMMA ProgressWork ==
    ASSUME Inv, env.lockLosses = 0, NEW w \in Workers, Work(w) \/ DatabaseFault(w)
    PROVE  ProgressOf(w)' /\ RowsInOrder' /\ AnswerStored' /\ RunWhole'
<1>0. /\ Typed /\ ExclusiveExecution /\ ProgressOf(w)
      /\ RowsInOrder /\ AnswerStored /\ RunWhole
      /\ exec \in [Workers -> Execution] /\ fx \in Effects
  BY DEF Inv, Progress, Typed, TypeOK
<1>1. exec[w].pc \in Stepping => exec[w].at \in Planned
  BY <1>0 DEF Typed, PlaceOK, Planned
<1>. USE <1>0, <1>1, Members
<1>2. CASE BuildGraph(w)
  <2>1. Quiet
    BY <1>2 DEF BuildGraph, Quiet, envVars
  <2>2. exec'[w].pc = "load" /\ exec'[w].at = exec[w].at
    BY <1>2, GoToMoves DEF BuildGraph
  <2>. QED
    BY <2>1, <2>2, QuietKeeps, QuietStays DEF Stepping
<1>3. CASE LoadRun(w)
  <2>1. CASE status \notin {"QUEUED", "RUNNING"}
    <3>1. Quiet
      BY <1>3, <2>1 DEF LoadRun, Quiet, envVars
    <3>2. exec'[w].pc = "ack" /\ exec'[w].at = exec[w].at
      BY <1>3, <2>1, GoToMoves DEF LoadRun
    <3>. QED
      BY <3>1, <3>2, QuietKeeps, QuietStays DEF Stepping
  <2>2. CASE status \in {"QUEUED", "RUNNING"}
    <3>1. exec'[w].pc = "node" /\ exec'[w].at = 1
      BY <1>3, <2>2, GoToMoves DEF LoadRun, Typed, PlaceOK
    <3>2. status' = "RUNNING" /\ UNCHANGED <<config, steps, fx>>
      BY <1>3, <2>2 DEF LoadRun, envVars
    <3>3. ProgressOf(w)'
      BY <3>1, <3>2 DEF ProgressOf, Planned, Nodes, Writing, Stepping
    <3>4. RowsInOrder' /\ AnswerStored' /\ RunWhole'
      BY <3>2 DEF RowsInOrder, AnswerStored, RunWhole, Planned, StepOf
    <3>. QED
      BY <3>3, <3>4
  <2>. QED
    BY <2>1, <2>2
<1>4. CASE PassNode(w)
  <2>1. Quiet
    BY <1>4 DEF PassNode, Quiet, envVars
  <2>2. exec'[w].pc = "node" /\ exec'[w].at = exec[w].at + 1
    BY <1>4, AdvanceMoves DEF PassNode, Node
  <2>. QED
    BY <1>4, <2>1, <2>2, QuietKeeps, QuietAdvances DEF PassNode, Node, Planned
<1>5. CASE CheckStep(w)
  <2>1. Quiet
    BY <1>5 DEF CheckStep, Quiet, envVars
  <2>2. exec'[w].pc \in {"find", "handle"} /\ exec'[w].at = exec[w].at /\ exec[w].pc = "node"
    BY <1>5, GoToMoves, RaiseMoves DEF CheckStep, Stepping
  <2>. QED
    BY <2>1, <2>2, QuietKeeps, QuietStays DEF Stepping
<1>6. CASE FindStep(w)
  <2>1. Quiet
    BY <1>6 DEF FindStep, Quiet, envVars
  <2>2. exec[w].at \in Planned /\ exec[w].at \in Nodes /\ exec[w].pc = "find"
    BY <1>6 DEF FindStep, Stepping, Planned
  <2>3. StepOf(exec[w].at) = steps[Row(w)]
    BY DEF StepOf, Row, Node
  <2>4. CASE steps[Row(w)] \in Done
    <3>1. exec'[w].pc = "node" /\ exec'[w].at = exec[w].at + 1
      BY <1>6, <2>2, <2>4, AdvanceMoves DEF FindStep, Done
    <3>. QED
      BY <2>1, <2>2, <2>3, <2>4, <3>1, QuietKeeps, QuietAdvances
  <2>5. CASE steps[Row(w)] \notin Done
    <3>1. exec'[w].pc \in {"create", "reset"} /\ exec'[w].at = exec[w].at
      BY <1>6, <2>5, GoToMoves DEF FindStep, Done, Stepping
    <3>. QED
      BY <2>1, <2>2, <2>3, <2>5, <3>1, QuietKeeps, QuietFinds
  <2>. QED
    BY <2>4, <2>5
<1>7. CASE StartStep(w)
  <2>1. CASE Raise(w, "failed", "handle") /\ UNCHANGED <<steps, fx>>
    <3>1. Quiet
      BY <1>7, <2>1 DEF StartStep, Quiet, envVars
    <3>2. exec'[w].pc = "handle" /\ exec'[w].at = exec[w].at
      BY <2>1, RaiseMoves
    <3>. QED
      BY <3>1, <3>2, QuietKeeps, QuietStays DEF Stepping
  <2>2. CASE WriteStep(w, "RUNNING") /\ GoTo(w, "execute") /\ CountLateStart
    <3>1. exec[w].pc \in Writing /\ exec[w].at \in Planned
      BY <1>7 DEF StartStep, Writing, Stepping
    <3>2. exec'[w].pc = "execute" /\ exec'[w].at = exec[w].at
      BY <2>2, GoToMoves DEF Stepping
    <3>3. UNCHANGED <<config, status>> /\ fx'.messages = fx.messages
      BY <1>7, <2>2 DEF StartStep, envVars, CountLateStart, Effects
    <3>4. StepOfNext(exec[w].at) = "RUNNING"
      BY <2>2, <3>1, <3>3, WriteRow
    <3>5. RowsInOrder' /\ AnswerStored'
      BY <2>2, <3>1, <3>3, LoudRows, UnfinishedAnswer
    <3>6. status \in {"RUNNING", "CANCEL_REQUESTED"}
      BY <3>1 DEF ProgressOf, Writing, Stepping
    <3>7. /\ \A m \in Planned : m < exec[w].at => StepOfNext(m) \in Done
          /\ \A n \in Planned : n > exec[w].at => StepOfNext(n) = "NONE"
      BY <2>2, <3>1, <3>3, LoudRows
    <3>8. ProgressOf(w)'
      BY <3>2, <3>3, <3>4, <3>6, <3>7
      DEF ProgressOf, Planned, StepOf, StepOfNext, Done
    <3>. QED
      BY <3>3, <3>5, <3>6, <3>8 DEF RunWhole
  <2>. QED
    BY <1>7, <2>1, <2>2 DEF StartStep
<1>8. CASE ExecuteSkip(w) \/ ExecuteTools(w) \/ ExecuteModel(w) \/ ExecuteFails(w)
  <2>1. Quiet
    BY <1>8 DEF ExecuteSkip, ExecuteTools, ExecuteModel, ExecuteFails, Quiet, envVars
  <2>2. exec[w].pc \in {"execute", "review"} /\ exec'[w].pc \in {"persist", "fail"}
        /\ exec'[w].at = exec[w].at
    <3>1. CASE ExecuteSkip(w)
      BY <3>1, GoToMoves DEF ExecuteSkip, Stepping
    <3>2. CASE ExecuteTools(w)
      BY <3>2 DEF ExecuteTools, Execution
    <3>3. CASE ExecuteModel(w)
      BY <3>3 DEF ExecuteModel, Execution
    <3>4. CASE ExecuteFails(w)
      BY <3>4, RaiseMoves DEF ExecuteFails, Stepping
    <3>. QED
      BY <1>8, <3>1, <3>2, <3>3, <3>4
  <2>. QED
    BY <2>1, <2>2, QuietKeeps, QuietStays DEF Writing
<1>9. CASE ExecuteDraft(w) \/ SaveReview(w)
  <2>1. Quiet
    BY <1>9 DEF ExecuteDraft, SaveReview, Quiet, envVars, Effects
  <2>2. exec[w].pc \in {"execute", "review"} /\ exec'[w].pc \in {"review", "persist", "fail"}
        /\ exec'[w].at = exec[w].at
    <3>1. CASE SaveReview(w)
      BY <3>1, GoToMoves DEF SaveReview, Stepping
    <3>2. CASE ExecuteDraft(w) /\ Raise(w, "timeout", "fail")
      BY <3>2, RaiseMoves DEF ExecuteDraft, Stepping
    <3>3. CASE ExecuteDraft(w) /\ ~Raise(w, "timeout", "fail")
      BY <3>3 DEF ExecuteDraft, Execution
    <3>. QED
      BY <1>9, <3>1, <3>2, <3>3
  <2>. QED
    BY <2>1, <2>2, QuietKeeps, QuietStays DEF Writing
<1>10. CASE PersistStep(w)
  <2>. DEFINE st == IF SkipsStep(config, Node(w)) THEN "SKIPPED" ELSE "COMPLETED"
  <2>1. WriteStep(w, st) /\ UNCHANGED <<config, status>>
    BY <1>10 DEF PersistStep, envVars
  <2>2. exec[w].pc \in Writing /\ exec[w].at \in Planned /\ exec[w].at \in Nodes
    BY <1>10 DEF PersistStep, Writing, Stepping, Planned
  <2>3. StepOfNext(exec[w].at) \in Done
    BY <2>1, <2>2, WriteRow DEF Done
  <2>4. RowsInOrder' /\ AnswerStored'
    BY <1>10, <2>1, <2>2, LoudRows, PersistedAnswer
  <2>5. status \in {"RUNNING", "CANCEL_REQUESTED"}
    BY <2>2 DEF ProgressOf, Writing, Stepping
  <2>6. /\ \A m \in Planned : m < exec[w].at => StepOfNext(m) \in Done
        /\ \A n \in Planned : n > exec[w].at => StepOfNext(n) = "NONE"
    BY <2>1, <2>2, LoudRows
  <2>7. ProgressOf(w)'
    <3>1. CASE OverBudget(w) /\ Raise(w, "budget", "fail")
      <4>1. exec'[w].pc = "fail" /\ exec'[w].at = exec[w].at
        BY <3>1, RaiseMoves DEF Stepping
      <4>2. config.maxTokens # NoLimit
        BY <3>1 DEF OverBudget
      <4>. QED
        BY <2>1, <2>5, <2>6, <4>1, <4>2 DEF ProgressOf, Planned, StepOf, StepOfNext, Writing
    <3>2. CASE Advance(w)
      <4>1. exec'[w].pc = "node" /\ exec'[w].at = exec[w].at + 1
        BY <2>2, <3>2, AdvanceMoves
      <4>2. \A m \in Planned : m < exec[w].at + 1 => StepOfNext(m) \in Done
        BY <2>2, <2>3, <2>6 DEF Planned, Nodes
      <4>. QED
        BY <2>1, <2>5, <4>1, <4>2 DEF ProgressOf, Planned, StepOf, StepOfNext, Writing
    <3>. QED
      BY <1>10, <3>1, <3>2 DEF PersistStep
  <2>. QED
    BY <2>1, <2>4, <2>5, <2>7 DEF RunWhole
<1>11. CASE FailStep(w)
  <2>1. WriteStep(w, "FAILED") /\ UNCHANGED <<config, status, fx>>
    BY <1>11 DEF FailStep, envVars
  <2>2. exec[w].pc \in Writing /\ exec[w].at \in Planned
    BY <1>11 DEF FailStep, Writing, Stepping
  <2>3. RowsInOrder' /\ AnswerStored'
    BY <2>1, <2>2, LoudRows, UnfinishedAnswer
  <2>4. status \in {"RUNNING", "CANCEL_REQUESTED"}
    BY <2>2 DEF ProgressOf, Writing, Stepping
  <2>5. exec'[w].pc = "handle"
    BY <1>11, GoToMoves DEF FailStep
  <2>6. ProgressOf(w)'
    BY <2>5 DEF ProgressOf, Writing, Stepping
  <2>. QED
    BY <2>1, <2>3, <2>4, <2>6 DEF RunWhole
<1>12. CASE CompleteRun(w)
  <2>1. UNCHANGED <<config, steps>> /\ fx'.messages = fx.messages
    BY <1>3, <1>12, CancelNoted DEF CompleteRun, envVars, SameEffects
  <2>2. exec'[w].pc = "ack"
    BY <1>12, GoToMoves DEF CompleteRun
  <2>3. \A m \in Planned : StepOf(m) \in Done
    BY <1>12 DEF CompleteRun, Node, CompleteNode, ProgressOf, Planned, Nodes
  <2>4. Generate \in Planned
    BY DEF Planned, Nodes, Generate, InPlan
  <2>5. fx.messages >= 1
    BY <2>3, <2>4 DEF AnswerStored, Done
  <2>6. RunWhole' /\ RowsInOrder' /\ AnswerStored'
    BY <2>1, <2>3, <2>5 DEF RunWhole, RowsInOrder, AnswerStored, Planned, StepOf
  <2>7. ProgressOf(w)'
    BY <2>2 DEF ProgressOf, Writing, Stepping
  <2>. QED
    BY <2>6, <2>7
<1>13. CASE HandleError(w)
  <2>1. /\ UNCHANGED <<config, steps>> /\ fx'.messages = fx.messages
        /\ status' # "COMPLETED"
    BY <1>3, <1>13, CancelNoted DEF HandleError, Finish, envVars, FinalStatus, SameEffects
  <2>2. exec'[w].pc = "nack"
    BY <1>13, GoToMoves DEF HandleError
  <2>3. RunWhole' /\ RowsInOrder' /\ AnswerStored'
    BY <2>1 DEF RunWhole, RowsInOrder, AnswerStored, Planned, StepOf
  <2>4. ProgressOf(w)'
    BY <2>2 DEF ProgressOf, Writing, Stepping
  <2>. QED
    BY <2>3, <2>4
<1>14. CASE JobDone(w) \/ JobFailed(w)
  <2>1. Quiet
    BY <1>14 DEF JobDone, JobFailed, Quiet
  <2>2. exec'[w].pc = "idle"
    BY <1>14, WorkerMoves
  <2>3. ProgressOf(w)'
    BY <2>2 DEF ProgressOf, Writing, Stepping
  <2>. QED
    BY <2>1, <2>3, QuietKeeps
<1>15. CASE DatabaseFault(w)
  <2>1. Quiet
    BY <1>15 DEF DatabaseFault, Quiet
  <2>2. exec'[w].at = exec[w].at
        /\ \/ exec'[w].pc \in {"handle", "nack"}
           \/ exec[w].pc \in {"review", "persist"} /\ exec'[w].pc = "fail"
    BY <1>15, GoToMoves, RaiseMoves DEF DatabaseFault, Stepping
  <2>. QED
    BY <2>1, <2>2, QuietKeeps, QuietStays DEF Writing, Stepping
<1>. QED
  BY <1>2, <1>3, <1>4, <1>5, <1>6, <1>7, <1>8, <1>9, <1>10, <1>11, <1>12, <1>13,
     <1>14, <1>15 DEF Work

LEMMA InvInit == Init => Inv
<1>. SUFFICES ASSUME Init PROVE Inv
  OBVIOUS
<1>1. Typed /\ RequestOK /\ ExclusiveExecution
  BY TypedInit, RequestInit DEF Init, ExclusiveExecution, Idle
<1>2. \A w \in Workers : ProgressOf(w)
  BY DEF Init, Idle, ProgressOf, Writing, Stepping
<1>3. \A n \in Planned : StepOf(n) = "NONE"
  BY <1>1, ConfigsAssumption, SequenceRange DEF Init, StepOf, Planned
<1>4. Generate \in Planned
  BY DEF Planned, Nodes, Generate, InPlan
<1>5. RowsInOrder /\ AnswerStored /\ RunWhole
  BY <1>3, <1>4 DEF Init, RowsInOrder, AnswerStored, RunWhole
<1>. QED
  BY <1>1, <1>2, <1>5 DEF Inv, Progress

LEMMA InvStep == Inv /\ [Next]_vars => Inv'
<1>. SUFFICES ASSUME Inv, [Next]_vars PROVE Inv'
  OBVIOUS
<1>1. (Typed /\ RequestOK /\ ExclusiveExecution)'
  BY TypedStep, RequestStep, ExclusiveStep DEF Inv
<1>2. ASSUME env'.lockLosses = 0
      PROVE  (\A w \in Workers : ProgressOf(w)') /\ RowsInOrder' /\ AnswerStored' /\ RunWhole'
  <2>1. env.lockLosses = 0 /\ ~LockLost
    BY <1>2, LockLossCounted DEF Inv, Typed, TypeOK
  <2>2. (\A w \in Workers : ProgressOf(w)) /\ RowsInOrder /\ AnswerStored /\ RunWhole
    BY <2>1 DEF Inv, Progress
  <2>3. CASE UNCHANGED vars
    BY <2>2, <2>3
    DEF vars, ProgressOf, RowsInOrder, AnswerStored, RunWhole, Planned, StepOf
  <2>4. CASE CreateRun
    <3>1. UNCHANGED <<config, steps, exec, fx>> /\ status' = "QUEUED"
      BY <2>4 DEF CreateRun
    <3>2. \A w \in Workers : exec[w].pc = "idle"
      BY <2>4 DEF CreateRun, Inv, RequestOK
    <3>. QED
      BY <2>2, <3>1, <3>2
      DEF ProgressOf, RowsInOrder, AnswerStored, RunWhole, Planned, StepOf, Writing, Stepping
  <2>5. CASE Enqueue \/ EnqueueFails \/ Stall
    BY <2>2, <2>5
    DEF Enqueue, EnqueueFails, Stall, ProgressOf, RowsInOrder, AnswerStored, RunWhole,
        Planned, StepOf
  <2>6. CASE Cancel
    <3>1. UNCHANGED <<config, steps, exec>>
          /\ \/ status' = status
             \/ status \in {"QUEUED", "RUNNING"} /\ status' = "CANCEL_REQUESTED"
      BY <2>6 DEF Cancel
    <3>2. fx'.messages = fx.messages
      BY <2>6, CancelNoted DEF Inv, Typed, TypeOK, SameEffects
    <3>. QED
      BY <2>2, <3>1, <3>2
      DEF ProgressOf, RowsInOrder, AnswerStored, RunWhole, Planned, StepOf
  <2>7. ASSUME NEW w \in Workers, Pick(w) \/ Crash(w)
        PROVE  (\A v \in Workers : ProgressOf(v)') /\ RowsInOrder' /\ AnswerStored' /\ RunWhole'
    <3>1. UNCHANGED <<config, status, steps, fx>>
      BY <2>7 DEF Pick, Crash
    <3>2. /\ exec'[w].pc \in {"graph", "idle"}
          /\ \A v \in Workers \ {w} : exec'[v] = exec[v]
      BY <2>7 DEF Pick, Crash, Started, Idle, Inv, Typed, TypeOK
    <3>. QED
      BY <2>2, <3>1, <3>2
      DEF ProgressOf, RowsInOrder, AnswerStored, RunWhole, Planned, StepOf, Writing, Stepping
  <2>8. ASSUME NEW w \in Workers, Work(w) \/ DatabaseFault(w)
        PROVE  (\A v \in Workers : ProgressOf(v)') /\ RowsInOrder' /\ AnswerStored' /\ RunWhole'
    <3>1. ProgressOf(w)' /\ RowsInOrder' /\ AnswerStored' /\ RunWhole'
      BY <2>1, <2>8, ProgressWork
    <3>2. \A v \in Workers \ {w} : exec'[v].pc = "idle"
      BY <2>1, <2>8, WorkerMoves DEF Inv, ExclusiveExecution
    <3>3. \A v \in Workers \ {w} : ProgressOf(v)'
      BY <3>2 DEF ProgressOf, Writing, Stepping
    <3>. QED
      BY <3>1, <3>3
  <2>. QED
    BY <2>1, <2>3, <2>4, <2>5, <2>6, <2>7, <2>8 DEF Next
<1>. QED
  BY <1>1, <1>2 DEF Inv, Progress

(* The inductive invariant holds of every behaviour.                       *)
THEOREM Invariance == Spec => []Inv
<1>. QED
  BY InvInit, InvStep, PTL DEF Spec

-----------------------------------------------------------------------------
(* What follows from it. *)

(* Steps run in graph order, and none begins on top of an unfinished one.  *)
THEOREM OrderedSteps == Spec => []StepsInOrder
<1>1. Inv => StepsInOrder
  BY DEF Inv, Progress, RowsInOrder, StepsInOrder, StepOf, Planned
<1>. QED
  BY <1>1, Invariance, PTL

(* Without a token budget, the answer is in the conversation exactly when  *)
(* its step is COMPLETED.                                                  *)
THEOREM AnsweredOnce == Spec => []AnswerOnce
<1>1. Inv => AnswerOnce
  <2>. SUFFICES ASSUME Inv, env.lockLosses = 0, config.maxTokens = NoLimit
                PROVE  fx.messages =
                         IF steps[llmSequence(config)] = "COMPLETED" THEN 1 ELSE 0
    BY DEF AnswerOnce
  <2>1. Sequence(config, Generate) = llmSequence(config)
    BY DEF Sequence, Generate
  <2>. QED
    BY <2>1 DEF Inv, Progress, AnswerStored, StepOf
<1>. QED
  BY <1>1, Invariance, PTL

(* A COMPLETED run has finished every step of its plan and has answered.   *)
THEOREM CompletedIsWhole == Spec => []CompletedRunIsWhole
<1>1. Inv => CompletedRunIsWhole
  BY DEF Inv, Progress, RunWhole, CompletedRunIsWhole, StepOf, Planned
<1>. QED
  BY <1>1, Invariance, PTL

(* A retry or a resumed execution never writes a finished step again.      *)
THEOREM FinishedStepsAreKept == Spec => FinishedStepsStay
<1>1. Inv /\ [Next]_vars =>
        [\A s \in Sequences :
            env.lockLosses = 0 /\ config.maxTokens = NoLimit /\ steps[s] \in Done
              => steps'[s] = steps[s]]_vars
  <2>. SUFFICES ASSUME Inv, Next, NEW s \in Sequences, env.lockLosses = 0,
                       config.maxTokens = NoLimit, steps[s] \in Done
                PROVE  steps'[s] = steps[s]
    BY DEF vars
  <2>1. CASE UNCHANGED steps
    BY <2>1
  <2>2. ASSUME NEW w \in Workers, StartStep(w) \/ PersistStep(w) \/ FailStep(w),
               ~ UNCHANGED steps
        PROVE  steps'[s] = steps[s]
    <3>1. PICK st : WriteStep(w, st)
      BY <2>2 DEF StartStep, PersistStep, FailStep
    <3>2. exec[w].pc \in Writing
      BY <2>2 DEF StartStep, PersistStep, FailStep, Writing
    <3>3. steps[Row(w)] \notin Done
      BY <3>2 DEF Inv, Progress, ProgressOf, Writing, StepOf, Row, Node
    <3>. QED
      BY <3>1, <3>3 DEF WriteStep, Inv, Typed, TypeOK
  <2>3. \/ UNCHANGED steps
        \/ \E w \in Workers : StartStep(w) \/ PersistStep(w) \/ FailStep(w)
    BY DEF Next, CreateRun, Enqueue, EnqueueFails, Cancel, Stall, LockLost, Pick, Crash,
           Work, DatabaseFault, BuildGraph, LoadRun, PassNode, CheckStep, FindStep,
           ExecuteSkip, ExecuteTools, ExecuteModel, ExecuteDraft, SaveReview,
           ExecuteFails, CompleteRun, HandleError, JobDone, JobFailed
  <2>. QED
    BY <2>1, <2>2, <2>3
<1>. QED
  BY <1>1, Invariance, PTL DEF Spec, FinishedStepsStay

-----------------------------------------------------------------------------
(* Refinement: the status column follows the domain's table. *)

(* An execution that is about to record an error has a run that is not     *)
(* over: true as long as no call to the database fails.                    *)
HandlesLiveRun ==
    \A w \in Workers : exec[w].pc = "handle" => status \in {"RUNNING", "CANCEL_REQUESTED"}

LEMMA NothingFails ==
    ASSUME MaxFaults = 0, MaxLockLosses = 0, Typed
    PROVE  env.lockLosses = 0 /\ ~EnqueueFails /\ \A w \in Workers : ~DatabaseFault(w)
BY DEF Typed, TypeOK, Environment, EnqueueFails, DatabaseFault

LEMMA HandlesStep ==
    ASSUME MaxFaults = 0, MaxLockLosses = 0
    PROVE  Inv /\ HandlesLiveRun /\ [Next]_vars => HandlesLiveRun'
<1>. SUFFICES ASSUME Inv, HandlesLiveRun, [Next]_vars, NEW v \in Workers,
                     exec'[v].pc = "handle"
              PROVE  status' \in {"RUNNING", "CANCEL_REQUESTED"}
  BY DEF HandlesLiveRun
<1>0. /\ env.lockLosses = 0 /\ ~EnqueueFails /\ \A w \in Workers : ~DatabaseFault(w)
      /\ exec \in [Workers -> Execution]
      /\ Typed /\ ExclusiveExecution /\ RequestOK
      /\ \A w \in Workers : ProgressOf(w)
  BY NothingFails DEF Inv, Progress, Typed, TypeOK
<1>. USE <1>0
<1>1. CASE UNCHANGED <<exec, status>>
  BY <1>1 DEF HandlesLiveRun
<1>2. CASE CreateRun
  BY <1>2 DEF CreateRun, RequestOK
<1>3. CASE Enqueue \/ Stall \/ LockLost
  BY <1>3 DEF Enqueue, Stall, LockLost, HandlesLiveRun
<1>4. CASE Cancel
  BY <1>4 DEF Cancel, HandlesLiveRun
<1>5. ASSUME NEW w \in Workers, Pick(w) \/ Crash(w)
      PROVE  status' \in {"RUNNING", "CANCEL_REQUESTED"}
  BY <1>5 DEF Pick, Crash, Started, Idle, HandlesLiveRun
<1>6. ASSUME NEW w \in Workers, Work(w)
      PROVE  status' \in {"RUNNING", "CANCEL_REQUESTED"}
  <2>1. v = w
    BY <1>6, WorkerMoves DEF ExclusiveExecution
  <2>2. CheckStep(w) \/ StartStep(w) \/ FailStep(w)
    <3>1. ~BuildGraph(w) /\ ~LoadRun(w) /\ ~ExecuteSkip(w) /\ ~SaveReview(w)
          /\ ~CompleteRun(w) /\ ~HandleError(w)
      BY <2>1, GoToMoves, Members
      DEF BuildGraph, LoadRun, ExecuteSkip, SaveReview, CompleteRun, HandleError, Stepping
    <3>2. ~PassNode(w) /\ ~FindStep(w) /\ ~PersistStep(w) /\ ~ExecuteFails(w)
      BY <2>1, GoToMoves, RaiseMoves, AdvanceMoves, Members
      DEF PassNode, FindStep, PersistStep, ExecuteFails, Stepping, Typed, PlaceOK, Node
    <3>3. ~ExecuteTools(w) /\ ~ExecuteModel(w)
      BY ZenonT(40), <2>1 DEF ExecuteTools, ExecuteModel, Execution
    <3>4. ~ExecuteDraft(w)
      BY <2>1, RaiseMoves, Members DEF ExecuteDraft, Execution, Stepping
    <3>5. ~JobDone(w) /\ ~JobFailed(w)
      BY <1>6, <2>1, WorkerMoves
    <3>. QED
      BY <1>6, <3>1, <3>2, <3>3, <3>4, <3>5 DEF Work
  <2>3. exec[w].pc \in {"node"} \cup Stepping /\ status' = status
    BY <2>2 DEF CheckStep, StartStep, FailStep, Stepping
  <2>. QED
    BY <2>3 DEF ProgressOf
<1>. QED
  BY <1>1, <1>2, <1>3, <1>4, <1>5, <1>6 DEF Next, vars

(* Without failed calls and lost locks every write of the run's status is  *)
(* a transition the domain's table allows, over every crash, stall, retry  *)
(* and cancel request.                                                     *)
THEOREM StatusImplementsTable ==
    ASSUME MaxFaults = 0, MaxLockLosses = 0
    PROVE  Spec => StatusKeepsTable
<1>1. Init => RunTable!Init
  BY DEF Init, RunTable!Init
<1>2. Init => HandlesLiveRun
  BY DEF Init, HandlesLiveRun, Idle
<1>3. Inv /\ HandlesLiveRun /\ [Next]_vars => HandlesLiveRun'
  BY HandlesStep
<1>4. Inv /\ HandlesLiveRun /\ [Next]_vars
        => [RunTable!Move]_([r \in {"run"} |-> IF status = "NONE" THEN "QUEUED" ELSE status])
  <2>. SUFFICES ASSUME Inv, HandlesLiveRun, [Next]_vars, status' # status
                PROVE  RunTable!Move
    OBVIOUS
  <2>1. /\ ~EnqueueFails /\ \A w \in Workers : ~DatabaseFault(w)
        /\ env.lockLosses = 0 /\ RequestOK /\ \A w \in Workers : ProgressOf(w)
    BY NothingFails DEF Inv, Progress
  <2>2. \/ status = "NONE" /\ status' = "QUEUED"
        \/ status \in {"QUEUED", "RUNNING"} /\ status' \in {"RUNNING", "CANCEL_REQUESTED"}
        \/ status \in {"RUNNING", "CANCEL_REQUESTED"} /\ status' \in RunTerminal
    <3>1. CASE CreateRun \/ Cancel
      BY <2>1, <3>1 DEF CreateRun, Cancel, RequestOK
    <3>2. ASSUME NEW w \in Workers, Work(w)
          PROVE  \/ status \in {"QUEUED", "RUNNING"} /\ status' = "RUNNING"
                 \/ status \in {"RUNNING", "CANCEL_REQUESTED"} /\ status' \in RunTerminal
      <4>1. CASE LoadRun(w)
        BY <4>1 DEF LoadRun
      <4>2. CASE CompleteRun(w)
        BY <2>1, <4>2 DEF CompleteRun, Finish, ProgressOf, RunTerminal
      <4>3. CASE HandleError(w)
        BY <4>3 DEF HandleError, Finish, HandlesLiveRun, FinalStatus, RunTerminal
      <4>. QED
        BY <3>2, <4>1, <4>2, <4>3, WorkerWritesStatus
    <3>. QED
      BY <2>1, <3>1, <3>2
      DEF Next, vars, Enqueue, Stall, LockLost, Pick, Crash
  <2>. QED
    BY <2>2 DEF RunTable!Move, agentRunTransitions, RunTerminal
<1>. QED
  BY <1>1, <1>2, <1>3, <1>4, Invariance, PTL DEF Spec, StatusKeepsTable, RunTable!Spec

-----------------------------------------------------------------------------
(* Refinement without any assumption on the failures. *)

(* A run some execution works on has left the queue.                       *)
Begun == \A w \in Workers : exec[w].pc \in {"node"} \cup Stepping => status # "QUEUED"

(* How a worker gets past loadRun. *)
LEMMA WorkerBegins ==
    ASSUME Typed, NEW w \in Workers, Work(w) \/ DatabaseFault(w)
    PROVE  \/ exec[w].pc \in {"node"} \cup Stepping
           \/ status' = "RUNNING"
           \/ exec'[w].pc \notin {"node"} \cup Stepping
<1>. SUFFICES ASSUME exec[w].pc \notin {"node"} \cup Stepping, status' # "RUNNING"
              PROVE  exec'[w].pc \notin {"node"} \cup Stepping
  OBVIOUS
<1>. exec \in [Workers -> Execution]
  BY DEF Typed, TypeOK
<1>1. BuildGraph(w) \/ LoadRun(w) \/ HandleError(w) \/ JobDone(w) \/ JobFailed(w)
      \/ DatabaseFault(w)
  BY DEF Work, PassNode, CheckStep, FindStep, StartStep, ExecuteSkip, ExecuteTools,
         ExecuteModel, ExecuteDraft, SaveReview, ExecuteFails, PersistStep, FailStep,
         CompleteRun, Stepping
<1>2. CASE BuildGraph(w) \/ LoadRun(w) \/ HandleError(w)
  BY <1>2, GoToMoves, Members DEF BuildGraph, LoadRun, HandleError, Stepping
<1>3. CASE JobDone(w) \/ JobFailed(w)
  BY <1>3, WorkerMoves DEF Stepping
<1>4. CASE DatabaseFault(w)
  BY <1>4, GoToMoves, RaiseMoves, Members DEF DatabaseFault, Stepping
<1>. QED
  BY <1>1, <1>2, <1>3, <1>4

LEMMA BegunStep == Typed /\ RequestOK /\ Begun /\ [Next]_vars => Begun'
<1>. SUFFICES ASSUME Typed, RequestOK, Begun, [Next]_vars, NEW v \in Workers,
                     exec'[v].pc \in {"node"} \cup Stepping
              PROVE  status' # "QUEUED"
  BY DEF Begun
<1>. exec \in [Workers -> Execution]
  BY DEF Typed, TypeOK
<1>1. CASE UNCHANGED <<exec, status>>
  BY <1>1 DEF Begun
<1>2. CASE CreateRun
  BY <1>2 DEF CreateRun, RequestOK, Stepping
<1>3. CASE Enqueue \/ EnqueueFails \/ Stall \/ LockLost
  BY <1>3 DEF Enqueue, EnqueueFails, Stall, LockLost, Begun
<1>4. CASE Cancel
  BY <1>4 DEF Cancel
<1>5. ASSUME NEW w \in Workers, Pick(w) \/ Crash(w) PROVE status' # "QUEUED"
  BY <1>5 DEF Pick, Crash, Started, Idle, Begun, Stepping
<1>6. ASSUME NEW w \in Workers, Work(w) \/ DatabaseFault(w) PROVE status' # "QUEUED"
  <2>1. CASE status' # status
    BY <1>6, <2>1, WorkerWritesStatus DEF RunTerminal
  <2>2. CASE status' = status
    BY <1>6, <2>2, WorkerBegins, WorkerMoves DEF Begun
  <2>. QED
    BY <2>1, <2>2
<1>. QED
  BY <1>1, <1>2, <1>3, <1>4, <1>5, <1>6 DEF Next, vars

(* For any number of failed calls, lost locks, crashes and retries, every  *)
(* write of the run's status is in the domain's table or replaces one      *)
(* terminal status by another.                                             *)
THEOREM StatusRefinesTable == Spec => StatusFollowsTable
<1>1. Init => RunStatus!Init
  BY DEF Init, RunStatus!Init
<1>2. Init => Typed /\ RequestOK /\ Begun
  BY TypedInit, RequestInit DEF Init, Begun, Idle, Stepping
<1>3. Typed /\ RequestOK /\ Begun /\ [Next]_vars => (Typed /\ RequestOK /\ Begun)'
  BY TypedStep, RequestStep, BegunStep
<1>4. Typed /\ RequestOK /\ Begun /\ [Next]_vars
        => [RunStatus!Move]_([r \in {"run"} |-> IF status = "NONE" THEN "QUEUED" ELSE status])
  <2>. SUFFICES ASSUME Typed, RequestOK, Begun, [Next]_vars, status' # status
                PROVE  RunStatus!Move
    OBVIOUS
  <2>1. \/ status = "NONE" /\ status' = "QUEUED"
        \/ status \in {"QUEUED", "RUNNING"} /\ status' \in {"RUNNING", "CANCEL_REQUESTED"}
        \/ status = "QUEUED" /\ status' \in RunTerminal \ {"COMPLETED"}
        \/ status \in AgentRunStatus \ {"QUEUED"} /\ status' \in RunTerminal
    <3>1. CASE CreateRun \/ Cancel
      BY <3>1 DEF CreateRun, Cancel, RequestOK
    <3>2. ASSUME NEW w \in Workers, Work(w) \/ DatabaseFault(w)
          PROVE  \/ status \in {"QUEUED", "RUNNING"} /\ status' = "RUNNING"
                 \/ status = "QUEUED" /\ status' \in RunTerminal \ {"COMPLETED"}
                 \/ status \in AgentRunStatus \ {"QUEUED"} /\ status' \in RunTerminal
      <4>1. status \in AgentRunStatus
        BY <3>2, WorkerMoves DEF RequestOK, Typed, TypeOK
      <4>2. CASE LoadRun(w)
        BY <4>2 DEF LoadRun
      <4>3. CASE CompleteRun(w)
        BY <4>1, <4>3 DEF CompleteRun, Finish, Begun, RunTerminal
      <4>4. CASE HandleError(w)
        BY <4>1, <4>4 DEF HandleError, Finish, FinalStatus, RunTerminal
      <4>. QED
        BY <3>2, <4>2, <4>3, <4>4, WorkerWritesStatus
    <3>. QED
      BY <3>1, <3>2 DEF Next, vars, Enqueue, EnqueueFails, Stall, LockLost, Pick, Crash
  <2>. QED
    BY <2>1 DEF RunStatus!Move, agentRunTransitions, RunTerminal, AgentRunStatus
<1>. QED
  BY <1>1, <1>2, <1>3, <1>4, PTL DEF Spec, StatusFollowsTable, RunStatus!Spec

-----------------------------------------------------------------------------
(* Limits: what may still begin after a request to cancel.                 *)

(* A part of a bounded set is bounded, and one more element adds one.      *)
LEMMA SmallerSet ==
    ASSUME NEW S, IsFiniteSet(S), NEW n \in Nat, Cardinality(S) <= n,
           NEW T, T \subseteq S
    PROVE  IsFiniteSet(T) /\ Cardinality(T) <= n
BY FS_Subset, FS_CardinalityType

LEMMA OneMoreElement ==
    ASSUME NEW S, IsFiniteSet(S), NEW n \in Nat, Cardinality(S) <= n,
           NEW x, NEW T, T \subseteq S \cup {x}
    PROVE  IsFiniteSet(T) /\ Cardinality(T) <= n + 1
<1>1. Cardinality(S) \in Nat
  BY FS_CardinalityType
<1>2. /\ IsFiniteSet(S \cup {x})
      /\ Cardinality(S \cup {x}) = IF x \in S THEN Cardinality(S) ELSE Cardinality(S) + 1
  BY FS_AddElement
<1>3. Cardinality(S \cup {x}) <= n + 1
  BY <1>1, <1>2
<1>. QED
  BY <1>2, <1>3, SmallerSet

(* The executions that work without the job's lock, and those that have    *)
(* passed their check of the run's status and not yet begun the step.      *)
Loose == {w \in Workers : exec[w].pc # "idle" /\ job.holder # w}
Ready == {w \in Workers : exec[w].pc \in {"find", "create", "reset"}}

(* Only an active job is held, and every execution without the lock has    *)
(* lost it.                                                                *)
LocksOK ==
    /\ job.state # "active" => job.holder = NoWorker
    /\ IsFiniteSet(Loose) /\ Cardinality(Loose) <= env.lockLosses

(* A standing request to cancel leaves every ready execution one step to   *)
(* begin; it is replaced only by the end of the run.                       *)
LateOK ==
    /\ fx.cancel = "none" => fx.lateStarts = 0 /\ status # "CANCEL_REQUESTED"
    /\ fx.cancel = "standing" =>
         /\ status \in {"CANCEL_REQUESTED", "CANCELLED"}
         /\ fx.lateStarts + Cardinality(Ready) <= 1 + env.lockLosses
    /\ fx.cancel = "overwritten" =>
         /\ status \in RunTerminal
         /\ env.lockLosses = 0 => fx.lateStarts <= 1

LEMMA LossesTyped == TypeOK => env.lockLosses \in Nat /\ fx.lateStarts \in Nat
BY BoundsAssumption DEF TypeOK, Environment, Effects

(* Losses of the lock are counted.                                         *)
LEMMA LossesGrow ==
    ASSUME Typed, [Next]_vars
    PROVE  env'.lockLosses = IF LockLost THEN env.lockLosses + 1 ELSE env.lockLosses
<1>. env \in Environment
  BY DEF Typed, TypeOK
<1>. env.lockLosses \in Nat
  BY BoundsAssumption DEF Environment
<1>1. CASE UNCHANGED vars
  BY <1>1 DEF vars, LockLost, Environment
<1>2. CASE CreateRun \/ Enqueue \/ Stall
  BY <1>2 DEF CreateRun, Enqueue, Stall, LockLost, Environment
<1>3. CASE EnqueueFails \/ Cancel
  BY <1>3 DEF EnqueueFails, Cancel, LockLost, Environment
<1>4. CASE LockLost
  BY <1>4 DEF LockLost, Environment
<1>5. ASSUME NEW w \in Workers, Pick(w) \/ Crash(w) \/ DatabaseFault(w)
      PROVE  env'.lockLosses = env.lockLosses /\ ~LockLost
  BY <1>5 DEF Pick, Crash, DatabaseFault, LockLost, Environment
<1>6. ASSUME NEW w \in Workers, Work(w)
      PROVE  env'.lockLosses = env.lockLosses /\ ~LockLost
  BY <1>6, WorkKeepsEnvironment DEF LockLost, Environment
<1>. QED
  BY <1>1, <1>2, <1>3, <1>4, <1>5, <1>6 DEF Next

(* Nobody begins to work without the lock but by losing it.                *)
LEMMA LooseStep ==
    ASSUME Typed, RequestOK, LocksOK, [Next]_vars
    PROVE  /\ job'.state # "active" => job'.holder = NoWorker
           /\ Loose' \subseteq Loose \cup (IF LockLost THEN {job.holder} ELSE {})
<1>. job \in Job /\ exec \in [Workers -> Execution]
  BY DEF Typed, TypeOK
<1>. DEFINE Goal == /\ job'.state # "active" => job'.holder = NoWorker
                    /\ \A v \in Workers : exec'[v].pc # "idle" /\ job'.holder # v =>
                          exec[v].pc # "idle" /\ job.holder # v
<1>0. /\ job.state # "active" => job.holder = NoWorker
      /\ NoWorker \notin Workers
  BY WorkersAssumption DEF LocksOK
<1>. USE <1>0
<1>1. CASE UNCHANGED vars
  <2>. Goal
    BY <1>1 DEF vars
  <2>. QED
    BY DEF Loose
<1>2. CASE CreateRun \/ EnqueueFails \/ Cancel
  <2>. Goal
    BY <1>2 DEF CreateRun, EnqueueFails, Cancel
  <2>. QED
    BY DEF Loose
<1>3. CASE Enqueue
  <2>. Goal
    BY <1>3 DEF Enqueue, RequestOK, Job
  <2>. QED
    BY DEF Loose
<1>4. CASE Stall
  <2>. Goal
    BY <1>4 DEF Stall, Requeue, Job
  <2>. QED
    BY DEF Loose
<1>5. CASE LockLost
  BY <1>5 DEF LockLost, Requeue, Job, Loose
<1>6. ASSUME NEW w \in Workers, Pick(w) PROVE Goal
  <2>1. job'.holder = w /\ job'.state = "active" /\ job.holder = NoWorker
    BY <1>6 DEF Pick, Job
  <2>2. \A v \in Workers \ {w} : exec'[v] = exec[v]
    BY <1>6 DEF Pick
  <2>. QED
    BY <2>1, <2>2
<1>7. ASSUME NEW w \in Workers, Crash(w) PROVE Goal
  <2>1. exec'[w].pc = "idle" /\ \A v \in Workers \ {w} : exec'[v] = exec[v]
    BY <1>7 DEF Crash, Idle
  <2>2. \/ job.holder # w /\ job' = job
        \/ job.holder = w /\ job' = [job EXCEPT !.holder = NoWorker]
    BY <1>7 DEF Crash
  <2>3. /\ job'.state = job.state
        /\ job'.holder = IF job.holder = w THEN NoWorker ELSE job.holder
    BY <2>2 DEF Job
  <2>. QED
    BY <2>1, <2>2, <2>3
<1>8. ASSUME NEW w \in Workers, Work(w) \/ DatabaseFault(w) PROVE Goal
  <2>1. \/ job' = job
        \/ job.holder = w /\ job'.holder = NoWorker /\ exec'[w].pc = "idle"
    BY <1>8, WorkerWritesJob, WorkerMoves
  <2>2. exec[w].pc # "idle" /\ \A v \in Workers \ {w} : exec'[v] = exec[v]
    BY <1>8, WorkerMoves
  <2>. QED
    BY <2>1, <2>2
<1>9. ASSUME NEW w \in Workers, Pick(w) \/ Work(w) \/ DatabaseFault(w) \/ Crash(w)
      PROVE  Loose' \subseteq Loose /\ (job'.state # "active" => job'.holder = NoWorker)
  BY <1>6, <1>7, <1>8, <1>9 DEF Loose
<1>. QED
  BY <1>1, <1>2, <1>3, <1>4, <1>5, <1>9 DEF Next

LEMMA LocksStep == Typed /\ RequestOK /\ LocksOK /\ [Next]_vars => LocksOK'
<1>. SUFFICES ASSUME Typed, RequestOK, LocksOK, [Next]_vars PROVE LocksOK'
  OBVIOUS
<1>. env.lockLosses \in Nat /\ IsFiniteSet(Loose) /\ Cardinality(Loose) <= env.lockLosses
  BY LossesTyped DEF Typed, LocksOK
<1>1. CASE LockLost
  <2>1. Loose' \subseteq Loose \cup {job.holder}
    BY <1>1, LooseStep
  <2>2. IsFiniteSet(Loose') /\ Cardinality(Loose') <= env.lockLosses + 1
    BY <2>1, OneMoreElement
  <2>. QED
    BY <1>1, <2>2, LooseStep, LossesGrow DEF LocksOK
<1>2. CASE ~LockLost
  <2>1. Loose' \subseteq Loose
    BY <1>2, LooseStep
  <2>2. IsFiniteSet(Loose') /\ Cardinality(Loose') <= env.lockLosses
    BY <2>1, SmallerSet
  <2>. QED
    BY <1>2, <2>2, LooseStep, LossesGrow DEF LocksOK
<1>. QED
  BY <1>1, <1>2

(* A ready execution holds the lock or has lost it.                        *)
LEMMA ReadyBound ==
    ASSUME Typed, LocksOK
    PROVE  /\ IsFiniteSet(Ready) /\ Cardinality(Ready) \in Nat
           /\ Cardinality(Ready) <= 1 + env.lockLosses
<1>1. env.lockLosses \in Nat
  BY LossesTyped DEF Typed
<1>2. Ready \subseteq Loose \cup {job.holder}
  BY DEF Ready, Loose
<1>3. IsFiniteSet(Ready) /\ Cardinality(Ready) <= env.lockLosses + 1
  BY <1>1, <1>2, OneMoreElement DEF LocksOK
<1>. QED
  BY <1>1, <1>3, FS_CardinalityType

(* What a step does to the history of the request to cancel.               *)
LEMMA CancelMoves ==
    ASSUME Typed, RequestOK, [Next]_vars
    PROVE  \/ Cancel
           \/ /\ fx'.cancel = fx.cancel
              /\ status' = "CANCEL_REQUESTED" => status = "CANCEL_REQUESTED"
              /\ fx.cancel = "standing" /\ status \in {"CANCEL_REQUESTED", "CANCELLED"}
                   => status' \in {"CANCEL_REQUESTED", "CANCELLED"}
              /\ status \in RunTerminal => status' \in RunTerminal
           \/ /\ fx.cancel = "standing" /\ fx'.cancel = "overwritten"
              /\ status' \in RunTerminal
<1>. fx \in Effects
  BY DEF Typed, TypeOK
<1>1. CASE UNCHANGED vars
  BY <1>1 DEF vars
<1>2. CASE CreateRun
  BY <1>2 DEF CreateRun, RequestOK, RunTerminal
<1>3. CASE Enqueue \/ EnqueueFails \/ Cancel \/ Stall \/ LockLost
  BY <1>3 DEF Enqueue, EnqueueFails, Stall, LockLost
<1>4. ASSUME NEW w \in Workers, Pick(w) \/ Crash(w) \/ DatabaseFault(w)
      PROVE  status' = status /\ fx' = fx
  BY <1>4 DEF Pick, Crash, DatabaseFault
<1>5. ASSUME NEW w \in Workers, CompleteRun(w) \/ HandleError(w)
      PROVE  /\ status' \in RunTerminal
             /\ fx'.cancel = IF fx.cancel = "standing" /\ status' # "CANCELLED"
                             THEN "overwritten" ELSE fx.cancel
  <2>1. Finish(status') /\ status' \in RunTerminal
    BY <1>5 DEF CompleteRun, HandleError, Finish, FinalStatus, RunTerminal
  <2>. QED
    BY <2>1 DEF Finish, Effects
<1>6. ASSUME NEW w \in Workers, Work(w), ~CompleteRun(w), ~HandleError(w)
      PROVE  /\ fx'.cancel = fx.cancel
             /\ \/ status' = status
                \/ status \in {"QUEUED", "RUNNING"} /\ status' = "RUNNING"
  <2>1. \/ status' = status
        \/ status \in {"QUEUED", "RUNNING"} /\ status' = "RUNNING"
    BY <1>6, WorkerWritesStatus
  <2>2. fx'.cancel = fx.cancel
    <3>1. CASE ExecuteDraft(w)
      BY <3>1 DEF ExecuteDraft, Effects
    <3>2. CASE SaveReview(w)
      BY <3>2 DEF SaveReview, Effects
    <3>3. CASE PersistStep(w)
      BY <3>3 DEF PersistStep, Effects
    <3>4. CASE StartStep(w)
      BY <3>4 DEF StartStep, CountLateStart, Effects
    <3>5. CASE ~ExecuteDraft(w) /\ ~SaveReview(w) /\ ~PersistStep(w) /\ ~StartStep(w)
      BY <1>6, <3>5 DEF Work, BuildGraph, LoadRun, PassNode, CheckStep, FindStep,
         ExecuteSkip, ExecuteTools, ExecuteModel, ExecuteFails, FailStep, JobDone, JobFailed
    <3>. QED
      BY <3>1, <3>2, <3>3, <3>4, <3>5
  <2>. QED
    BY <2>1, <2>2
<1>7. "CANCELLED" \in RunTerminal /\ {"CANCEL_REQUESTED", "QUEUED", "RUNNING"} \cap RunTerminal = {}
  BY DEF RunTerminal
<1>8. ASSUME NEW w \in Workers, CompleteRun(w) \/ HandleError(w)
      PROVE  \/ /\ fx'.cancel = fx.cancel
                /\ status' # "CANCEL_REQUESTED" /\ status' \in RunTerminal
                /\ fx.cancel = "standing" => status' = "CANCELLED"
             \/ /\ fx.cancel = "standing" /\ fx'.cancel = "overwritten"
                /\ status' \in RunTerminal
  BY <1>5, <1>7, <1>8
<1>9. ASSUME NEW w \in Workers, Work(w), ~CompleteRun(w), ~HandleError(w)
      PROVE  /\ fx'.cancel = fx.cancel
             /\ status' = "CANCEL_REQUESTED" => status = "CANCEL_REQUESTED"
             /\ status \in {"CANCEL_REQUESTED", "CANCELLED"} \cup RunTerminal => status' = status
  BY <1>6, <1>7, <1>9
<1>. QED
  BY <1>1, <1>2, <1>3, <1>4, <1>8, <1>9 DEF Next

(* Beginning a step: the execution was ready and is not any more.          *)
LEMMA StartBegins ==
    ASSUME Typed, NEW w \in Workers, StartStep(w)
    PROVE  /\ w \in Ready /\ exec'[w].pc \in {"execute", "handle"}
           /\ UNCHANGED <<config, api, job, env, status>>
           /\ fx'.lateStarts \in {fx.lateStarts, fx.lateStarts + 1}
           /\ fx.cancel = "none" => fx'.lateStarts = fx.lateStarts
           /\ fx'.cancel = fx.cancel
<1>. exec \in [Workers -> Execution] /\ fx \in Effects
  BY DEF Typed, TypeOK
<1>1. w \in Ready
  BY DEF StartStep, Ready
<1>2. exec'[w].pc \in {"execute", "handle"}
  BY GoToMoves, RaiseMoves, Members DEF StartStep, Stepping
<1>3. UNCHANGED <<config, api, job, env, status>>
  BY DEF StartStep, envVars
<1>4. CASE CountLateStart
  BY <1>1, <1>2, <1>3, <1>4 DEF CountLateStart, Effects
<1>5. CASE UNCHANGED fx
  BY <1>1, <1>2, <1>3, <1>5
<1>. QED
  BY <1>4, <1>5 DEF StartStep

(* No other step counts a late start.                                      *)
LEMMA OnlyStartCounts ==
    ASSUME Typed, [Next]_vars, \A w \in Workers : ~StartStep(w)
    PROVE  fx'.lateStarts = fx.lateStarts
<1>. fx \in Effects
  BY DEF Typed, TypeOK
<1>1. CASE UNCHANGED vars
  BY <1>1 DEF vars
<1>2. CASE CreateRun \/ Enqueue \/ EnqueueFails \/ Cancel \/ Stall \/ LockLost
  BY <1>2, CancelNoted
  DEF CreateRun, Enqueue, EnqueueFails, Stall, LockLost, SameEffects
<1>3. ASSUME NEW w \in Workers, Pick(w) \/ Crash(w) \/ DatabaseFault(w) PROVE fx' = fx
  BY <1>3 DEF Pick, Crash, DatabaseFault
<1>4. ASSUME NEW w \in Workers, Work(w) PROVE fx'.lateStarts = fx.lateStarts
  <2>1. CASE ExecuteDraft(w)
    BY <2>1 DEF ExecuteDraft, Effects
  <2>2. CASE SaveReview(w)
    BY <2>2 DEF SaveReview, Effects
  <2>3. CASE PersistStep(w)
    BY <2>3 DEF PersistStep, Effects
  <2>4. CASE CompleteRun(w) \/ HandleError(w)
    BY <2>4, CancelNoted DEF SameEffects
  <2>5. CASE /\ ~ExecuteDraft(w) /\ ~SaveReview(w) /\ ~PersistStep(w)
             /\ ~CompleteRun(w) /\ ~HandleError(w)
    BY <1>4, <2>5 DEF Work, BuildGraph, LoadRun, PassNode, CheckStep, FindStep,
       ExecuteSkip, ExecuteTools, ExecuteModel, ExecuteFails, FailStep, JobDone, JobFailed
  <2>. QED
    BY <2>1, <2>2, <2>3, <2>4, <2>5
<1>. QED
  BY <1>1, <1>2, <1>3, <1>4 DEF Next

(* After a request to cancel no execution becomes ready.                   *)
LEMMA NoneBecomesReady ==
    ASSUME Typed, RequestOK, [Next]_vars, status \in {"CANCEL_REQUESTED", "CANCELLED"}
    PROVE  Ready' \subseteq Ready
<1>. exec \in [Workers -> Execution]
  BY DEF Typed, TypeOK
<1>. SUFFICES ASSUME NEW v \in Workers, exec'[v].pc \in {"find", "create", "reset"}
              PROVE  exec[v].pc \in {"find", "create", "reset"}
  BY DEF Ready
<1>1. CASE UNCHANGED exec
  BY <1>1
<1>2. ASSUME NEW w \in Workers, Pick(w) \/ Crash(w)
      PROVE  exec[v].pc \in {"find", "create", "reset"}
  BY <1>2 DEF Pick, Crash, Started, Idle
<1>3. ASSUME NEW w \in Workers, Work(w) \/ DatabaseFault(w)
      PROVE  exec[v].pc \in {"find", "create", "reset"}
  <2>1. CASE v # w
    BY <1>3, <2>1, WorkerMoves
  <2>2. CASE v = w
    <3>1. ~BuildGraph(w) /\ ~LoadRun(w) /\ ~ExecuteSkip(w) /\ ~SaveReview(w)
          /\ ~FailStep(w) /\ ~CompleteRun(w) /\ ~HandleError(w)
      BY <2>2, GoToMoves, Members
      DEF BuildGraph, LoadRun, ExecuteSkip, SaveReview, FailStep, CompleteRun,
          HandleError, Stepping
    <3>2. ~PassNode(w) /\ ~PersistStep(w) /\ ~ExecuteFails(w) /\ ~DatabaseFault(w)
      BY <2>2, GoToMoves, RaiseMoves, AdvanceMoves, Members
      DEF PassNode, PersistStep, ExecuteFails, DatabaseFault, Stepping, Typed, PlaceOK, Node
    <3>3. ~CheckStep(w)
      BY <2>2, RaiseMoves, Members DEF CheckStep
    <3>4. ~ExecuteTools(w) /\ ~ExecuteModel(w)
      <4>1. ExecuteTools(w) => exec'[w].pc = "persist"
        BY DEF ExecuteTools, Execution
      <4>2. ExecuteModel(w) => exec'[w].pc = "persist"
        BY DEF ExecuteModel, Execution
      <4>. QED
        BY <2>2, <4>1, <4>2
    <3>5. ~ExecuteDraft(w)
      BY <2>2, RaiseMoves, Members DEF ExecuteDraft, Execution, Stepping
    <3>6. ~JobDone(w) /\ ~JobFailed(w)
      BY <1>3, <2>2, WorkerMoves
    <3>7. FindStep(w) \/ StartStep(w)
      BY <1>3, <3>1, <3>2, <3>3, <3>4, <3>5, <3>6 DEF Work
    <3>. QED
      BY <2>2, <3>7 DEF FindStep, StartStep
  <2>. QED
    BY <2>1, <2>2
<1>. QED
  BY <1>1, <1>2, <1>3
  DEF Next, vars, CreateRun, Enqueue, EnqueueFails, Cancel, Stall, LockLost

LEMMA LateStep == Inv /\ LocksOK /\ LateOK /\ [Next]_vars => LateOK'
<1>. SUFFICES ASSUME Inv, LocksOK, LateOK, [Next]_vars PROVE LateOK'
  OBVIOUS
<1>. Typed /\ RequestOK /\ fx.cancel \in {"none", "standing", "overwritten"}
  BY DEF Inv, Typed, TypeOK, Effects
<1>. /\ env.lockLosses \in Nat /\ fx.lateStarts \in Nat
     /\ IsFiniteSet(Ready) /\ Cardinality(Ready) \in Nat
     /\ Cardinality(Ready) <= 1 + env.lockLosses
  BY LossesTyped, ReadyBound DEF Typed
<1>0. /\ env'.lockLosses \in Nat /\ env'.lockLosses >= env.lockLosses
      /\ IsFiniteSet(Ready') /\ Cardinality(Ready') \in Nat
      /\ Cardinality(Ready') <= 1 + env'.lockLosses
  <2>1. Typed' /\ LocksOK'
    BY TypedStep, LocksStep
  <2>2. env'.lockLosses \in Nat /\ env'.lockLosses >= env.lockLosses
    BY LossesGrow
  <2>3. Ready' \subseteq Loose' \cup {job'.holder}
    BY DEF Ready, Loose
  <2>4. IsFiniteSet(Loose') /\ Cardinality(Loose') <= env'.lockLosses
    BY <2>1 DEF LocksOK
  <2>5. IsFiniteSet(Ready') /\ Cardinality(Ready') <= env'.lockLosses + 1
    BY <2>2, <2>3, <2>4, OneMoreElement
  <2>. QED
    BY <2>2, <2>5, FS_CardinalityType
<1>1. CASE \A w \in Workers : ~StartStep(w)
  <2>1. fx'.lateStarts = fx.lateStarts
    BY <1>1, OnlyStartCounts
  <2>2. CASE Cancel
    <3>1. fx.cancel = "none"
      BY <2>2 DEF Cancel, LateOK, RunTerminal
    <3>2. fx'.cancel = "standing" /\ status' = "CANCEL_REQUESTED"
      BY <2>2 DEF Cancel, Typed, TypeOK, Effects
    <3>. QED
      BY <1>0, <2>1, <3>1, <3>2 DEF LateOK
  <2>3. CASE fx.cancel = "standing" /\ fx'.cancel = "overwritten" /\ status' \in RunTerminal
    <3>1. fx.lateStarts <= 1 + env.lockLosses
      BY <2>3 DEF LateOK
    <3>. QED
      BY <1>0, <2>1, <2>3, <3>1 DEF LateOK
  <2>4. CASE ~Cancel /\ ~(fx.cancel = "standing" /\ fx'.cancel = "overwritten")
    <3>1. fx'.cancel = fx.cancel
      BY <2>4, CancelMoves
    <3>2. CASE fx.cancel = "none"
      BY <2>1, <2>4, <3>1, <3>2, CancelMoves DEF LateOK
    <3>3. CASE fx.cancel = "standing"
      <4>1. /\ status \in {"CANCEL_REQUESTED", "CANCELLED"}
            /\ fx.lateStarts + Cardinality(Ready) <= 1 + env.lockLosses
        BY <3>3 DEF LateOK
      <4>2. Cardinality(Ready') <= Cardinality(Ready)
        BY <4>1, NoneBecomesReady, FS_Subset
      <4>3. status' \in {"CANCEL_REQUESTED", "CANCELLED"}
        BY <2>4, <3>3, <4>1, CancelMoves
      <4>. QED
        BY <1>0, <2>1, <3>1, <3>3, <4>1, <4>2, <4>3 DEF LateOK
    <3>4. CASE fx.cancel = "overwritten"
      <4>1. status' \in RunTerminal
        BY <2>4, <3>4, CancelMoves DEF LateOK
      <4>. QED
        BY <1>0, <2>1, <3>1, <3>4, <4>1 DEF LateOK
    <3>. QED
      BY <3>2, <3>3, <3>4
  <2>. QED
    BY <2>2, <2>3, <2>4, CancelMoves
<1>2. ASSUME NEW w \in Workers, StartStep(w) PROVE LateOK'
  <2>1. /\ fx'.cancel = fx.cancel /\ status' = status /\ env' = env
        /\ fx'.lateStarts \in Nat /\ fx'.lateStarts <= fx.lateStarts + 1
        /\ fx.cancel = "none" => fx'.lateStarts = fx.lateStarts
        /\ w \in Ready
    BY <1>2, StartBegins
  <2>2. CASE fx.cancel = "none"
    BY <2>1, <2>2 DEF LateOK
  <2>3. CASE fx.cancel = "standing"
    <3>0. /\ status \in {"CANCEL_REQUESTED", "CANCELLED"}
          /\ fx.lateStarts + Cardinality(Ready) <= 1 + env.lockLosses
      BY <2>3 DEF LateOK
    <3>1. w \in Ready /\ w \notin Ready' /\ Ready' \subseteq Ready
      BY <1>2, <3>0, StartBegins, NoneBecomesReady DEF Ready
    <3>2. Ready' \subseteq Ready \ {w}
      BY <3>1
    <3>3. IsFiniteSet(Ready \ {w}) /\ Cardinality(Ready \ {w}) = Cardinality(Ready) - 1
      BY <3>1, FS_RemoveElement
    <3>4. Cardinality(Ready') <= Cardinality(Ready) - 1
      BY <3>2, <3>3, FS_Subset
    <3>. QED
      BY <1>0, <2>1, <2>3, <3>0, <3>4 DEF LateOK
  \* Without a lost lock the execution that ended the run was the only one.
  <2>4. CASE fx.cancel = "overwritten"
    <3>1. status \in RunTerminal
      BY <2>4 DEF LateOK
    <3>2. env.lockLosses # 0
      BY <2>1, <3>1 DEF Inv, Progress, ProgressOf, Ready, Stepping, RunTerminal
    <3>. QED
      BY <2>1, <2>4, <3>1, <3>2 DEF LateOK
  <2>. QED
    BY <2>2, <2>3, <2>4
<1>. QED
  BY <1>1, <1>2

-----------------------------------------------------------------------------
(* Limits: the token budget of an uninterrupted run.                       *)

Calm == env.faults + env.crashes + env.lockLosses = 0

(* The places at which an execution may still complete the run.            *)
Going == {"node"} \cup (Stepping \ {"fail"})

(* The one execution that gets past the loading of the run has spent       *)
(* nothing before its model call, and no more than the budget if it goes   *)
(* on after it.                                                            *)
BudgetOK ==
    Calm /\ config.maxTokens # NoLimit =>
      /\ status \in {"NONE", "QUEUED"} => fx.spent = 0
      /\ status = "RUNNING" =>
           \E w \in Workers : exec[w].pc \in {"node", "handle"} \cup Stepping
      /\ \A w \in Workers : exec[w].pc \in Going =>
           IF exec[w].at <= Generate THEN fx.spent = 0 ELSE fx.spent <= config.maxTokens
      /\ status = "COMPLETED" => fx.spent <= config.maxTokens

(* Whatever interrupts an execution is counted.                            *)
LEMMA CalmBefore ==
    ASSUME Typed, [Next]_vars, Calm'
    PROVE  /\ Calm /\ env.lockLosses = 0 /\ ~EnqueueFails /\ ~LockLost
           /\ \A w \in Workers : ~Crash(w) /\ ~DatabaseFault(w)
<1>. env \in Environment /\ env.faults \in Nat /\ env.crashes \in Nat /\ env.lockLosses \in Nat
  BY BoundsAssumption DEF Typed, TypeOK, Environment
<1>. env'.faults + env'.crashes + env'.lockLosses = 0
  BY DEF Calm
<1>1. ~EnqueueFails /\ ~LockLost
  BY DEF EnqueueFails, LockLost, Environment
<1>2. \A w \in Workers : ~Crash(w) /\ ~DatabaseFault(w)
  BY DEF Crash, DatabaseFault, Environment
<1>3. env' = env
  BY <1>1, <1>2, WorkKeepsEnvironment
  DEF Next, vars, CreateRun, Enqueue, Cancel, Stall, Pick
<1>. QED
  BY <1>1, <1>2, <1>3 DEF Calm

(* Where a step of a worker may lead it.                                   *)
LEMMA WorkLeads ==
    ASSUME Typed, NEW w \in Workers, Work(w)
    PROVE  /\ exec'[w].pc \in Going =>
                \/ /\ exec[w].pc = "load" /\ exec'[w].at = 1
                   /\ status \in {"QUEUED", "RUNNING"}
                \/ exec[w].pc \in Going /\ exec'[w].at \in {exec[w].at, exec[w].at + 1}
           /\ exec[w].pc \in {"node", "handle"} \cup Stepping =>
                \/ exec'[w].pc \in {"node", "handle"} \cup Stepping
                \/ status' \in RunTerminal
           /\ status' = "RUNNING" /\ status # "RUNNING" => exec'[w].pc = "node"
<1>. exec \in [Workers -> Execution] /\ "load" \notin Stepping /\ "graph" \notin Stepping
  BY DEF Typed, TypeOK, Stepping
<1>. exec[w].pc \in Stepping => exec[w].at \in Nodes
  BY DEF Typed, PlaceOK
<1>. USE Members DEF Going, Stepping
<1>1. CASE BuildGraph(w)
  BY <1>1, GoToMoves DEF BuildGraph
<1>2. CASE LoadRun(w)
  <2>1. exec[w].pc = "load" /\ exec[w].at = 1
    BY <1>2 DEF LoadRun, Typed, PlaceOK
  <2>. QED
    BY <1>2, <2>1, GoToMoves DEF LoadRun
<1>3. CASE PassNode(w)
  BY <1>3, AdvanceMoves DEF PassNode, Node
<1>4. CASE CheckStep(w)
  BY <1>4, GoToMoves, RaiseMoves DEF CheckStep
<1>5. CASE FindStep(w)
  BY <1>5, GoToMoves, AdvanceMoves DEF FindStep
<1>6. CASE StartStep(w)
  BY <1>6, GoToMoves, RaiseMoves DEF StartStep
<1>7. CASE ExecuteSkip(w)
  BY <1>7, GoToMoves DEF ExecuteSkip
<1>8. CASE ExecuteTools(w)
  <2>1. exec'[w].pc = "persist" /\ exec'[w].at = exec[w].at
    BY <1>8 DEF ExecuteTools, Execution
  <2>. QED
    BY <1>8, <2>1 DEF ExecuteTools
<1>9. CASE ExecuteModel(w)
  <2>1. exec'[w].pc = "persist" /\ exec'[w].at = exec[w].at
    BY <1>9 DEF ExecuteModel, Execution
  <2>. QED
    BY <1>9, <2>1 DEF ExecuteModel
<1>10. CASE ExecuteDraft(w)
  <2>1. exec'[w].pc \in {"review", "fail"} /\ exec'[w].at = exec[w].at
    BY <1>10, RaiseMoves DEF ExecuteDraft, Execution
  <2>. QED
    BY <1>10, <2>1 DEF ExecuteDraft
<1>11. CASE SaveReview(w)
  BY <1>11, GoToMoves DEF SaveReview
<1>12. CASE ExecuteFails(w)
  BY <1>12, RaiseMoves DEF ExecuteFails
<1>13. CASE PersistStep(w)
  BY <1>13, AdvanceMoves, RaiseMoves DEF PersistStep
<1>14. CASE FailStep(w)
  BY <1>14, GoToMoves DEF FailStep
<1>15. CASE CompleteRun(w)
  BY <1>15, GoToMoves DEF CompleteRun, Finish, RunTerminal
<1>16. CASE HandleError(w)
  BY <1>16, GoToMoves DEF HandleError, Finish, FinalStatus, RunTerminal
<1>17. CASE JobDone(w) \/ JobFailed(w)
  <2>1. exec'[w].pc = "idle" /\ exec[w].pc \in {"ack", "nack"} /\ status' = status
    BY <1>17, WorkerMoves DEF JobDone, JobFailed
  <2>. QED
    BY <2>1
<1>. QED
  BY <1>1, <1>2, <1>3, <1>4, <1>5, <1>6, <1>7, <1>8, <1>9, <1>10, <1>11, <1>12, <1>13,
     <1>14, <1>15, <1>16, <1>17 DEF Work

(* Tokens are booked when the answer is stored, and nowhere else.          *)
LEMMA TokensBooked ==
    ASSUME Typed, NEW w \in Workers, Work(w)
    PROVE  \/ fx'.spent = fx.spent
           \/ /\ PersistStep(w) /\ exec[w].at = Generate
              /\ fx'.spent = fx.spent + exec[w].tokens
<1>. fx \in Effects
  BY DEF Typed, TypeOK
<1>1. CASE ExecuteDraft(w)
  BY <1>1 DEF ExecuteDraft, Effects
<1>2. CASE SaveReview(w)
  BY <1>2 DEF SaveReview, Effects
<1>3. CASE PersistStep(w)
  BY <1>3 DEF PersistStep, Node, Effects
<1>4. CASE StartStep(w)
  BY <1>4 DEF StartStep, CountLateStart, Effects
<1>5. CASE CompleteRun(w) \/ HandleError(w)
  BY <1>5, CancelNoted DEF SameEffects
<1>6. CASE /\ ~ExecuteDraft(w) /\ ~SaveReview(w) /\ ~PersistStep(w) /\ ~StartStep(w)
           /\ ~CompleteRun(w) /\ ~HandleError(w)
  BY <1>6 DEF Work, BuildGraph, LoadRun, PassNode, CheckStep, FindStep,
     ExecuteSkip, ExecuteTools, ExecuteModel, ExecuteFails, FailStep, JobDone, JobFailed
<1>. QED
  BY <1>1, <1>2, <1>3, <1>4, <1>5, <1>6

(* A step of the one execution keeps the account.                          *)
LEMMA BudgetWork ==
    ASSUME Inv, BudgetOK, Calm, env.lockLosses = 0, config.maxTokens # NoLimit,
           NEW w \in Workers, Work(w)
    PROVE  BudgetOK'
<1>. DEFINE limit == config.maxTokens
<1>0. /\ Typed /\ ExclusiveExecution /\ ProgressOf(w) /\ exec[w].at \in 1..8
      /\ fx.spent \in Nat /\ exec[w].tokens \in Nat /\ limit \in Nat
  BY ConfigsAssumption
  DEF Inv, Progress, Typed, TypeOK, Effects, Execution, Config
<1>1. /\ status \in {"NONE", "QUEUED"} => fx.spent = 0
      /\ status = "RUNNING" =>
           \E v \in Workers : exec[v].pc \in {"node", "handle"} \cup Stepping
      /\ exec[w].pc \in Going =>
           IF exec[w].at <= Generate THEN fx.spent = 0 ELSE fx.spent <= limit
      /\ status = "COMPLETED" => fx.spent <= limit
  BY DEF BudgetOK
<1>2. /\ exec[w].pc # "idle" /\ config' = config
      /\ \A v \in Workers \ {w} : exec[v].pc = "idle" /\ exec'[v].pc = "idle"
  <2>1. config' = config
    BY DEF Work, BuildGraph, LoadRun, PassNode, CheckStep, FindStep, StartStep,
       ExecuteSkip, ExecuteTools, ExecuteModel, ExecuteDraft, SaveReview,
       ExecuteFails, PersistStep, FailStep, CompleteRun, HandleError, JobDone,
       JobFailed, envVars
  <2>. QED
    BY <1>0, <2>1, WorkerMoves DEF ExclusiveExecution
<1>. "idle" \notin {"node", "handle"} \cup Stepping
     /\ "load" \notin {"node", "handle"} \cup Stepping
     /\ "idle" \notin Going /\ "load" \notin Going
  BY DEF Stepping, Going
<1>3. exec[w].pc = "load" /\ status \in {"QUEUED", "RUNNING"} => fx.spent = 0
  BY <1>1, <1>2
<1>4. status' = "RUNNING" =>
         \E v \in Workers : exec'[v].pc \in {"node", "handle"} \cup Stepping
  BY <1>0, <1>1, <1>2, WorkLeads DEF RunTerminal
<1>5. CASE fx'.spent = fx.spent
  <2>1. exec'[w].pc \in Going =>
           IF exec'[w].at <= Generate THEN fx'.spent = 0 ELSE fx'.spent <= limit
    <3>1. CASE exec[w].pc = "load" /\ exec'[w].at = 1 /\ status \in {"QUEUED", "RUNNING"}
      BY <1>0, <1>3, <1>5, <3>1
    <3>2. CASE exec[w].pc \in Going /\ exec'[w].at \in {exec[w].at, exec[w].at + 1}
      BY <1>0, <1>1, <1>5, <3>2 DEF Generate
    <3>. QED
      BY <1>0, <3>1, <3>2, WorkLeads
  <2>2. status' \in {"NONE", "QUEUED"} => fx'.spent = 0
    BY <1>1, <1>5, WorkerWritesStatus DEF RunTerminal
  <2>3. status' = "COMPLETED" => fx'.spent <= limit
    <3>1. CASE status' = status
      BY <1>1, <1>5, <3>1
    <3>2. CASE CompleteRun(w)
      <4>1. exec[w].pc \in Going /\ exec[w].at = 8
        BY <3>2 DEF CompleteRun, Node, CompleteNode, Going
      <4>. QED
        BY <1>1, <1>5, <4>1 DEF Generate
    <3>3. CASE HandleError(w)
      BY <3>3 DEF HandleError, Finish, FinalStatus
    <3>. QED
      BY <3>1, <3>2, <3>3, WorkerWritesStatus
  <2>. QED
    BY <1>2, <1>4, <2>1, <2>2, <2>3 DEF BudgetOK
<1>6. CASE PersistStep(w) /\ exec[w].at = Generate /\ fx'.spent = fx.spent + exec[w].tokens
  <2>1. exec[w].pc = "persist" /\ exec[w].pc \in Going /\ exec[w].pc \in Stepping
    BY <1>6 DEF PersistStep, Going, Stepping
  <2>2. fx'.spent = exec[w].tokens
    BY <1>0, <1>1, <1>6, <2>1 DEF Generate
  <2>3. status' = status /\ status \in {"RUNNING", "CANCEL_REQUESTED"}
    BY <1>0, <1>6, <2>1 DEF PersistStep, ProgressOf
  <2>4. CASE ~OverBudget(w) /\ Advance(w)
    <3>1. fx'.spent <= limit
      BY <1>0, <1>6, <2>2, <2>4 DEF OverBudget, Node
    <3>2. exec'[w].at = 7 /\ exec[w].at \in Nodes
      <4>1. exec[w].at \in Nodes
        BY <1>6 DEF Generate, Nodes
      <4>. QED
        BY <1>0, <1>6, <2>4, <4>1, AdvanceMoves DEF Generate, Typed, TypeOK
    <3>. QED
      BY <1>2, <1>4, <2>3, <3>1, <3>2 DEF BudgetOK, Generate
  <2>5. CASE Raise(w, "budget", "fail")
    <3>1. exec'[w].pc = "fail"
      BY <1>0, <2>5, RaiseMoves, Members DEF Stepping, Typed, TypeOK
    <3>2. exec'[w].pc \notin Going
      BY <3>1 DEF Going
    <3>. QED
      BY <1>2, <1>4, <2>3, <3>2 DEF BudgetOK
  <2>. QED
    BY <1>6, <2>4, <2>5 DEF PersistStep
<1>. QED
  BY <1>0, <1>5, <1>6, TokensBooked

LEMMA BudgetStep == Inv /\ BudgetOK /\ [Next]_vars => BudgetOK'
<1>. SUFFICES ASSUME Inv, BudgetOK, [Next]_vars, Calm', config'.maxTokens # NoLimit
              PROVE  BudgetOK'
  BY DEF BudgetOK
<1>1. /\ Typed /\ RequestOK /\ Calm /\ env.lockLosses = 0 /\ ~EnqueueFails /\ ~LockLost
      /\ \A w \in Workers : ~Crash(w) /\ ~DatabaseFault(w)
  BY CalmBefore DEF Inv
<1>. "idle" \notin Going /\ "graph" \notin Going
     /\ "idle" \notin {"node", "handle"} \cup Stepping
  BY DEF Going, Stepping
<1>2. CASE UNCHANGED <<config, status, exec, fx, env>>
  BY <1>2 DEF BudgetOK, Calm
<1>3. CASE CreateRun
  <2>1. UNCHANGED <<config, exec, fx>> /\ status = "NONE" /\ status' = "QUEUED"
    BY <1>1, <1>3 DEF CreateRun, RequestOK
  <2>. QED
    BY <1>1, <2>1 DEF BudgetOK
<1>4. CASE Cancel
  <2>1. /\ UNCHANGED <<config, exec>> /\ status' = "CANCEL_REQUESTED"
        /\ fx'.spent = fx.spent
    BY <1>1, <1>4, CancelNoted DEF Cancel, Typed, TypeOK, SameEffects
  <2>. QED
    BY <1>1, <2>1 DEF BudgetOK
<1>5. ASSUME NEW w \in Workers, Pick(w) PROVE BudgetOK'
  <2>1. UNCHANGED <<config, status, fx>> /\ exec[w].pc = "idle" /\ exec'[w].pc = "graph"
        /\ \A v \in Workers \ {w} : exec'[v] = exec[v]
    BY <1>1, <1>5 DEF Pick, Started, Idle, Typed, TypeOK
  <2>. QED
    BY <1>1, <2>1 DEF BudgetOK
<1>6. ASSUME NEW w \in Workers, Work(w) PROVE BudgetOK'
  <2>1. config.maxTokens # NoLimit
    BY <1>6 DEF Work, BuildGraph, LoadRun, PassNode, CheckStep, FindStep, StartStep,
       ExecuteSkip, ExecuteTools, ExecuteModel, ExecuteDraft, SaveReview,
       ExecuteFails, PersistStep, FailStep, CompleteRun, HandleError, JobDone,
       JobFailed, envVars
  <2>. QED
    BY <1>1, <1>6, <2>1, BudgetWork
<1>. QED
  BY <1>1, <1>2, <1>3, <1>4, <1>5, <1>6 DEF Next, vars, Enqueue, Stall

-----------------------------------------------------------------------------
(* The draft in the user's mailbox.                                        *)

(* What one execution may still do about the draft.  Once there is one,    *)
(* the lookup of the thread is done for good, and an execution that holds  *)
(* a thread has its draft behind it; every execution starts without one.   *)
DraftOf(w) ==
    /\ exec[w].pc \in {"idle", "graph", "load"} => ~exec[w].thread
    /\ fx.drafts > 0 /\ exec[w].pc \in Writing => exec[w].at > Gmail
    /\ fx.drafts > 0 /\ exec[w].thread =>
         \/ exec[w].pc \in {"handle", "ack", "nack"} \/ exec[w].at > DraftReview
         \/ exec[w].at = DraftReview /\ exec[w].pc \in {"review", "persist", "fail"}
    /\ exec[w].pc = "review" =>
         /\ exec[w].at = DraftReview
         /\ ~config.reviewTarget => fx.drafts = 1 /\ fx.reviews = 0
    /\ exec[w].pc = "persist" /\ exec[w].at = DraftReview /\ ~config.reviewTarget =>
         fx.reviews = 1

(* What the rows say about the draft. *)
DraftRows ==
    /\ fx.drafts <= 1 /\ fx.reviews <= fx.drafts
    /\ config.reviewTarget => fx.drafts = 0
    /\ fx.drafts > 0 => DraftReview \in Planned /\ StepOf(Gmail) \in Done
    /\ DraftReview \in Planned /\ ~config.reviewTarget /\ StepOf(DraftReview) = "COMPLETED"
         => fx.reviews = 1

DraftsOK == env.lockLosses = 0 => DraftRows /\ \A w \in Workers : DraftOf(w)

(* A step that neither makes a draft nor asks for a review.                *)
NoDraft == config' = config /\ fx'.drafts = fx.drafts /\ fx'.reviews = fx.reviews

LEMMA DraftReviewPlan ==
    /\ Gmail \in Nodes /\ DraftReview \in Nodes
    /\ DraftReview \in Planned => Gmail \in Planned
BY DEF Planned, Nodes, InPlan, isGmailTemplate, Retrieve, News, Gmail, Github, Usage,
       Generate, DraftReview

LEMMA ThreadKept ==
    ASSUME exec \in [Workers -> Execution], NEW w \in Workers,
           \/ \E p \in PCs : GoTo(w, p) \/ \E e \in Errors : Raise(w, e, p)
           \/ Advance(w)
    PROVE  exec'[w].thread = exec[w].thread
BY DEF GoTo, Raise, Advance, Execution

LEMMA DraftRowsQuiet ==
    ASSUME NoDraft, steps' = steps, DraftRows
    PROVE  DraftRows'
BY DEF NoDraft, DraftRows, Planned, StepOf

LEMMA DraftRowsWritten ==
    ASSUME Typed, NEW w \in Workers, exec[w].at \in Planned, exec[w].pc \in Writing,
           DraftOf(w), DraftRows, NoDraft, NEW st, WriteStep(w, st),
           exec[w].at = DraftReview /\ ~config.reviewTarget /\ st = "COMPLETED"
             => fx.reviews = 1
    PROVE  DraftRows'
<1>1. config' = config /\ Planned' = Planned
      /\ StepOf(Gmail)' = StepOfNext(Gmail) /\ StepOf(DraftReview)' = StepOfNext(DraftReview)
  BY DEF NoDraft, Planned, StepOf, StepOfNext, Gmail, DraftReview
<1>2. fx.drafts > 0 => StepOfNext(Gmail) \in Done
  <2>. SUFFICES ASSUME fx.drafts > 0 PROVE StepOfNext(Gmail) \in Done
    OBVIOUS
  <2>1. exec[w].at # Gmail
    BY DEF DraftOf, Gmail
  <2>2. Gmail \in Planned /\ StepOf(Gmail) \in Done
    BY DraftReviewPlan DEF DraftRows
  <2>. QED
    BY <1>1, <2>1, <2>2, WriteRow
<1>3. DraftReview \in Planned /\ ~config.reviewTarget /\ StepOfNext(DraftReview) = "COMPLETED"
        => fx.reviews = 1
  BY <1>1, WriteRow DEF DraftRows
<1>. QED
  BY <1>1, <1>2, <1>3 DEF NoDraft, DraftRows

(* The moves of an execution that have nothing to do with the draft.       *)
LEMMA DraftOfKept ==
    ASSUME NoDraft, NEW w \in Workers, DraftOf(w), exec[w].at \in 1..8,
           exec'[w].thread = exec[w].thread,
           exec'[w].pc = "persist" => exec'[w].at # DraftReview,
           \/ exec'[w].pc \in {"handle", "ack", "nack"}
           \/ exec[w].pc \in {"graph", "load"} /\ exec'[w].pc \in {"load", "node"}
           \/ /\ exec[w].pc \in {"node", "find", "persist"}
              /\ exec'[w].pc = "node" /\ exec'[w].at = exec[w].at + 1
           \/ /\ exec'[w].at = exec[w].at
              /\ \/ exec[w].pc = "node" /\ exec'[w].pc = "find"
                 \/ /\ exec[w].pc = "find" /\ exec'[w].pc \in {"create", "reset"}
                    /\ fx.drafts > 0 => exec[w].at > Gmail
                 \/ exec[w].pc \in {"create", "reset"} /\ exec'[w].pc = "execute"
                 \/ exec[w].pc = "execute" /\ exec'[w].pc = "persist"
                 \/ exec[w].pc \in {"execute", "review", "persist"} /\ exec'[w].pc = "fail"
    PROVE  DraftOf(w)'
<1>. USE DEF NoDraft, DraftOf, Writing, Gmail, DraftReview
<1>1. CASE exec'[w].pc \in {"handle", "ack", "nack"}
  BY <1>1
<1>2. CASE exec[w].pc \in {"graph", "load"} /\ exec'[w].pc \in {"load", "node"}
  BY <1>2
<1>3. CASE /\ exec[w].pc \in {"node", "find", "persist"}
           /\ exec'[w].pc = "node" /\ exec'[w].at = exec[w].at + 1
  BY <1>3
<1>4. CASE /\ exec'[w].at = exec[w].at
           /\ \/ exec[w].pc = "node" /\ exec'[w].pc = "find"
              \/ /\ exec[w].pc = "find" /\ exec'[w].pc \in {"create", "reset"}
                 /\ fx.drafts > 0 => exec[w].at > Gmail
              \/ exec[w].pc \in {"create", "reset"} /\ exec'[w].pc = "execute"
  BY <1>4
<1>5. CASE exec'[w].at = exec[w].at /\ exec[w].pc = "execute" /\ exec'[w].pc = "persist"
  BY <1>5
<1>6. CASE /\ exec'[w].at = exec[w].at
           /\ exec[w].pc \in {"execute", "review", "persist"} /\ exec'[w].pc = "fail"
  BY <1>6
<1>. QED
  BY <1>1, <1>2, <1>3, <1>4, <1>5, <1>6

(* A step of the worker that holds the job.                                *)
LEMMA DraftWork ==
    ASSUME Inv, env.lockLosses = 0, DraftRows, NEW w \in Workers, DraftOf(w),
           Work(w) \/ DatabaseFault(w)
    PROVE  DraftRows' /\ DraftOf(w)'
<1>0. /\ Typed /\ ProgressOf(w) /\ RowsInOrder
      /\ exec \in [Workers -> Execution] /\ fx \in Effects /\ exec[w].at \in 1..8
      /\ fx.drafts \in Nat /\ fx.reviews \in Nat
  BY DEF Inv, Progress, Typed, TypeOK, Execution, Effects
<1>1. /\ exec[w].pc \in Stepping => exec[w].at \in Planned /\ exec[w].at \in Nodes
      /\ Writing \subseteq Stepping
      /\ "node" \in PCs /\ Stepping \subseteq PCs
  BY <1>0, Members DEF Typed, PlaceOK, Planned, Writing, Stepping
<1>. USE <1>0, <1>1, Members
<1>2. CASE BuildGraph(w)
  <2>1. NoDraft /\ steps' = steps
    BY <1>2 DEF BuildGraph, NoDraft, envVars
  <2>2. exec[w].pc = "graph" /\ exec'[w].pc = "load" /\ exec'[w].thread = exec[w].thread
    BY <1>2, GoToMoves, ThreadKept DEF BuildGraph
  <2>. QED
    BY <2>1, <2>2, DraftRowsQuiet, DraftOfKept
<1>3. CASE LoadRun(w)
  <2>1. NoDraft /\ steps' = steps
    BY <1>3 DEF LoadRun, NoDraft, envVars
  <2>2. exec[w].pc = "load" /\ exec'[w].pc \in {"node", "ack"}
        /\ exec'[w].thread = exec[w].thread
    BY <1>3, GoToMoves, ThreadKept DEF LoadRun
  <2>. QED
    BY <2>1, <2>2, DraftRowsQuiet, DraftOfKept
<1>4. CASE PassNode(w)
  <2>1. NoDraft /\ steps' = steps
    BY <1>4 DEF PassNode, NoDraft, envVars
  <2>2. exec[w].pc = "node" /\ exec'[w].pc = "node" /\ exec'[w].at = exec[w].at + 1
        /\ exec'[w].thread = exec[w].thread
    BY <1>4, AdvanceMoves, ThreadKept DEF PassNode, Node
  <2>. QED
    BY <2>1, <2>2, DraftRowsQuiet, DraftOfKept
<1>5. CASE CheckStep(w)
  <2>1. NoDraft /\ steps' = steps
    BY <1>5 DEF CheckStep, NoDraft, envVars
  <2>2. exec[w].pc = "node" /\ exec'[w].pc \in {"find", "handle"} /\ exec'[w].at = exec[w].at
        /\ exec'[w].thread = exec[w].thread
    BY <1>5, GoToMoves, RaiseMoves, ThreadKept DEF CheckStep, Stepping
  <2>. QED
    BY <2>1, <2>2, DraftRowsQuiet, DraftOfKept
<1>6. CASE FindStep(w)
  <2>1. NoDraft /\ steps' = steps
    BY <1>6 DEF FindStep, NoDraft, envVars
  <2>2. exec[w].pc = "find" /\ exec[w].at \in Planned /\ exec[w].at \in Nodes
    BY <1>6 DEF FindStep, Stepping
  <2>3. StepOf(exec[w].at) = steps[Row(w)]
    BY DEF StepOf, Row, Node
  <2>4. CASE steps[Row(w)] \in Done
    <3>1. Advance(w)
      BY <1>6, <2>4 DEF FindStep, Done
    <3>2. exec'[w].pc = "node" /\ exec'[w].at = exec[w].at + 1
          /\ exec'[w].thread = exec[w].thread
      BY <2>2, <3>1, AdvanceMoves, ThreadKept
    <3>. QED
      BY <2>1, <2>2, <3>2, DraftRowsQuiet, DraftOfKept
  <2>5. CASE steps[Row(w)] \notin Done
    <3>1. exec'[w].pc \in {"create", "reset"} /\ exec'[w].at = exec[w].at
          /\ exec'[w].thread = exec[w].thread
      BY <1>6, <2>5, GoToMoves, ThreadKept DEF FindStep, Done, Stepping
    <3>2. fx.drafts > 0 => exec[w].at > Gmail
      <4>. SUFFICES ASSUME fx.drafts > 0 PROVE exec[w].at > Gmail
        OBVIOUS
      <4>1. Gmail \in Planned /\ StepOf(Gmail) \in Done
        BY DraftReviewPlan DEF DraftRows
      <4>2. exec[w].at # Gmail
        BY <2>3, <2>5, <4>1
      <4>3. ~(exec[w].at < Gmail)
        BY <2>2, <2>3, <2>5, <4>1 DEF RowsInOrder, Done
      <4>. QED
        BY <4>2, <4>3 DEF Gmail
    <3>. QED
      BY <2>1, <2>2, <3>1, <3>2, DraftRowsQuiet, DraftOfKept
  <2>. QED
    BY <2>4, <2>5
<1>7. CASE StartStep(w)
  <2>1. NoDraft
    BY <1>7 DEF StartStep, CountLateStart, NoDraft, envVars, Effects
  <2>2. CASE Raise(w, "failed", "handle") /\ UNCHANGED <<steps, fx>>
    <3>1. exec'[w].pc = "handle" /\ exec'[w].thread = exec[w].thread
      BY <2>2, RaiseMoves, ThreadKept
    <3>. QED
      BY <2>1, <2>2, <3>1, DraftRowsQuiet, DraftOfKept
  <2>3. CASE WriteStep(w, "RUNNING") /\ GoTo(w, "execute")
    <3>1. exec[w].pc \in {"create", "reset"} /\ exec[w].pc \in Writing
      BY <1>7 DEF StartStep, Writing
    <3>2. exec'[w].pc = "execute" /\ exec'[w].at = exec[w].at
          /\ exec'[w].thread = exec[w].thread
      BY <2>3, GoToMoves, ThreadKept DEF Stepping
    <3>. QED
      BY <2>1, <2>3, <3>1, <3>2, DraftRowsWritten, DraftOfKept
  <2>. QED
    BY <1>7, <2>2, <2>3 DEF StartStep
<1>8. CASE ExecuteSkip(w) \/ ExecuteModel(w) \/ (ExecuteTools(w) /\ exec[w].at # Gmail)
  <2>1. NoDraft /\ steps' = steps
    BY <1>8 DEF ExecuteSkip, ExecuteModel, ExecuteTools, NoDraft, envVars
  <2>2. exec[w].pc = "execute" /\ exec'[w].pc = "persist" /\ exec'[w].at = exec[w].at
        /\ exec'[w].thread = exec[w].thread
    <3>1. CASE ExecuteSkip(w)
      BY <3>1, GoToMoves, ThreadKept DEF ExecuteSkip, Stepping
    <3>2. CASE ExecuteModel(w)
      BY <3>2 DEF ExecuteModel, Execution
    <3>3. CASE ExecuteTools(w) /\ exec[w].at # Gmail
      BY <3>3 DEF ExecuteTools, Execution, Node
    <3>. QED
      BY <1>8, <3>1, <3>2, <3>3
  <2>3. exec[w].at # DraftReview
    <3>. USE DEF Node, Retrieve, News, Gmail, Github, Usage, Generate, DraftReview
    <3>1. ExecuteSkip(w) => exec[w].at # DraftReview
      BY DEF ExecuteSkip, SkipsStep
    <3>2. ExecuteModel(w) => exec[w].at # DraftReview
      BY DEF ExecuteModel
    <3>3. ExecuteTools(w) => exec[w].at \in {Retrieve, News, Gmail, Github, Usage}
      BY DEF ExecuteTools
    <3>. QED
      BY <1>8, <3>1, <3>2, <3>3
  <2>. QED
    BY <2>1, <2>2, <2>3, DraftRowsQuiet, DraftOfKept
<1>9. CASE ExecuteTools(w) /\ exec[w].at = Gmail
  <2>1. NoDraft /\ steps' = steps
    BY <1>9 DEF ExecuteTools, NoDraft, envVars
  <2>2. exec[w].pc = "execute" /\ exec'[w].pc = "persist" /\ exec'[w].at = exec[w].at
    BY <1>9 DEF ExecuteTools, Execution
  <2>3. fx.drafts = 0
    BY <1>9, <2>2 DEF DraftOf, Writing, Gmail
  <2>. QED
    BY <1>9, <2>1, <2>2, <2>3, DraftRowsQuiet
    DEF NoDraft, DraftOf, Gmail, DraftReview
<1>10. CASE ExecuteDraft(w)
  <2>1. /\ exec[w].pc = "execute" /\ exec[w].at = DraftReview /\ exec[w].thread
        /\ UNCHANGED <<config, steps>>
    BY <1>10 DEF ExecuteDraft, Node, envVars
  <2>2. fx.drafts = 0 /\ fx.reviews = 0
    BY <2>1 DEF DraftOf, DraftRows, DraftReview
  <2>3. /\ fx'.drafts = IF config.reviewTarget THEN 0 ELSE 1
        /\ fx'.reviews = 0
    BY <1>10, <2>2 DEF ExecuteDraft, Effects
  <2>4. exec'[w].pc \in {"review", "fail"} /\ exec'[w].at = exec[w].at
    BY <1>10, RaiseMoves DEF ExecuteDraft, Execution, Stepping
  <2>5. DraftReview \in Planned /\ StepOf(Gmail) \in Done
    <3>1. DraftReview \in Planned /\ Gmail \in Planned
      BY <2>1, DraftReviewPlan DEF Stepping
    <3>. QED
      BY <2>1, <3>1 DEF ProgressOf, Stepping, Gmail, DraftReview
  <2>6. StepOf(DraftReview) \notin Done
    BY <2>1 DEF ProgressOf, Writing
  <2>7. DraftRows'
    BY <2>1, <2>3, <2>5, <2>6 DEF DraftRows, Planned, StepOf, Done
  <2>8. DraftOf(w)'
    BY <2>1, <2>3, <2>4 DEF DraftOf, Gmail, DraftReview
  <2>. QED
    BY <2>7, <2>8
<1>11. CASE SaveReview(w)
  <2>1. /\ exec[w].pc = "review" /\ exec[w].at = DraftReview
        /\ ~config.reviewTarget => fx.drafts = 1 /\ fx.reviews = 0
        /\ UNCHANGED <<config, steps>>
    BY <1>11 DEF SaveReview, DraftOf, envVars
  <2>2. /\ fx'.drafts = fx.drafts
        /\ fx'.reviews = IF config.reviewTarget THEN fx.reviews ELSE fx.reviews + 1
    BY <1>11 DEF SaveReview, Effects
  <2>3. exec'[w].pc = "persist" /\ exec'[w].at = exec[w].at
    BY <1>11, GoToMoves DEF SaveReview, Stepping
  <2>4. DraftRows'
    BY <2>1, <2>2 DEF DraftRows, Planned, StepOf
  <2>5. DraftOf(w)'
    BY <2>1, <2>2, <2>3 DEF DraftOf, Gmail, DraftReview
  <2>. QED
    BY <2>4, <2>5
<1>12. CASE ExecuteFails(w)
  <2>1. NoDraft /\ steps' = steps
    BY <1>12 DEF ExecuteFails, NoDraft, envVars
  <2>2. exec[w].pc \in {"execute", "review"} /\ exec'[w].pc = "fail"
        /\ exec'[w].at = exec[w].at /\ exec'[w].thread = exec[w].thread
    BY <1>12, RaiseMoves, ThreadKept DEF ExecuteFails, Stepping
  <2>. QED
    BY <2>1, <2>2, DraftRowsQuiet, DraftOfKept
<1>13. CASE PersistStep(w)
  <2>. DEFINE st == IF SkipsStep(config, Node(w)) THEN "SKIPPED" ELSE "COMPLETED"
  <2>1. WriteStep(w, st) /\ NoDraft
    BY <1>13 DEF PersistStep, envVars, NoDraft, Effects
  <2>2. exec[w].pc = "persist" /\ exec[w].pc \in Writing /\ exec[w].at \in Planned
        /\ exec[w].at \in Nodes
    BY <1>13 DEF PersistStep, Writing, Stepping
  <2>3. exec[w].at = DraftReview /\ ~config.reviewTarget => fx.reviews = 1
    BY <2>2 DEF DraftOf
  <2>4. DraftRows'
    BY <2>1, <2>2, <2>3, DraftRowsWritten
  <2>5. CASE Raise(w, "budget", "fail")
    <3>1. exec'[w].pc = "fail" /\ exec'[w].at = exec[w].at
          /\ exec'[w].thread = exec[w].thread
      BY <2>5, RaiseMoves, ThreadKept DEF Stepping
    <3>. QED
      BY <2>1, <2>2, <2>4, <3>1, DraftOfKept
  <2>6. CASE Advance(w)
    <3>1. exec'[w].pc = "node" /\ exec'[w].at = exec[w].at + 1
          /\ exec'[w].thread = exec[w].thread
      BY <2>2, <2>6, AdvanceMoves, ThreadKept
    <3>. QED
      BY <2>1, <2>2, <2>4, <3>1, DraftOfKept
  <2>. QED
    BY <1>13, <2>5, <2>6 DEF PersistStep
<1>14. CASE FailStep(w)
  <2>1. WriteStep(w, "FAILED") /\ NoDraft
    BY <1>14 DEF FailStep, NoDraft, envVars
  <2>2. exec[w].pc \in Writing /\ exec[w].at \in Planned
    BY <1>14 DEF FailStep, Writing, Stepping
  <2>3. exec'[w].pc = "handle" /\ exec'[w].thread = exec[w].thread
    BY <1>14, GoToMoves, ThreadKept DEF FailStep
  <2>. QED
    BY <2>1, <2>2, <2>3, DraftRowsWritten, DraftOfKept
<1>15. CASE CompleteRun(w) \/ HandleError(w)
  <2>1. NoDraft /\ steps' = steps
    BY <1>15, CancelNoted
    DEF CompleteRun, HandleError, NoDraft, envVars, SameEffects, Inv, Typed, TypeOK
  <2>2. exec'[w].pc \in {"ack", "nack"} /\ exec'[w].thread = exec[w].thread
    BY <1>15, GoToMoves, ThreadKept DEF CompleteRun, HandleError
  <2>. QED
    BY <2>1, <2>2, DraftRowsQuiet, DraftOfKept
<1>16. CASE JobDone(w) \/ JobFailed(w)
  <2>1. NoDraft /\ steps' = steps
    BY <1>16 DEF JobDone, JobFailed, NoDraft
  <2>2. exec'[w] = Idle
    BY <1>16 DEF JobDone, JobFailed
  <2>. QED
    BY <2>1, <2>2, DraftRowsQuiet DEF Idle, DraftOf, Writing
<1>17. CASE DatabaseFault(w)
  <2>1. NoDraft /\ steps' = steps
    BY <1>17 DEF DatabaseFault, NoDraft
  <2>2. exec'[w].at = exec[w].at /\ exec'[w].thread = exec[w].thread
        /\ \/ exec'[w].pc \in {"handle", "nack"}
           \/ exec[w].pc \in {"review", "persist"} /\ exec'[w].pc = "fail"
    BY <1>17, GoToMoves, RaiseMoves, ThreadKept DEF DatabaseFault, Stepping
  <2>. QED
    BY <2>1, <2>2, DraftRowsQuiet, DraftOfKept
<1>. QED
  BY <1>2, <1>3, <1>4, <1>5, <1>6, <1>7, <1>8, <1>9, <1>10, <1>11, <1>12, <1>13,
     <1>14, <1>15, <1>16, <1>17 DEF Work

LEMMA DraftsStep == Inv /\ DraftsOK /\ [Next]_vars => DraftsOK'
<1>. SUFFICES ASSUME Inv, DraftsOK, [Next]_vars, env'.lockLosses = 0
              PROVE  DraftRows' /\ \A w \in Workers : DraftOf(w)'
  BY DEF DraftsOK
<1>1. /\ Typed /\ env.lockLosses = 0 /\ ~LockLost
      /\ DraftRows /\ \A w \in Workers : DraftOf(w)
      /\ exec \in [Workers -> Execution]
  BY LockLossCounted DEF Inv, Typed, TypeOK, DraftsOK
<1>2. CASE UNCHANGED <<config, steps, exec>> /\ fx'.drafts = fx.drafts
           /\ fx'.reviews = fx.reviews
  BY <1>1, <1>2, DraftRowsQuiet DEF NoDraft, DraftOf
<1>3. ASSUME NEW w \in Workers, Pick(w) \/ Crash(w)
      PROVE  DraftRows' /\ \A v \in Workers : DraftOf(v)'
  <2>1. NoDraft /\ steps' = steps
    BY <1>3 DEF Pick, Crash, NoDraft
  <2>2. exec'[w].pc \in {"idle", "graph"} /\ ~exec'[w].thread
        /\ \A v \in Workers \ {w} : exec'[v] = exec[v]
    BY <1>1, <1>3 DEF Pick, Crash, Started, Idle
  <2>3. DraftOf(w)'
    BY <2>2 DEF DraftOf, Writing
  <2>4. \A v \in Workers \ {w} : DraftOf(v)'
    BY <1>1, <2>1, <2>2 DEF DraftOf, NoDraft
  <2>. QED
    BY <1>1, <2>1, <2>3, <2>4, DraftRowsQuiet
<1>4. ASSUME NEW w \in Workers, Work(w) \/ DatabaseFault(w)
      PROVE  DraftRows' /\ \A v \in Workers : DraftOf(v)'
  <2>1. DraftRows' /\ DraftOf(w)'
    BY <1>1, <1>4, DraftWork
  <2>2. \A v \in Workers \ {w} : exec[v].pc = "idle" /\ exec'[v] = exec[v]
    BY <1>1, <1>4, WorkerMoves DEF Inv, ExclusiveExecution
  <2>3. \A v \in Workers \ {w} : DraftOf(v)'
    BY <1>1, <2>2 DEF DraftOf, Writing
  <2>. QED
    BY <2>1, <2>3
<1>5. CASE Cancel
  <2>1. UNCHANGED <<config, steps, exec>> /\ fx \in Effects
    BY <1>1, <1>5 DEF Cancel, Typed, TypeOK
  <2>. QED
    BY <1>2, <1>5, <2>1, CancelNoted DEF SameEffects
<1>. QED
  BY <1>1, <1>2, <1>3, <1>4, <1>5
  DEF Next, vars, CreateRun, Enqueue, EnqueueFails, Stall

-----------------------------------------------------------------------------
(* Drafts and limits, together.                                            *)

(* The inductive invariant with what it says of drafts and limits.         *)
FullInv == Inv /\ LocksOK /\ LateOK /\ BudgetOK /\ DraftsOK

LEMMA FullInit == Init => FullInv
<1>. SUFFICES ASSUME Init PROVE FullInv
  OBVIOUS
<1>1. Inv
  BY InvInit
<1>2. LocksOK
  <2>1. Loose = {} /\ job.holder = NoWorker /\ env.lockLosses = 0
    BY DEF Init, Loose, Idle
  <2>. QED
    BY <2>1, FS_EmptySet DEF LocksOK
<1>3. LateOK
  BY DEF Init, LateOK
<1>4. BudgetOK
  BY DEF Init, BudgetOK, Idle, Going, Stepping
<1>5. DraftsOK
  <2>1. \A w \in Workers : DraftOf(w)
    BY DEF Init, Idle, DraftOf, Writing
  <2>2. DraftReview \in Planned => StepOf(DraftReview) = "NONE"
    BY <1>1, ConfigsAssumption, SequenceRange DEF Init, StepOf, Planned
  <2>. QED
    BY <2>1, <2>2 DEF Init, DraftsOK, DraftRows
<1>. QED
  BY <1>1, <1>2, <1>3, <1>4, <1>5 DEF FullInv

LEMMA FullStep == FullInv /\ [Next]_vars => FullInv'
<1>. SUFFICES ASSUME FullInv, [Next]_vars PROVE FullInv'
  OBVIOUS
<1>1. Inv' /\ LocksOK' /\ LateOK'
  BY InvStep, LocksStep, LateStep DEF FullInv, Inv
<1>2. BudgetOK' /\ DraftsOK'
  BY BudgetStep, DraftsStep DEF FullInv
<1>. QED
  BY <1>1, <1>2 DEF FullInv

THEOREM FullInvariance == Spec => []FullInv
<1>. QED
  BY FullInit, FullStep, PTL DEF Spec

(* After a request to cancel one more step is begun at most, over all the  *)
(* executions to come, unless a lock was lost; after lost locks one more   *)
(* for each, until the end of one execution replaces the request.  And a   *)
(* run that completes in one uninterrupted execution has kept to its token *)
(* budget.                                                                 *)
THEOREM LimitsAreHonoured == Spec => []LimitsHonoured
<1>1. FullInv => LimitsHonoured
  <2>. SUFFICES ASSUME FullInv PROVE LimitsHonoured
    OBVIOUS
  <2>1. /\ env.lockLosses \in Nat /\ fx.lateStarts \in Nat /\ Cardinality(Ready) \in Nat
        /\ fx.cancel \in {"none", "standing", "overwritten"}
    BY LossesTyped, ReadyBound DEF FullInv, Inv, Typed, TypeOK, Effects
  <2>2. /\ env.lockLosses = 0 => fx.lateStarts <= 1
        /\ fx.cancel # "overwritten" => fx.lateStarts <= 1 + env.lockLosses
    BY <2>1 DEF FullInv, LateOK
  <2>. QED
    BY <2>2 DEF FullInv, BudgetOK, Calm, LimitsHonoured
<1>. QED
  BY <1>1, FullInvariance, PTL

(* Over every crash, retry, failed call and timed-out mail call, a run     *)
(* that never executes twice at once leaves at most one draft, every       *)
(* review row has a draft, and a finished draft step has its review row.   *)
THEOREM DraftsAreAccountedFor == Spec => []DraftsAccountedFor
<1>1. FullInv => DraftsAccountedFor
  <2>1. DraftReview \in Planned <=> InPlan(config, DraftReview)
    BY DraftReviewPlan DEF Planned
  <2>2. StepOf(DraftReview) = steps[draftReviewSequence(config)]
    BY DEF StepOf, Sequence, DraftReview
  <2>. QED
    BY <2>1, <2>2 DEF FullInv, DraftsOK, DraftRows, DraftsAccountedFor
<1>. QED
  BY <1>1, FullInvariance, PTL
=============================================================================
