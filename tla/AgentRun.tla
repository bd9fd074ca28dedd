------------------------------ MODULE AgentRun ------------------------------
(***************************************************************************)
(* One durable agent run: the API request that creates and enqueues it,    *)
(* the BullMQ job that carries it, the workers that execute the default    *)
(* graph step by step, and the PostgreSQL rows they read and write.  Runs  *)
(* share no row but their conversation, so one run is the whole story of   *)
(* its status, its steps and its effects.                                  *)
(*                                                                         *)
(* A database call is one step: every await on a repository is a point at  *)
(* which another process may run, the process may die, or the call fail.   *)
(*                                                                         *)
(* A definition without a comment that stands before the one it resembles  *)
(* (CancelUnguarded before Cancel) is a plausible bug in it, which the     *)
(* runs of MCAgentRun must find; nothing else refers to it.                *)
(***************************************************************************)
EXTENDS Integers, Statuses

CONSTANTS
    Workers,        \* worker slots that take jobs from the run-agent queue
    NoWorker,       \* "nobody holds the job's lock"
    Configs,        \* configuration snapshots a run may have been created with
    NoLimit,        \* a snapshot's maxTokens when it is null
    TokenUses,      \* tokens one model call may turn out to have used
    MaxAttempts,    \* the job's attempts option
    MaxStalls,      \* BullMQ's maxStalledCount
    \* Bounds on what the environment does.
    MaxFaults,      \* calls to PostgreSQL or Redis that fail
    MaxCrashes,     \* times a worker process dies
    MaxLockLosses   \* times a live worker's job lock expires

Templates == {"none", "daily-news-briefing", "gmail-triage",
              "gmail-reply-assistant", "repository-researcher"}

(* The parts of a configuration snapshot and of the run's input that the   *)
(* control flow reads.  feeds counts the enabled news feeds the input or   *)
(* the daily briefing selects; reviewTarget is input.gmailDraftReviewId.   *)
Config == [template     : Templates,
           tools        : SUBSET {"knowledge.search", "news.fetch_rss",
                                  "usage.summary", "github.list_repositories"},
           feeds        : Nat,
           rssUrl       : BOOLEAN,
           reviewTarget : BOOLEAN,
           maxSteps     : Nat \ {0},
           maxToolCalls : Nat,
           maxTokens    : (Nat \ {0}) \cup {NoLimit}]

ASSUME WorkersAssumption == NoWorker \notin Workers
ASSUME ConfigsAssumption == Configs \subseteq Config
ASSUME TokensAssumption  == NoLimit \notin Nat /\ TokenUses \subseteq Nat
ASSUME BoundsAssumption  ==
    /\ MaxAttempts \in Nat \ {0} /\ MaxStalls \in Nat
    /\ MaxFaults \in Nat /\ MaxCrashes \in Nat
    /\ MaxLockLosses \in Nat

-----------------------------------------------------------------------------
(* The default graph: seven nodes that may run a step, then completeRun.   *)

Retrieve == 1   News == 2      Gmail == 3         Github == 4
Usage    == 5   Generate == 6  DraftReview == 7   CompleteNode == 8

Nodes == 1..7

isGmailTemplate(c) == c.template \in {"gmail-triage", "gmail-reply-assistant"}
hasUsageStep(c) == "usage.summary" \in c.tools

(* The nodes that call runStep for this snapshot; the others return "" or  *)
(* are bypassed by a conditional edge.                                     *)
InPlan(c, n) ==
    \/ n \in {Retrieve, News, Generate}
    \/ n = Gmail /\ isGmailTemplate(c)
    \/ n = Github /\ c.template = "repository-researcher"
    \/ n = Usage /\ hasUsageStep(c)
    \/ n = DraftReview /\ c.template = "gmail-reply-assistant"

githubSequence == 4

usageSequence(c) ==
    IF c.template = "repository-researcher" THEN githubSequence + 1
    ELSE IF isGmailTemplate(c) THEN 4 ELSE 3

llmSequenceIgnoringUsage(c) == usageSequence(c)

llmSequence(c) == usageSequence(c) + (IF hasUsageStep(c) THEN 1 ELSE 0)

draftReviewSequence(c) == llmSequence(c) + 1

(* The sequence number, hence the row, of a node's step. *)
Sequence(c, n) ==
    << 1, 2, 3, githubSequence, usageSequence(c), llmSequence(c),
       draftReviewSequence(c) >>[n]

Sequences == 1..7

(* A step that completes as SKIPPED without calling anything. *)
SkipsStep(c, n) ==
    \/ n = Retrieve /\ "knowledge.search" \notin c.tools
    \/ n = News /\ \/ "news.fetch_rss" \notin c.tools
                   \/ c.feeds = 0 /\ ~c.rssUrl
    \/ n = Github /\ "github.list_repositories" \notin c.tools

(* How many tool calls a tool step that succeeds makes, given the calls    *)
(* its budget still allows.                                                *)
CallCounts(c, n, budget) ==
    IF n = News /\ c.feeds > 0
    THEN {IF c.feeds < budget THEN c.feeds ELSE budget}
    ELSE IF n = Gmail /\ c.template = "gmail-triage" THEN 1..4 ELSE {1}

-----------------------------------------------------------------------------
VARIABLES
    config,   \* the run's snapshot; chosen at creation, never changed
    api,      \* progress of POST /agents/:agentId/runs
    status,   \* AgentRun.status, "NONE" before the row exists
    steps,    \* AgentRunStep.status by sequence, "NONE" where no row exists
    job,      \* the BullMQ job
    exec,     \* what each worker is doing
    fx,       \* what the run has left outside its own rows
    env       \* how much the environment has misbehaved so far

vars == <<config, api, status, steps, job, exec, fx, env>>

PCs == {"idle", "graph", "load", "node", "find", "create", "reset", "execute",
        "review", "persist", "fail", "handle", "ack", "nack"}

Errors == {"none", "cancelled", "budget", "timeout", "failed"}

(* One execution: its place in the graph and the graph's state.  thread    *)
(* says whether state.gmailThread was set by this execution.               *)
Execution == [pc : PCs, at : 1..8, thread : BOOLEAN,
              toolCalls : Nat, tokens : Nat, error : Errors]

Idle == [pc |-> "idle", at |-> 1, thread |-> FALSE,
         toolCalls |-> 0, tokens |-> 0, error |-> "none"]

(* initialGraphState: nothing survives from an earlier execution. *)
Started == [Idle EXCEPT !.pc = "graph"]

JobStates == {"none", "waiting", "active", "completed", "failed"}

Job == [state : JobStates,
        attemptsMade : Nat, stalls : Nat, holder : Workers \cup {NoWorker}]

(* messages: assistant messages appended; spent: tokens in TokenUsage      *)
(* rows; drafts: drafts in the user's Gmail account; reviews: rows asking  *)
(* for their review.  Two fields are history, which no step reads: cancel, *)
(* whether the user has asked to cancel and the status column still says   *)
(* so; and lateStarts, all the steps begun since.                          *)
Effects == [messages : Nat, spent : Nat, drafts : Nat, reviews : Nat,
            cancel : {"none", "standing", "overwritten"}, lateStarts : Nat]

Environment == [faults : 0..MaxFaults, crashes : 0..MaxCrashes,
                lockLosses : 0..MaxLockLosses]

TypeOK ==
    /\ config \in Configs
    /\ api \in {"create", "enqueue", "started", "failed"}
    /\ status \in AgentRunStatus \cup {"NONE"}
    /\ steps \in [Sequences -> (RunStepStatus \ {"PENDING"}) \cup {"NONE"}]
    /\ job \in Job
    /\ exec \in [Workers -> Execution]
    /\ fx \in Effects
    /\ env \in Environment

Init ==
    /\ config \in Configs
    /\ api = "create"
    /\ status = "NONE"
    /\ steps = [s \in Sequences |-> "NONE"]
    /\ job = [state |-> "none", attemptsMade |-> 0, stalls |-> 0,
              holder |-> NoWorker]
    /\ exec = [w \in Workers |-> Idle]
    /\ fx = [messages |-> 0, spent |-> 0, drafts |-> 0, reviews |-> 0,
             cancel |-> "none", lateStarts |-> 0]
    /\ env = [faults |-> 0, crashes |-> 0, lockLosses |-> 0]

-----------------------------------------------------------------------------
(* The API. *)

(* RunsService.start: one transaction appends the user message and inserts *)
(* the run as QUEUED.                                                      *)
CreateRun ==
    /\ api = "create"
    /\ api' = "enqueue"
    /\ status' = "QUEUED"
    /\ UNCHANGED <<config, steps, job, exec, fx, env>>

(* RunsService.start, continued: the job is added to the queue. *)
Enqueue ==
    /\ api = "enqueue"
    /\ api' = "started"
    /\ job' = [job EXCEPT !.state = "waiting"]
    /\ UNCHANGED <<config, status, steps, exec, fx, env>>

(* Redis is unreachable: the request fails and nothing undoes the insert. *)
EnqueueFails ==
    /\ api = "enqueue"
    /\ env.faults < MaxFaults
    /\ api' = "failed"
    /\ env' = [env EXCEPT !.faults = @ + 1]
    /\ UNCHANGED <<config, status, steps, job, exec, fx>>

CancelUnguarded ==
    /\ status # "NONE"
    /\ status' = "CANCEL_REQUESTED"
    /\ fx' = [fx EXCEPT !.cancel = "standing"]
    /\ UNCHANGED <<config, api, steps, job, exec, env>>

(* RunsService.cancel: a guarded update.  When it matches no row the       *)
(* request is answered 404 and changes nothing.                            *)
Cancel ==
    /\ status \in {"QUEUED", "RUNNING"}
    /\ status' = "CANCEL_REQUESTED"
    /\ fx' = [fx EXCEPT !.cancel = "standing"]
    /\ UNCHANGED <<config, api, steps, job, exec, env>>

-----------------------------------------------------------------------------
(* The job queue: BullMQ as the worker's options configure it. *)

Pick(w) ==
    /\ job.state = "waiting"
    /\ exec[w].pc = "idle"
    /\ job' = [job EXCEPT !.state = "active", !.holder = w]
    /\ exec' = [exec EXCEPT ![w] = Started]
    /\ UNCHANGED <<config, api, status, steps, fx, env>>

(* The processor returned.  A worker that lost the lock cannot finish the  *)
(* job any more; its move is refused.                                      *)
JobDone(w) ==
    /\ exec[w].pc = "ack"
    /\ exec' = [exec EXCEPT ![w] = Idle]
    /\ job' = IF job.holder = w
              THEN [job EXCEPT !.state = "completed", !.holder = NoWorker]
              ELSE job
    /\ UNCHANGED <<config, api, status, steps, fx, env>>

(* The processor threw: retry until the attempts are used up. *)
JobFailed(w) ==
    /\ exec[w].pc = "nack"
    /\ exec' = [exec EXCEPT ![w] = Idle]
    /\ job' = IF job.holder = w
              THEN [job EXCEPT
                      !.state = IF job.attemptsMade + 1 < MaxAttempts
                                THEN "waiting" ELSE "failed",
                      !.attemptsMade = @ + 1,
                      !.holder = NoWorker]
              ELSE job
    /\ UNCHANGED <<config, api, status, steps, fx, env>>

(* The stalled-job checker takes an active job whose lock is gone back to  *)
(* the queue, MaxStalls times; after that it fails the job.                *)
Requeue ==
    job' = [job EXCEPT !.state = IF job.stalls < MaxStalls THEN "waiting" ELSE "failed",
                       !.stalls = @ + 1,
                       !.holder = NoWorker]

StallOfHeldJob ==
    /\ job.state = "active"
    /\ Requeue
    /\ UNCHANGED <<config, api, status, steps, exec, fx, env>>

Stall ==
    /\ job.state = "active"
    /\ job.holder = NoWorker
    /\ Requeue
    /\ UNCHANGED <<config, api, status, steps, exec, fx, env>>

(* A live worker's lock expires: its execution goes on beside the next. *)
LockLost ==
    /\ job.state = "active"
    /\ job.holder # NoWorker
    /\ env.lockLosses < MaxLockLosses
    /\ env' = [env EXCEPT !.lockLosses = @ + 1]
    /\ Requeue
    /\ UNCHANGED <<config, api, status, steps, exec, fx>>

(* A worker process dies between two of its steps. *)
Crash(w) ==
    /\ exec[w].pc # "idle"
    /\ env.crashes < MaxCrashes
    /\ env' = [env EXCEPT !.crashes = @ + 1]
    /\ exec' = [exec EXCEPT ![w] = Idle]
    /\ job' = IF job.holder = w THEN [job EXCEPT !.holder = NoWorker] ELSE job
    /\ UNCHANGED <<config, api, status, steps, fx>>

-----------------------------------------------------------------------------
(* The worker: one execution of the graph. *)

Node(w) == exec[w].at
Row(w) == Sequence(config, Node(w))

(* The step row the execution is working on is given status st. *)
WriteStep(w, st) == steps' = [steps EXCEPT ![Row(w)] = st]

GoTo(w, pc) == exec' = [exec EXCEPT ![w].pc = pc]

(* An exception of kind e; the next catch block is at pc. *)
Raise(w, e, pc) == exec' = [exec EXCEPT ![w].error = e, ![w].pc = pc]

Advance(w) == exec' = [exec EXCEPT ![w].at = @ + 1, ![w].pc = "node"]

envVars == <<config, api, job, env>>

(* AgentRunProcessor.graphForRun: read the run, build its graph. *)
BuildGraph(w) ==
    /\ exec[w].pc = "graph"
    /\ GoTo(w, "load")
    /\ UNCHANGED <<envVars, status, steps, fx>>

(* loadRunNode: markRunning is guarded; when it matches no row the graph   *)
(* ends at once and the job counts as done.                                *)
LoadRun(w) ==
    /\ exec[w].pc = "load"
    /\ \/ /\ status \in {"QUEUED", "RUNNING"}
          /\ status' = "RUNNING"
          /\ GoTo(w, "node")
       \/ /\ status \notin {"QUEUED", "RUNNING"}
          /\ GoTo(w, "ack")
          /\ UNCHANGED status
    /\ UNCHANGED <<envVars, steps, fx>>

(* A node without a step for this snapshot. *)
PassNode(w) ==
    /\ exec[w].pc = "node"
    /\ Node(w) \in Nodes
    /\ ~InPlan(config, Node(w))
    /\ Advance(w)
    /\ UNCHANGED <<envVars, status, steps, fx>>

CheckStepBudgetOnly(w) ==
    /\ exec[w].pc = "node"
    /\ Node(w) \in Nodes
    /\ InPlan(config, Node(w))
    /\ \/ Row(w) > config.maxSteps /\ Raise(w, "failed", "handle")
       \/ Row(w) <= config.maxSteps /\ GoTo(w, "find")
    /\ UNCHANGED <<envVars, status, steps, fx>>

(* runStep, first lines: the step budget, then throwIfCancelled. *)
CheckStep(w) ==
    /\ exec[w].pc = "node"
    /\ Node(w) \in Nodes
    /\ InPlan(config, Node(w))
    /\ \/ /\ Row(w) > config.maxSteps
          /\ Raise(w, "failed", "handle")
       \/ /\ Row(w) <= config.maxSteps
          /\ status \in {"CANCEL_REQUESTED", "CANCELLED"}
          /\ Raise(w, "cancelled", "handle")
       \/ /\ Row(w) <= config.maxSteps
          /\ status \notin {"CANCEL_REQUESTED", "CANCELLED"}
          /\ GoTo(w, "find")
    /\ UNCHANGED <<envVars, status, steps, fx>>

FindStepIgnoringSkipped(w) ==
    /\ exec[w].pc = "find"
    /\ \/ steps[Row(w)] = "COMPLETED" /\ Advance(w)
       \/ steps[Row(w)] = "NONE" /\ GoTo(w, "create")
       \/ steps[Row(w)] \in {"SKIPPED", "RUNNING", "FAILED"} /\ GoTo(w, "reset")
    /\ UNCHANGED <<envVars, status, steps, fx>>

FindStepIgnoringCompleted(w) ==
    /\ exec[w].pc = "find"
    /\ \/ steps[Row(w)] = "SKIPPED" /\ Advance(w)
       \/ steps[Row(w)] = "NONE" /\ GoTo(w, "create")
       \/ steps[Row(w)] \in {"COMPLETED", "RUNNING", "FAILED"} /\ GoTo(w, "reset")
    /\ UNCHANGED <<envVars, status, steps, fx>>

(* startStep, the read: a finished step is not executed again. *)
FindStep(w) ==
    /\ exec[w].pc = "find"
    /\ \/ /\ steps[Row(w)] \in {"COMPLETED", "SKIPPED"}
          /\ Advance(w)
       \/ /\ steps[Row(w)] = "NONE"
          /\ GoTo(w, "create")
       \/ /\ steps[Row(w)] \in {"RUNNING", "FAILED"}
          /\ GoTo(w, "reset")
    /\ UNCHANGED <<envVars, status, steps, fx>>

CountLateStart ==
    fx' = [fx EXCEPT !.lateStarts = IF fx.cancel = "none" THEN @ ELSE @ + 1]

StartStepAsPending(w) ==
    /\ exec[w].pc \in {"reset", "create"}
    /\ WriteStep(w, "PENDING")
    /\ GoTo(w, "execute")
    /\ CountLateStart
    /\ UNCHANGED <<envVars, status>>

(* startStep, the write: the row read above is set to RUNNING whatever it  *)
(* has become since; a row that was absent is inserted, which the unique   *)
(* index refuses if another execution has inserted it meanwhile.           *)
StartStep(w) ==
    /\ \/ /\ \/ exec[w].pc = "reset"
             \/ exec[w].pc = "create" /\ steps[Row(w)] = "NONE"
          /\ WriteStep(w, "RUNNING")
          /\ GoTo(w, "execute")
          /\ CountLateStart
       \/ /\ exec[w].pc = "create"
          /\ steps[Row(w)] # "NONE"
          /\ Raise(w, "failed", "handle")
          /\ UNCHANGED <<steps, fx>>
    /\ UNCHANGED <<envVars, status>>

CallsLeft(w) == config.maxToolCalls - exec[w].toolCalls

(* execute() of a step that is skipped. *)
ExecuteSkip(w) ==
    /\ exec[w].pc = "execute"
    /\ SkipsStep(config, Node(w))
    /\ GoTo(w, "persist")
    /\ UNCHANGED <<envVars, status, steps, fx>>

(* execute() of a read-only tool step.  Only the reply assistant's lookup  *)
(* leaves a thread in the graph state.                                     *)
ExecuteTools(w) ==
    /\ exec[w].pc = "execute"
    /\ Node(w) \in {Retrieve, News, Gmail, Github, Usage}
    /\ ~SkipsStep(config, Node(w))
    /\ CallsLeft(w) > 0
    /\ \E n \in CallCounts(config, Node(w), CallsLeft(w)) :
          /\ n <= CallsLeft(w)
          /\ exec' = [exec EXCEPT
                ![w].toolCalls = @ + n,
                ![w].thread = @ \/ ( /\ Node(w) = Gmail
                                     /\ config.template = "gmail-reply-assistant" ),
                ![w].pc = "persist"]
    /\ UNCHANGED <<envVars, status, steps, fx>>

(* generateAnswer: the model streams to the end and reports its usage. *)
ExecuteModel(w) ==
    /\ exec[w].pc = "execute"
    /\ Node(w) = Generate
    /\ \E n \in TokenUses :
          exec' = [exec EXCEPT ![w].tokens = @ + n, ![w].pc = "persist"]
    /\ UNCHANGED <<envVars, status, steps, fx>>

ExecuteDraftWithoutReview(w) ==
    /\ exec[w].pc = "execute"
    /\ Node(w) = DraftReview
    /\ exec[w].thread
    /\ CallsLeft(w) > 0
    /\ exec' = [exec EXCEPT ![w].toolCalls = @ + 1, ![w].pc = "persist"]
    /\ fx' = [fx EXCEPT !.drafts = IF config.reviewTarget THEN @ ELSE @ + 1]
    /\ UNCHANGED <<envVars, status, steps>>

(* runGmailDraftReviewStep: the draft is created, or an existing one       *)
(* updated, in the user's account before anything is written locally.  The *)
(* second alternative is a call that did its work and then timed out.      *)
ExecuteDraft(w) ==
    /\ exec[w].pc = "execute"
    /\ Node(w) = DraftReview
    /\ exec[w].thread
    /\ CallsLeft(w) > 0
    /\ \/ exec' = [exec EXCEPT ![w].toolCalls = @ + 1, ![w].pc = "review"]
       \/ Raise(w, "timeout", "fail")
    /\ fx' = [fx EXCEPT !.drafts = IF config.reviewTarget THEN @ ELSE @ + 1]
    /\ UNCHANGED <<envVars, status, steps>>

(* ... then the review row is inserted, or the target's row updated. *)
SaveReview(w) ==
    /\ exec[w].pc = "review"
    /\ fx' = [fx EXCEPT !.reviews = IF config.reviewTarget THEN @ ELSE @ + 1]
    /\ GoTo(w, "persist")
    /\ UNCHANGED <<envVars, status, steps>>

ExecuteFailsSilently(w) ==
    /\ exec[w].pc = "execute"
    /\ ~SkipsStep(config, Node(w))
    /\ Advance(w)
    /\ UNCHANGED <<envVars, status, steps, fx>>

(* execute() throws: a tool or the model fails or times out, the tool-call *)
(* budget is used up, the thread is missing, the target is not updatable.  *)
ExecuteFails(w) ==
    /\ \/ exec[w].pc = "execute" /\ ~SkipsStep(config, Node(w))
       \/ exec[w].pc = "review" /\ config.reviewTarget
    /\ \E e \in {"failed", "timeout"} : Raise(w, e, "fail")
    /\ UNCHANGED <<envVars, status, steps, fx>>

OverBudget(w) ==
    /\ Node(w) = Generate
    /\ config.maxTokens # NoLimit
    /\ exec[w].tokens > config.maxTokens

(* skipStep, or completeStep: one transaction stores the step, the usage   *)
(* row and the assistant message.  The budget is judged after it commits.  *)
PersistStep(w) ==
    /\ exec[w].pc = "persist"
    /\ WriteStep(w, IF SkipsStep(config, Node(w)) THEN "SKIPPED" ELSE "COMPLETED")
    /\ fx' = IF Node(w) = Generate
             THEN [fx EXCEPT !.messages = @ + 1, !.spent = @ + exec[w].tokens]
             ELSE fx
    /\ \/ OverBudget(w) /\ Raise(w, "budget", "fail")
       \/ ~OverBudget(w) /\ Advance(w)
    /\ UNCHANGED <<envVars, status>>

(* runStep's catch block: failStep, whatever the row's status, and rethrow. *)
FailStep(w) ==
    /\ exec[w].pc = "fail"
    /\ WriteStep(w, "FAILED")
    /\ GoTo(w, "handle")
    /\ UNCHANGED <<envVars, status, fx>>

(* finish(): an update by id alone.  It may replace the request to cancel, *)
(* and then throwIfCancelled no longer finds it.                           *)
Finish(final) ==
    /\ status' = final
    /\ fx' = [fx EXCEPT !.cancel = IF @ = "standing" /\ final # "CANCELLED"
                                   THEN "overwritten" ELSE @]

(* completeRunNode: markCompleted overwrites any status. *)
CompleteRun(w) ==
    /\ exec[w].pc = "node"
    /\ Node(w) = CompleteNode
    /\ Finish("COMPLETED")
    /\ GoTo(w, "ack")
    /\ UNCHANGED <<envVars, steps>>

FinalStatusIgnoringCancel(e) ==
    IF e = "cancelled" THEN "CANCEL_REQUESTED" ELSE "FAILED"

FinalStatus(e) ==
    IF e = "cancelled" THEN "CANCELLED"
    ELSE IF e = "timeout" THEN "TIMED_OUT" ELSE "FAILED"

HandleErrorWithoutFinish(w) ==
    /\ exec[w].pc = "handle"
    /\ GoTo(w, "nack")
    /\ UNCHANGED <<envVars, status, steps, fx>>

(* handleError: the terminal status overwrites any status; then rethrow. *)
HandleError(w) ==
    /\ exec[w].pc = "handle"
    /\ Finish(FinalStatus(exec[w].error))
    /\ GoTo(w, "nack")
    /\ UNCHANGED <<envVars, steps>>

(* A database call of the execution fails.  Inside runStep's try block the *)
(* catch block runs next, elsewhere process() catches; a failure of        *)
(* failStep replaces the error, one of handleError leaves the run as it is. *)
DatabaseFault(w) ==
    /\ env.faults < MaxFaults
    /\ env' = [env EXCEPT !.faults = @ + 1]
    /\ \/ /\ exec[w].pc \in {"graph", "load", "node", "find", "create",
                             "reset", "fail"}
          /\ exec[w].pc = "node" => \/ Node(w) = CompleteNode
                                    \/ InPlan(config, Node(w))
          /\ Raise(w, "failed", "handle")
       \/ /\ exec[w].pc \in {"review", "persist"}
          /\ Raise(w, "failed", "fail")
       \/ /\ exec[w].pc = "handle"
          /\ GoTo(w, "nack")
    /\ UNCHANGED <<config, api, status, steps, job, fx>>

(* What the worker's code does next when nothing outside interferes. *)
Work(w) ==
    \/ BuildGraph(w)   \/ LoadRun(w)      \/ PassNode(w)     \/ CheckStep(w)
    \/ FindStep(w)     \/ StartStep(w)    \/ ExecuteSkip(w)  \/ ExecuteTools(w)
    \/ ExecuteModel(w) \/ ExecuteDraft(w) \/ SaveReview(w)   \/ ExecuteFails(w)
    \/ PersistStep(w)  \/ FailStep(w)     \/ CompleteRun(w)  \/ HandleError(w)
    \/ JobDone(w)      \/ JobFailed(w)

Next ==
    \/ CreateRun \/ Enqueue \/ EnqueueFails \/ Cancel \/ Stall \/ LockLost
    \/ \E w \in Workers : Pick(w) \/ Work(w) \/ DatabaseFault(w) \/ Crash(w)

(* A worker that is alive goes on: model and tool calls carry a timeout,   *)
(* and a database call answers or fails.  A waiting job is picked up by a  *)
(* free worker, a stalled one is found by the checker, and a request that  *)
(* has begun goes on.  Nothing obliges users, faults or crashes to happen. *)
Fairness ==
    /\ WF_vars(Enqueue)
    /\ WF_vars(Stall)
    /\ \A w \in Workers : WF_vars(Work(w)) /\ WF_vars(Pick(w))

Spec == Init /\ [][Next]_vars

FairSpec == Spec /\ Fairness

-----------------------------------------------------------------------------
(* Properties *)

(* Two executions of the same run never overlap unless a live worker lost  *)
(* the job's lock: whoever executes holds the job.                         *)
ExclusiveExecution ==
    env.lockLosses = 0 =>
      \A w \in Workers : exec[w].pc # "idle" =>
                           job.holder = w /\ job.state = "active"

Done == {"COMPLETED", "SKIPPED"}

(* Steps run in graph order and a step is never begun on top of one that   *)
(* did not finish, over every retry, crash and failed call: a row exists   *)
(* only when the rows of all the nodes before it are done.                 *)
StepsInOrder ==
    env.lockLosses = 0 =>
      \A m, n \in Nodes :
         /\ InPlan(config, m) /\ InPlan(config, n) /\ m < n
         /\ steps[Sequence(config, n)] # "NONE"
         => steps[Sequence(config, m)] \in Done

(* The conversation holds the run's answer exactly when the llm.generate   *)
(* row is COMPLETED: completeStep commits both or neither, and a retry     *)
(* skips the step.  (With a token budget see NoDuplicateAnswer.)           *)
AnswerOnce ==
    env.lockLosses = 0 /\ config.maxTokens = NoLimit =>
      fx.messages = IF steps[llmSequence(config)] = "COMPLETED" THEN 1 ELSE 0

(* A COMPLETED run has finished every step of its plan and has answered,   *)
(* however many executions it took.                                        *)
CompletedRunIsWhole ==
    env.lockLosses = 0 /\ status = "COMPLETED" =>
      /\ \A n \in Nodes : InPlan(config, n) => steps[Sequence(config, n)] \in Done
      /\ fx.messages >= 1

(* One run leaves at most one new draft in the user's mailbox unless two   *)
(* executions overlap: BullMQ's retries never execute a failed run again,  *)
(* and an execution resumed after a crash has lost the thread a draft      *)
(* needs.  Every local review row has a draft behind it, and a finished    *)
(* draft step has left one.                                                *)
DraftsAccountedFor ==
    env.lockLosses = 0 =>
      /\ fx.drafts <= 1
      /\ fx.reviews <= fx.drafts
      /\ InPlan(config, DraftReview) /\ ~config.reviewTarget
           /\ steps[draftReviewSequence(config)] = "COMPLETED"
         => fx.reviews = 1

(* What the user set bounds to.  Unless two executions overlap, one step   *)
(* at most is begun after a cancel request, over all retries, stalls,      *)
(* crashes and failed calls to come: the one of the execution that was     *)
(* between its check and its start.  When a lock was lost it is one step   *)
(* of each execution, as long as the request stands: the unguarded end of  *)
(* one execution may replace it by FAILED, TIMED_OUT or COMPLETED, and     *)
(* nothing then stops the other, which may begin all the steps it has      *)
(* left.  And a run that completes in one uninterrupted execution has kept *)
(* to its token budget.                                                    *)
LimitsHonoured ==
    /\ env.lockLosses = 0 => fx.lateStarts <= 1
    /\ fx.cancel # "overwritten" => fx.lateStarts <= 1 + env.lockLosses
    /\ /\ status = "COMPLETED"
       /\ config.maxTokens # NoLimit
       /\ env.faults + env.crashes + env.lockLosses = 0
       => fx.spent <= config.maxTokens

(* Terminal states cannot return to active states, even when two workers   *)
(* execute the run at once.                                                *)
TerminalStaysTerminal ==
    [][(status \in RunTerminal) => (status' \in RunTerminal)]_status

(* A retry or a resumed execution skips what an earlier one finished: the  *)
(* row of a finished step is never written again.  (With a token budget    *)
(* the llm.generate row is COMPLETED, then FAILED when the budget is       *)
(* exceeded, and executed again if the worker dies before the run ends.)   *)
FinishedStepsStay ==
    [][\A s \in Sequences :
          env.lockLosses = 0 /\ config.maxTokens = NoLimit /\ steps[s] \in Done
            => steps'[s] = steps[s]]_vars

(* The status column implements the abstract machine RunStatus!Spec: every *)
(* write is in the domain's table, but for an execution that ends a run    *)
(* that has ended already, which may replace one terminal status by        *)
(* another.  So a cancel request is never undone, a run never goes back to *)
(* the queue and never completes without having run.  A run not created    *)
(* yet counts as QUEUED.                                                   *)
RunStatus == INSTANCE StatusMachine
    WITH Rows <- {"run"}, Initial <- "QUEUED",
         Transitions <- agentRunTransitions \cup (RunTerminal \X RunTerminal),
         status <- [r \in {"run"} |-> IF status = "NONE" THEN "QUEUED" ELSE status]

StatusFollowsTable == RunStatus!Spec

(* The domain's table as it stands: what the column implements when no     *)
(* database call fails and no lock is lost (see AgentRunProofs).           *)
RunTable == INSTANCE StatusMachine
    WITH Rows <- {"run"}, Initial <- "QUEUED",
         Transitions <- agentRunTransitions,
         status <- [r \in {"run"} |-> IF status = "NONE" THEN "QUEUED" ELSE status]

StatusKeepsTable == RunTable!Spec

(* A job that has been enqueued leaves the queue, and with it the queue's  *)
(* only slot, with its run ended unless the user cancels: through crashes  *)
(* and failed calls, as long as they do not use up the attempts.           *)
EnqueuedRunSettles ==
    job.state = "waiting"
      ~> /\ job.state \in {"completed", "failed"}
         /\ status \in RunTerminal \cup {"CANCEL_REQUESTED"}

(* An execution that has passed markRunning.                               *)
Underway(w) == exec[w].pc \notin {"idle", "graph", "load", "ack", "nack"}

(* A cancel request that reaches a run under way ends it, unless a worker  *)
(* dies or a database call fails.                                          *)
CancelSettles ==
    status = "CANCEL_REQUESTED" /\ (\E w \in Workers : Underway(w))
      ~> status \in RunTerminal \/ env.crashes + env.faults > 0

-----------------------------------------------------------------------------
(* What the documentation says and the code does not keep. *)

(* docs/langchain-langgraph.md: a cancel found while loading the run leads *)
(* to "persist terminal state".  loadRunNode just ends.                    *)
CancelAlwaysSettles == status = "CANCEL_REQUESTED" ~> status \in RunTerminal

(* docs/domain-model.md: retried jobs "may not duplicate externally        *)
(* visible effects"; here, the assistant's message in the conversation.    *)
NoDuplicateAnswer == fx.messages <= 1
=============================================================================
