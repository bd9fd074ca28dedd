# DevHub AI Command Center: formal specifications

DevHub is a multi-tenant command center for AI agents. A NestJS API accepts
requests, BullMQ carries jobs over Redis, a worker executes agent runs, document
ingestion and evaluations, PostgreSQL (through Prisma) holds every row, Qdrant
holds vectors, and a Next.js client follows runs over Socket.IO. The TLA+ modules
in this directory model that code; TLC checks them on small instances and TLAPS
proves the theorems of the `*Proofs` modules for every value of the constants.

## 1. Inventory

Paths are relative to the repository. What is hard in each component is listed,
line by line, as a hazard in `PROJECT.json`.

| Component | State | Operations | Talks to |
| --- | --- | --- | --- |
| Durable agent runs (`apps/api/src/runs`, `apps/worker/src/agent-graph`, `agent-run-repository.ts`) | `AgentRun`, `AgentRunStep`, `TokenUsage`, `Message` rows; the BullMQ job; the graph state in a worker's memory | start, cancel, load, run a step (start, execute, persist, fail), complete, handle an error | queue, model, tools, Gmail, realtime |
| Saved-workflow graphs (`workflow-compiler.ts`, `agent-workflows.ts`, `agent-workflow-editor.tsx`) | the definition and version in the agent's row; the editor's canvas | edit, validate, save, reset, compile, route | the step runner |
| Documents (`apps/api/src/documents`, `document-processor.ts`, `document-repository.ts`, `packages/rag`) | `Document`, `DocumentChunk` rows; files; Qdrant points; jobs | upload, ingest, reindex, delete, search, answer | queue, Qdrant, embeddings |
| Knowledge page and uploads (`knowledge-workspace.tsx`, `documents-api.ts`, `documents.service.ts`) | the page's result and its request | search, stream an answer, clear, upload | documents API |
| Golden evaluations (`apps/api/src/golden`, `golden-evaluation-processor.ts`) | `GoldenCase`, `EvaluationRun`, `EvaluationResult` rows; the job | create, edit and delete cases, install samples, start, evaluate each case, finish | agent runs, model |
| Reviewed actions (`apps/api/src/gmail`, `apps/api/src/github`) | review rows, drafts and issues at the provider | create, edit, reject, send, revise | provider APIs, connections |
| External connections (`external-connection-repository.ts`, `external-installation-repository.ts`) and the OAuth broker (`apps/oauth-broker`) | connection, installation and repository rows, encrypted tokens; the broker's pending states and grants in memory | connect, complete, refresh, disconnect, sync, webhook | provider OAuth |
| Sessions (`apps/api/src/auth`, `apps/web/lib/auth.tsx`) | `RefreshSession` rows in families, the browser's cookie, each tab's React state | register, login, refresh, logout | every request |
| Realtime and the web chat (`apps/api/src/realtime`, `apps/web/lib`) | socket rooms, the client's view of a run | subscribe, publish, recover, cancel | runs API |
| Conversations and direct chat (`conversation-repository.ts`, `apps/api/src/chat`) | `Conversation`, `Message` rows | start, continue, complete a turn | model, runs |
| Tool registry (`packages/mcp`) | none of its own; audit records | call | Gmail, GitHub, RSS, knowledge |
| News feeds (`apps/api/src/news`, `news-feed-repository.ts`) | `NewsFeed` rows | create, edit, delete, fetch, select for a run | RSS |
| Usage report (`apps/api/src/usage`, `usage-repository.ts`) | reads `TokenUsage`, runs and steps | page, aggregate, compare with a budget | |
| Agent templates (`agent-templates.ts`, `agent-workflow-preview-data.ts`, `agents.service.ts`) | constants; the setup a tenant has | list, show setup, build a workflow | connections, feeds |
| Rate limiter (`rate-limit.middleware.ts`) | counters per client, method and path in memory | admit, refuse | every request |
| Model and embedding providers (`packages/ai`, `packages/rag`) | none | stream, complete, embed, search vectors | Ollama, OpenAI, Qdrant |

What makes each component correct, in one sentence each:

- *Agent runs*: a run that is enqueued ends; steps run once, in graph order;
  the conversation gets one answer and the mailbox at most one draft; cancelling
  works; limits hold; the status column follows `packages/domain/src/transitions.ts`.
- *Saved-workflow graphs*: the canvas stays well formed, only an accepted graph is
  stored, and its run ends at an end node or for a reason that can be named.
- *Documents*: an `INDEXED` document is exactly what a search finds; nothing of a
  deleted document comes back; no document stays `PROCESSING` with nobody at work.
- *Knowledge page*: a part of an answer is never shown as the whole.
- *Golden evaluations*: one result per case, and an aggregate over all of them.
- *Reviewed actions*: what the user approved is sent once, as last edited, and
  nothing changes a decided review.
- *External connections*: a disconnected connection keeps no usable token, and in a
  configured deployment one that is shown as connected works.
- *Sessions*: of a family of refresh tokens at most one is live; reuse ends it.
- *Realtime*: the client never shows a false end, and shows the real one when all is
  quiet, although events are lost.
- *Conversations*: messages are numbered without gap or double; a prompt is one unbroken
  piece of the conversation with the question last.
- *The pure parts*: each computes what its callers take it for, on every small input.

## 2. Modules

| Module | Role |
| --- | --- |
| `Statuses`, `StatusMachine` | the status types of `packages/contracts` and the transition tables of `packages/domain`; the abstract specification of a status column that moves only along a table |
| `AgentRun`, `MCAgentRun`, `AgentRunProofs` | one durable run end to end, refining `StatusMachine`; nine configuration snapshots for TLC; theorems |
| `DocumentIngestion`, `MCDocumentIngestion`, `DocumentIngestionProofs` | one document end to end |
| `AuthSessions`, `AuthSessionsProofs` | refresh-token families under concurrent page loads, sign-ins and sign-outs |
| `ExternalConnections` | one user's connection to Gmail or GitHub, with its OAuth flows, broker, installation and repositories |
| `ReviewedActions`, `MCReviewedActions`, `ReviewedActionsProofs` | one reviewed Gmail draft or GitHub action; EXTENDS `ExternalConnections`, so the two are checked together |
| `RealtimeChat`, `RealtimeChatProofs` | worker, Redis, gateway and one tab's chat |
| `WorkflowGraph`, `AgentWorkflows`, `MCAgentWorkflows`, `AgentWorkflowsProofs` | validation and compilation of a graph; the pages and requests that edit and save it, and the run of what is stored |
| `GoldenEvaluation`, `GoldenEvaluationProofs` | cases, samples and one evaluation |
| `Conversations` | the concurrent turns of one conversation |
| `KnowledgePage` | a search whose answer is streamed |
| `WorkspaceProofs` | theorems of the last two |
| `MCWorkspace` | TLC instance of `GoldenEvaluation`, `Conversations` and `KnowledgePage`, which share no state |
| `TextChunks`, `KnowledgeSearch`, `DocumentUploads` | pure: normalization and chunking, ranking and vectors, the check of uploaded files |
| `NewsFeeds`, `UsageReport`, `AgentTemplates`, `WorkflowLayout`, `GoldenScore`, `RateLimiter` | pure: each operation as a function of the rows or the requests |
| `ModelStream`, `ToolCalls`, `GmailThreads` | pure: what the adapters make of answers of models and providers |
| `MCAlgorithms` | instances of the pure modules and, as assumptions that TLC evaluates, their properties over all small inputs; reached by `MCWorkspace` |

The order in which they were written is that of damage: first what executes effects
on behalf of a user, then what holds the user's data, then what guards access, then
what shows it. Parameters are CONSTANTS, an operation is an action, invariants are
conjunctions of named parts, and no module declares a RECURSIVE operator, so any of
them can be proved about.

A definition without a comment that stands directly before the one it resembles
(`CancelUnguarded` before `Cancel`, `MarkSent_AnyStatus` before `MarkSent`) is a
plausible bug in it. Nothing refers to it; `PROJECT.json` names, for each property of
a run, such a definition with which the run finds the property violated.

### The runs

| Run | Instance | Properties |
| --- | --- | --- |
| `AgentRunSafety` | 2 workers, 9 snapshots, 3 attempts, 1 stall, 1 fault, 1 crash, 1 lost lock | section 3 |
| `AgentRunLive` | 1 worker, 2 faults, 1 crash, fair | `EnqueuedRunSettles`, `CancelSettles` |
| `DocumentSafety` | 2 slots, upload, 1 reindex, 1 delete, 2 attempts, 1 trouble | section 4 |
| `DocumentLive` | upload and delete, 3 attempts, 2 troubles, fair | `DocumentSettles` |
| `AuthSessions` | 2 tabs, 3 requests, 2 troubles, fair | section 5 |
| `ReviewedActions` | 3 calls, 2 flows, 1 repository, 2 texts, through the broker | section 6 |
| `RealtimeChat` | 2 runs, 1 fault, 2 acts of the user | section 7 |
| `AgentWorkflows` | 1 page and 1 program, 2 edits, 2 requests, 3 together, limit 5 | section 8 |
| `Workspace` | 2 evaluator slots, 2 cases, 2 edits, 1 stall, 2 troubles; 3 turns, 2 texts, 2 agents; 2 searches, 3 deltas, 2 clears, 1 break | sections 9 to 12 |
| `AgentRunStrandedCancel` | 1 worker, nothing goes wrong, fair | `CancelAlwaysSettles`, violated |
| `DocumentReindexTwice` | 2 slots, upload and 1 reindex, nothing goes wrong | `ReindexedIsSearchable`, violated |
| `AuthSessionsReuseRace` | 2 tabs, 3 requests, 1 trouble | `ReuseRevokesEntireFamily`, violated |

Deadlock is not checked: every instance is bounded and stops when its requests are
used up.

## 3. `AgentRun`

**State and code.** `status` and `steps` are the columns of `AgentRun` and
`AgentRunStep` (a step's row is named by the sequence number its node computes, as
the unique index does); `config` is the immutable snapshot stored with the run; `job`
is the BullMQ job (state, attempts made, stall count, lock holder); `exec[w]` is
the memory of one execution: the program counter, the node, whether
`state.gmailThread` is set, the counters and the pending exception; `fx` counts what
the run leaves elsewhere (assistant messages, token usage rows, Gmail drafts, review
rows), remembers whether a request to cancel was made and whether another status has replaced it,
and counts the steps begun after it; `api` is the progress of the request; `env`
counts what went wrong.

**Atomicity.** One action is one database call, one queue operation or one
external call with the control flow up to the next. So the read and the write of
`startStep` are two actions (`FindStep`, then `StartStep`), the transaction of
`completeStep` is one (`PersistStep`), and the token budget, which the code judges
after that transaction, raises in the same action after the write. Exceptions follow the code: inside
`runStep`'s `try` the catch block is `FailStep`; then `HandleError` writes the
terminal status; then BullMQ's `JobFailed` counts the attempt.

**The queue.** BullMQ is external. A job is `waiting`, `active` under a worker's
lock, and `completed` or `failed`; a worker that threw gives it back until
`attempts` (3) is reached; a job whose lock has expired goes back at most
`maxStalledCount` (1) times. `Crash` is a worker process that dies; `LockLost` is a
live worker whose lock expires, after which two executions overlap and the first
can no longer move the job.

**Abstractions.** News feeds do not change while a run executes. A commit whose
reply is lost, and an enqueue that succeeded and reported an error, do not occur.
Audit records and realtime events, whose errors the code swallows, are left out.
What a tool or a model returns is reduced to: it succeeds with so many calls or
tokens, or it fails, or times out, possibly after doing its work (the Gmail draft). The graph of a saved
workflow is a component of its own; runs here use the default graph.

**Runs.** `AgentRunSafety` has two workers, all nine snapshots (a chat, a briefing
whose feeds exhaust the tool calls, a run with too few steps, triage, reply, reply to an
existing draft, repository research, and a token budget that one model call exceeds
or exactly meets), one failed call, one crash and one lost lock, with symmetry on
workers: 2,998,595 states. Two workers are enough for an overlap (an active job has one
holder, so a third needs a second lost lock); one crash, one fault and one loss, in any
order and together, exercise every retry path, since `attempts` is 3 and a run that
failed is never executed again. `AgentRunLive` has one worker, one crash and two faults,
no symmetry, and the fair specification: 86,950 states.

| Property | What it says |
| --- | --- |
| `ExclusiveExecution` | two executions overlap only after a lost lock |
| `StepsInOrder` | a step's row exists only when the rows of all earlier nodes are finished, whatever was retried |
| `AnswerOnce` | the answer is in the conversation exactly when its step is `COMPLETED` |
| `CompletedRunIsWhole` | a `COMPLETED` run finished all of its plan and answered |
| `DraftsAccountedFor` | at most one Gmail draft per run, every review row has one |
| `LimitsHonoured` | without a lost lock one step at most is begun after a cancel request, through retries, crashes and failed calls; with lost locks one more for each, as long as the request has not been replaced; an undisturbed completed run kept to its token budget |
| `StatusFollowsTable` | the status column implements `StatusMachine` |
| `FinishedStepsStay` | the row of a finished step is not written again |
| `EnqueuedRunSettles`, `CancelSettles` | liveness, below |

Every start after a cancel request is counted, whatever has become of the request. It may be replaced: `finish`
(`agent-run-repository.ts:447-465`) updates by id alone, so after a lost lock the execution that ends first
writes `FAILED`, `TIMED_OUT` or `COMPLETED` over `CANCEL_REQUESTED`, `throwIfCancelled` no longer finds it, and the other
execution begins all the steps it has left. TLC refutes the bound for that case (five steps are begun late), and
`LimitsHonoured` claims none in it.

`StatusFollowsTable` is a refinement: the variable of `StatusMachine` is mapped to
the run's status (a run not created yet counts as `QUEUED`). Its table is the
domain's, loosened in one respect the code needs: `finish` writes whatever the row
holds, so an execution that ends a run another one has already ended, or one whose
database call failed after a terminal write, replaces one terminal status by
another. Under the assumption that no lock is lost and no call fails the strict table is
implemented (`StatusKeepsTable`, proved).

**Fairness.** Weak fairness on `Enqueue`, `Stall`, and each worker's `Work` and
`Pick`. The code justifies it: model and tool calls have timeouts, a database call
returns or throws, BullMQ polls, and its stalled-job checker runs on a timer. There is none on users,
faults, crashes or lock losses. `EnqueuedRunSettles` says an enqueued run that nobody
cancels reaches a terminal status and its job leaves the queue;
`CancelSettles` that a cancel which finds the run under way ends it unless a crash or
a failed call intervenes.

**Disagreement shown by a run.** `AgentRunStrandedCancel`: a run cancelled while
`QUEUED` keeps `CANCEL_REQUESTED` for ever, since `loadRunNode` stops without a
terminal status. A second one is stated as `NoDuplicateAnswer`, which no run lists and
TLC refutes when it is made an invariant: with a token budget the committed `llm.generate` step is set to `FAILED`; a worker that dies before the run
is ended has its job taken up again, and a second answer is appended.

**Disagreements read in the code, without a run.** `docs/api-contracts.md` calls cancellation idempotent, and
`runs.service.ts` answers a second cancel with 404. The step table
(`transitions.ts:41-47`) has no `COMPLETED -> FAILED`, which the token budget causes. A
`FAILED` run may keep the assistant's message the budget was exceeded by. A
reply run that is resumed after its Gmail step has lost the thread (it is kept in
memory only) and fails, although `docs/domain-model.md` says that retried jobs resume.

## 4. `DocumentIngestion`

**State and code.** `status` and `deleted` are columns of `Document`; `chunks` is the
batch of rows in `DocumentChunk`; `vectors` the batches of which Qdrant holds points;
`file` the source in the storage directory; `jobs` the BullMQ jobs (the upload's and
one per reindex request, each with its own id); `exec` the two slots of the document
worker; `upload` and `req` the progress of the requests. A *batch* stands for the
chunks one execution inserts: they have fresh ids and are written, embedded and
searched together. Ids that nothing refers to any more are used again, which keeps
the model finite without a counter (five ids are enough for two slots: with seven, `DocumentSafety` has the same states).
`alone` remembers whether executions and deletions have overlapped.

**Actions.** Upload: `WriteFile`, `CreateRow`, `EnqueueUpload`, `MarkUploadFailed`.
Reindex: `FindForReindex`, `EnqueueReindex`, `MarkQueued` (the job first, the row
after it, as in the code). Delete: `FindForDelete`, `DeleteVectors`, `DeleteRow`,
`DeleteFile`. Ingestion (`processDocument`, one action per `await` on a store):
`MarkProcessing`, `ReadSource` (reading, checksum, parsing, OCR, chunking),
`ReplaceChunks`, `ClearVectors`, `UpsertVectors` (embedding and upsert),
`LinkVectors`, `MarkIndexed`; `IngestFails` and `DatabaseFault` are its errors,
`MarkFailed` the catch block. `MarkIndexed` is unguarded, as in the repository class;
`markProcessing`'s result is ignored, as in the processor. A crash ends both slots,
which share a process. What a search returns is the operator `SearchResult`, the join of vector
hits and rows that `findSearchResults` and the `knowledge.search` tool both compute.

**Runs.** `DocumentSafety` (two slots, the upload, one reindex and one delete request, two
attempts, one crash, failed call or lost lock, symmetry on slots: 5,452,530 states).
One reindex already makes two jobs for the two slots, so every pair of overlapping executions
occurs, and the deletion interleaves with both; with two attempts an execution
follows a failed one. `DocumentLive`
(upload and delete, three attempts, two troubles of any kinds, fair): 284,850 states.

| Property | What it says |
| --- | --- |
| `IndexedIsSearchable` | an `INDEXED` document is exactly what a search finds, with nothing stale, as long as executions and deletions have not overlapped |
| `DeletedIsGone` | no late, retried or overlapping execution brings a deleted document's text back; its vectors stay gone unless an execution overlapped the deletion |
| `DeletionIsFinal` | a deleted row is never taken up again |
| `ProcessingIsAlive` | `PROCESSING` means a job waits or runs |
| `DocumentSettles` | an uploaded document ends `INDEXED` or `FAILED` and its job leaves the queue |

The conditions in them are the code's own limits. A failed `markFailed` in the last attempt leaves
`PROCESSING` for good, so do a second stall and an execution that lost its lock and
died after the job completed; each was found by a run of the unconditional property.

**Fairness.** As for `AgentRun`; none on the requests, which may stop anywhere. OCR
and embedding calls carry a timeout; calls to Qdrant carry none of their own and are
assumed to end by the HTTP client's default one.

**Disagreement shown by a run.** `DocumentReindexTwice`: the upload's job and a
reindex in the two slots clear each other's vectors, and the document ends `INDEXED`
with nothing searchable. `DeletedHasNoVectors` states a second one, which no run lists and
TLC refutes: a document deleted while it is being ingested keeps vectors in Qdrant and
turns `INDEXED` again.

**Disagreements read in the code, without a run.** The status column does not follow
`documentTransitions`: a reindex sets any status to `UPLOADED`, a queue failure sets
`UPLOADED` to `FAILED`, and `markIndexed` takes `DELETING` to `INDEXED`. A reindex whose job is
finished before the row is marked leaves `UPLOADED` with no job. Two reindex requests
within a millisecond share a job id, so BullMQ keeps one (not modelled: one job per
request).

## 5. `AuthSessions`

**State and code.** `session`, `family`, `replacedBy` and `expired` are the
`RefreshSession` rows of one account; `cookie` is the refresh token in the browser's
cookie, which all tabs share; `tab[t]` is the state of `AuthProvider` in one tab;
`req[r]` is one request to `/auth` and its handler. A request creates at most one
session, so the session carries the request's number. A family has the number of its
first session. Session 0 may remain from an earlier visit.

**Actions.** The browser: `Open` (a page load or reload, whose effect posts
`/auth/refresh` and which abandons what the tab waited for), `SignIn`, `SignOut`,
`Deliver` (the answer with its `Set-Cookie`), `Lose`, `Load` (`GET /me`). The API:
`Enter` (register and login, which write one session or refuse), then one action per
database statement of `refresh` and `logout`: `FindForRefresh`, `Claim`, `Rotate`,
`RevokeRest`, `RevokeFamily`, `FindForLogout`, `RevokeOne`. `Fail` is a call that
throws, or a transaction that is rolled back, and `Expire` a session whose time is up.

**The database.** PostgreSQL is external, and three of its rules matter. A transaction's
update locks the row until it commits (`locked`), and another statement that wants the row
waits. Under `SERIALIZABLE`, the level of the rotation, a
waiter whose row was changed meanwhile fails (`Unblock`, `RevokeRest`); nobody catches
that error. Under `READ COMMITTED`, the level of every other statement, a waiter goes on with the
rows its snapshot shows and never sees one inserted later (`RevokeAwaited`).

**Run.** `AuthSessions` has two tabs, three requests of any kinds and two troubles (a failed
call, a lost answer or an expired session) and states fairness, so it has no symmetry:
245,955 states. Two requests with one token and a third with an older one, or one that
signs out, meet in it; a reload leaves a tab's earlier request running, so more handlers
than tabs run at once. Two troubles let a rotation fail after an answer was lost.

| Property | What it says |
| --- | --- |
| `FamilyIsALine` | each family is one line of replacements, and only its last session can be live |
| `ExchangedOnce` | a refresh token buys one session |
| `ReuseEndsFamily` | a detected reuse has ended the family for good, unless a rotation had its row locked |
| `EndedFamilyStaysEnded` | no refresh under way revives a family whose sessions are all revoked |
| `PageLoadEnds` | a tab does not stay in its loading state |

**Fairness.** Weak fairness on what the API does for each request, on the arrival or
loss of each answer, and on `Load`: a database call returns or throws, a lock is
held for one short transaction (Prisma ends it after five seconds), and a request that gets no
answer fails in the browser. There is none on the user, failures or expiry.

**Disagreement shown by a run.** `AuthSessionsReuseRace`: one tab's delayed request presents a
token that was replaced while another tab is rotating the live one. `revokeFamily` waits
for the locked row, misses the row that replaces it, and the answer says that reuse was detected
while the family has a live session.

**Behaviour seen in the model that nothing in the repository rules out.** Two refreshes with
one token that overlap inside the transaction end the second with an internal error
and leave the family alive; if they do not overlap, the second ends the family, so two tabs
that reload together may sign the user out. A logout revokes the row its cookie
names: a replacement, made by a concurrent refresh or never received because its
answer was lost, stays live. A refresh in one tab makes the access tokens of
the others unusable until they reload.

## 6. `ExternalConnections` and `ReviewedActions`

**State and code.** `connection` is the `ExternalConnection` row (its status, its two tokens, where
`expiresAt` stands: `good`, `due` within the next minute, or `past`; `mock` is the scope the development mock
leaves in it), `installation`
and `listing` the GitHub installation and its repositories. `flow[f]` is one visit to the
provider's consent page with the verifier the API remembers and the grant the broker holds
in memory; a token is known by the flow it was granted in, since the code compares only
whether there is one. `call[c]` is one request to the API or tool call of the worker: what
it does, at which place, with what it has read. `review` is the `GmailDraftReview` or
`GithubActionReview` row, `mailbox` the text of the Gmail draft that the row names, and
`delivered` what the provider has sent or posted. A text is a number. The rows of the
two providers are disjoint, so a behaviour follows one of them. The constants `Brokered`, `Configured` and `DevMock` are
the deployment's. What the settings page is told is the operator `Shown` (`gmailStatus`, `githubStatus`), and a call
goes on with the row's token as its own code judges it: the API's Gmail service and both of the worker's providers
do not use a token in its last minute and refresh it if they can, the API's GitHub service uses it to the end and never refreshes (`Usable`, `Refreshes`).

**Actions.** Connecting (`Connect`, `Consent`, `ConnectDevMock`, `FlowLost`, `BeginComplete`,
`Redeem`, `StoreTokens`), disconnecting in as many writes as the code makes
(`BeginDisconnect`, `EndDisconnect`), the tools' tokens (`BeginTool`, `ToolToken`,
`ToolRefresh`), synchronization (`BeginSync`, `SyncToken`, `SyncInstallation`,
`SyncRepository`), `Webhook` and `TokenExpires`. A review is created by a user or the agent,
updated, rejected, and sent in one action per call to the database or the provider:
`BeginSend` reads the row, `CheckConnection` or `CheckRepository`, `SendToken` and
`SendRefresh`, `PrepareDraft`, `SendDraft` or `PostAction`, `MarkSent`. The agent's revision
is `BeginRevise`, the token, `ReviseDraft`, `ReviseRow`. `BreakOff` ends a call after any
of its steps: an exception, a timeout or a dead process.

**Run.** `ReviewedActions` has three calls, two consent flows, one repository and two texts,
with the broker and the keys configured and the development mock allowed, symmetric in calls and flows: 1,502,927 states. Two sends and a revision, or a send
with a disconnect and a refresh, meet in it; two flows make one consent stale to the other.
Four calls change nothing that a pair or a triple of them cannot do: every property
relates at most two calls and what a third has left in the rows.

| Property | What it says |
| --- | --- |
| `ConsentStoredOnce` | the tokens of one consent are stored once at most, however often the callback page posts |
| `DisconnectSticks` | no token that a disconnect cleared is back in the row unless another call overlapped it or it broke off half-way |
| `ShownConnectedWorks` | where the keys are configured and `status()` answers `CONNECTED`, a call of the API finds a token that it may use or refresh, and so does a tool call of the worker |
| `UndisturbedApproval` | what is delivered is what the row shows, once if it was sent, unless the review changed during a send, was sent twice at a time, or a send broke off after the delivery |
| `KeptDraftSentOnce` | a review made with its Gmail draft is mailed once at most, whatever races and however often a send is repeated |
| `DecisionIsFinal` | a sent or rejected review does not change |

`disturbed` and `raced` are history variables that name the exceptions; each of them
is a hazard of the code that TLC shows when the condition is dropped: a send
that breaks off between delivery and mark is sent again when the row had no draft, two sends at a
time deliver a GitHub comment twice, and a token refresh that ends after the disconnect
writes its token into the cleared row and marks it connected, Gmail's as a connection whose next call fails.
`ShownConnectedWorks` holds for GitHub through that overlap, for Gmail without it. Two cases are outside it, as they are
in the code: a GitHub token without a refresh token in its last minute, which the worker refuses while the page says
`CONNECTED`; and a deployment that has only the development mock, where `GmailService.status` (`gmail.service.ts:88-91`) shows
any row as connected, a disconnected one with null tokens too.

**Disagreements read in the code, without a run.** `OnlyApprovedTextLeaves` states what
`docs/api-contracts.md:128-131` and `docs/implementation-plan.md:365` promise; TLC refutes it: the
agent puts its own text into the draft between the API's update of the draft and its
send. `docs/api-contracts.md:125` says that disconnecting clears the credentials, and
`updateAccessToken` has no condition on the row's status. Repositories that were
removed upstream are never deleted by a sync.

## 7. `RealtimeChat`

**State and code.** `run` and `answer` are what the worker commits; `bus` the events on
their way over Redis, in order; `socket` whether the tab's socket is up and the rooms it has
joined; `asked` the subscriptions under way, `recovery` and `cancelling` the REST calls of
`use-durable-run-chat.ts`, `sending` and `started` its sends; `view` the hook's state. The run moves
along the table that `AgentRun` is shown to follow. A REST answer is read at the
server in one action and applied by the hook in another, and so is an acknowledgement; one delta
stands for the text that is streamed.

**Run.** `RealtimeChat` has two runs, one way to end, one fault (a disconnect, a lost message or a failed
request) and two acts of the user: 3,914,923 states. Two sends make the second run that late answers
of the first can spoil; one send leaves an act for a cancel or a reset; terminal statuses differ in nothing that
the hook does.

| Property | What it says |
| --- | --- |
| `ShownEndIsReal` | the chat never shows an end its run has not come to, unless an answer came out of place |
| `ViewFollowsRun` | when all is quiet the chat shows the run's end and its answer, and no streamed text beside it, in whichever order tokens, end and recoveries came |

`upset` names what can hide an end: an end emitted between the snapshot and the join
(`realtime.gateway.ts:117`), a recovery skipped for an older one, an answer applied to
another run than the one it is about, a lost message. It is reset by a recovery that reads the
end, which makes up for all of them.

**Disagreement read in the code, without a run.** `docs/realtime-events.md:51-54` says that a
gap in the sequence triggers a snapshot and that duplicates are ignored by `eventId` and sequence; the hook does neither.

## 8. `WorkflowGraph` and `AgentWorkflows`

**State and code.** `WorkflowGraph` holds `validateAgentWorkflowDefinition`, the tool check
and the compiled graph's routing as operators over a definition. In `AgentWorkflows`,
`agent` is the agent's row (tools, definition, version), `editor[e]` what a
page shows, `asking` and `saving` its requests. A save is three calls to PostgreSQL (`CheckSave`,
`ReadVersion`, `WriteWorkflow`), and a page edits with the functions of
`agent-workflow-editor.tsx`: add, connect, reconnect, delete, set a condition, reset. What a run
of the stored graph does is computed from the row (`Execution`), since a run works on a snapshot.

**Run.** `AgentWorkflows` has one page and one other program that saves and updates through the
API, at most two edits, two requests, and three of both: 186,467 states. Two requests make
every pair of overlapping saves, or a save and a change of the agent's tools; two edits make every pair of
canvas operations on a three-node template, and the other program's definitions are
those an editor would need more edits for (a path longer than the limit, two ids with one LangGraph
name, a condition without an alternative, a cycle). The assumption `ValidationIsWellFormed`
compares the validation with a declarative definition on all graphs of three nodes; the theorem
`ValidationIsExact` of section 13 does so for every graph.

The depth-first search calls itself. In `cyclicNodeIds` a call is a function of how deep it may nest
(`visit[k]`), which `k = Cardinality(ids) + 1` bounds: every call inside another visits one node more. The loops
(`follow` over a node's targets, `searched` over the nodes, `reached`, `walk`) are functions of how far
they have come. `GraphsAssumption` says that the definitions posted are arrays of nodes and edges, which the schemas
parse before anything is validated, and `PaletteAssumption` that no start is on the palette (`NODE_TYPES`).

| Property | What it says |
| --- | --- |
| `EditorKeepsShape` | whatever the user does and whatever arrives, the canvas has no dangling edge, repeated id, cycle, or edge into a start or out of an end |
| `StoredIsAccepted` | a stored graph passes the validation, and its tools were enabled when it was checked |
| `RunEndsForReason` | a run of the stored graph meets no node twice and ends at an end node, or for one of five reasons that can be read off the graph |
| `VersionNamesDefinition` | one version names one graph unless two saves overlapped |

**Disagreements read in the code, without a run.** `EnabledSaveIsValidated` states
`docs/implementation-plan.md:576` ("Save must be disabled until server validation passes");
TLC refutes it, since an answer to an older validation enables the button for the graph shown
now. The message "participates in a cycle" flags nodes that only reach one. The template node ids `rss-input?`,
`enabled-feeds?` and `gmail-connected?` violate `nodeIdSchema`, so three of the six default workflows cannot be
saved unmodified. The condition `tenant.enabledFeeds` reads the run's `newsFeedIds`.
A `human.review` node does nothing at run time.

## 9. `GoldenEvaluation`

**State and code.** `cases` are the rows of `GoldenCase` (an edition stands for their content),
`install` the requests that install the samples, `evaluation` and `results` the rows of one evaluation,
`runs` the agent runs created for each case, `evaluationJob` BullMQ's job, `evaluator[e]` an
execution, `report` what the page shows and the two reads it is made of. Failed calls,
dead workers and lost locks share the bound `MaxTroubles`. How an answer is scored is in `GoldenScore`.

`ReportIsWhole`: a report shown as `COMPLETED` scores every unchanged case in the edition it was
asked for, through faults, overlaps and redeliveries; with nothing changed, nothing else, at
one agent run per case and delivery at most. `UnfinishedIsAlive`: an evaluation is under way
only while its job waits or runs, but for a failed call that marks it and a job that stalls too
often. The code's shortcoming, in no run: two sample installs at once create the samples twice.

## 10. `Conversations`

**State and code.** `messages` are the rows in order of insertion, `owner` the conversation's agent,
`lock` the turn whose transaction has updated the conversation's row, `turn[t]` one turn,
`runQueue` and `answering` the worker's queue. The row lock is what PostgreSQL gives the
`update` that begins each of these transactions. `ConversationIsOrdered`: numbers without gap or double, no
conflict, each answer once and after its question. `PromptIsConversation`: the model is asked the
turn's question last, after one piece of the conversation in order and without a gap. On the direct path
the piece is all that came before the question. A run is answered later than it is asked and reads the history then
(`seen` is how many messages there were): its piece is the last of the first page, since
`listMessages` returns the oldest 100 messages, less a last message that says what the question says. So a run that was
overtaken is asked with messages of later turns and twice with its question, one whose question lies beyond the page
with older messages only; a run to which neither happened, once and after what came before.
The bounds 100 (`take`) and 20 (`slice`) are the constants `FirstPage = 4` and `History = 2`, small enough for three turns
(six messages) to exceed both.

## 11. `KnowledgePage`

**State and code.** `page` is what the page shows, `call` its request at the API with the lines it has sent and
not delivered. `ShownAnswerIsWhole`: the page never shows a part of an answer as the whole, nor an
answer of one search with the sources of another, although the connection breaks, the API fails in
mid-stream and the result is cleared. The page refuses a second search while one is under way.

Read in the code, without a run: a result cleared during its search comes back without
sources, even for a deleted document; selecting another document keeps the old answer shown; an uploaded document is
deselected again because the list does not contain it yet.

**The run of sections 9 to 11.** `Workspace` follows one of the three parts, which share no state:
529,076 states in all. Two evaluators are the most that execute one job at once after
one lost lock; two cases let a report mix scored, changed and missing ones; two edits change and delete. Three
turns give every mixture of direct chats and runs with one in between. Two searches let lines of the first
meet the second.

## 12. The pure algorithms

`MCAlgorithms` states, as named assumptions over all small inputs, what these modules compute;
TLC evaluates them at the start of `Workspace`.

| Module | Assumptions | What they say |
| --- | --- | --- |
| `TextChunks` | `TextsAreNormalized`, `TextsAreChunked`, `PdfsAreRead` | normalizing keeps the words and is idempotent, chunks hold every word in order with the overlap asked for, OCR is used when a PDF's own text is too thin and loses no page below its limit |
| `KnowledgeSearch` | `VectorsAreOrdered`, `SearchesFindWhatIsIndexed` | vectors follow their texts, a search returns the tenant's indexed chunks only |
| `ModelStream` | `StreamsAreCutAnywhere`, `AnswersAreStored` | reads may cut a stream anywhere, what is stored is what was shown, and a stream completes or fails once |
| `GoldenScore` | `AnswersAreScored` | scores and aggregates |
| `NewsFeeds` | `FeedsStaySound`, `RedirectsAreBounded`, `NewsIsRecorded` | a tenant's URLs stay unique, a fetch follows bounded redirects through safe URLs only, a run records what each fetch came to |
| `ToolCalls` | `ToolsAreAudited`, `IssuesAreFiltered` | only allowed tools run, the audit agrees with the result, requests are authorized first |
| `UsageReport` | `UsageAddsUp`, `BudgetsAreWatched` | pages join, groups add up to the whole, warnings at their thresholds |
| `AgentTemplates` | `TemplatesAreSound`, `TemplatesRun`, `SetupIsShown` | the six workflows have the right shape and run, three of them with other node ids; the setup shown |
| `WorkflowLayout` | `LayoutsAreReadable`, `PresetsAreKept` | no two nodes on one spot, the main path in the first row and to the right; presets survive the form |
| `GmailThreads` | `RepliesAnswerLastRead`, `TriagesAreBounded`, `PartsAreRead`, `RawMessagesAreReviewed` | a reply answers the last message read, bounds hold, a message's text is that of its plain parts, the raw message has the reviewed headers and body |
| `DocumentUploads` | `AcceptedNamesStay` | an accepted file's name is clean, and cleaning it again changes nothing |
| `RateLimiter` | `LimitIsKept` | a refused client has used its limit and is admitted at the time it was told; two limits at most in any window's length |

What the models of these modules showed of the code and no assumption forbids:

- *Model stream*: a stream that ends without `[DONE]` counts as completed and an
  unterminated last event is dropped; a model that names no usage counts 0 tokens.
- *Text*: pages beyond `ocrMaxPdfPages` are silently left out; an uploaded name longer than 255
  characters is cut before its extension is checked.
- *Tools*: a completed call whose audit entry is lost is told and logged as `FAILED`; a page full of
  pull requests yields no issues; a thread longer than 50 messages is answered at its fiftieth.
- *Feeds*: changing a feed's URL to a deleted feed's conflicts while creating it revives the row;
  the unique violation of two creates at once is not caught; a new URL keeps the old fetch status.
- *Usage*: `OVER_BUDGET` by rounding from 99.5 %; golden cases and the usage report count
  `mcp.github` steps differently; `isKnownTemplateKey` knows templates the report does not group.
- *Templates and editor*: the Gmail setup says `NEEDS_SETUP` for an expired connection that a run would
  refresh; `conditionPresetValue` shows any `tool.enabled` condition as "knowledge"; the layout's queue starts at
  the main path's first node only, so nodes beside the path get default columns and edges may be drawn backwards.
- *Rate limiter*: up to twice the limit passes within one window's length around a boundary; `OPTIONS` is exempt.

## 13. Proofs

The theorems hold for every value of the constants, under the assumptions named in the
modules: distinguished values (`NoWorker`, `NoBatch`, `NoLimit`, `NoTab`, `NoSession`, `Null`, `Nobody`,
`Nothing`) are not among those they stand beside, `Configs` are configuration snapshots, reindex and
delete requests are distinct and neither is the upload's job, and the bounds are naturals (at
least one attempt). Bounds on the environment are guards of its actions; no theorem depends on their values.

**`AgentRunProofs`.** `Inv == Typed /\ RequestOK /\ ExclusiveExecution /\ Progress` is
inductive. The properties alone are not: that steps run in order depends on where
each execution is, so `Progress` says, for as long as no lock has been lost, which
rows the place of an execution (program counter and node) allows to exist, to be
finished and to be the row being worked on, and that the answer is stored exactly
when its row is finished; `RequestOK` ties the job and the status to the progress of
the request; exclusive execution is needed because a second execution would break
`Progress`.

| Theorem | Establishes |
| --- | --- |
| `TypeCorrect` | `TypeOK` |
| `TerminalIsFinal` | a terminal run never becomes active again, with no condition |
| `MutualExclusion` | `ExclusiveExecution` |
| `OrderedSteps`, `AnsweredOnce`, `CompletedIsWhole` | `StepsInOrder`, `AnswerOnce`, `CompletedRunIsWhole` |
| `FinishedStepsAreKept` | `FinishedStepsStay` |
| `StatusRefinesTable` | `Spec => StatusFollowsTable`, the refinement, with no condition |
| `StatusImplementsTable` | `Spec => StatusKeepsTable` if `MaxFaults = 0` and `MaxLockLosses = 0` |

| `LimitsAreHonoured`, `DraftsAreAccountedFor` | `LimitsHonoured`, `DraftsAccountedFor` |

The refinement rests on a smaller invariant, `Begun`: an execution that has passed
`markRunning` finds a run that is not `QUEUED`.

The last row needs more than `Inv`, and `FullInv` adds it. What is begun after a cancel
request is counted: only an execution without the lock can begin a step beside the
holder, every such execution is a lost lock (`LocksOK`, a bound on the cardinality of the
set `Loose`), so the steps begun late and the executions ready to begin one are at most one
more than the lost locks as long as the request stands (`LateOK`); once it is replaced the run has ended, and without
a lost lock nobody is left who could begin a step. An undisturbed run has spent nothing before its model call and, where
it goes on after the check that follows, no more than its budget (`BudgetOK`). A draft is made only with the thread
that the Gmail step looks up and an execution keeps in memory: once there is a draft that step's row is
finished and never executed again, so no execution but the one that made it holds a thread
(`DraftOf`, `DraftRows`).

**`DocumentIngestionProofs`.** `Inv == Base /\ AloneOK /\ HeldOK /\ AliveOK` is inductive.
`Base` is the type invariant with what the row and the queue say of each other (a
deleted row is `DELETING` or `INDEXED` and has no chunks; a job does not exist before its request
has added it). `AloneOK` says that while nothing has overlapped there is
one execution, none during a deletion, and that its place determines chunks and
vectors. `HeldOK` and `AliveOK` say that, with no lost lock, a slot that executes
holds its job, and that a document in `PROCESSING` has an execution, a waiting job or one that will
be found stalled.

| Theorem | Establishes |
| --- | --- |
| `TypeCorrect` | `TypeOK` |
| `IndexedIsFound` | `IndexedIsSearchable` |
| `DeletedStaysGone` | `DeletedIsGone` |
| `ProcessingEnds` | `ProcessingIsAlive` |
| `DeletedForGood` | `DeletionIsFinal` |

**`AuthSessionsProofs`.** `Inv` adds to the type invariant and `FamilyIsALine`: a row that is
not there is in no other family (`RowsOK`); the session a request creates appears with its
answer (`FreshOK`); the cookie and every token in a request name a session that is there; a locked row
is live and locked once (`LocksOK`), without which two rotations could both commit; and
what each answer says of the rows (`GrantOK`, `ReuseOK`, and `RestOK` for the snapshot of
a failed rotation). Every step founds a family, revokes unlocked rows,
replaces a live session or leaves the rows alone (`NextRows`); the lemmas about these four kinds
(`LinePreserved`, `EndedStays`, `RowsPersist`) carry the proof.

| Theorem | Establishes |
| --- | --- |
| `TypeCorrect` | `TypeOK` |
| `FamiliesAreLines` | `FamilyIsALine` |
| `TokensAreExchangedOnce` | `ExchangedOnce` |
| `DetectedReuseEndsFamily` | `ReuseEndsFamily` |
| `EndIsFinal` | `EndedFamilyStaysEnded` |

**`ReviewedActionsProofs`.** `Inv` says that a call's place tells what it does (`PlaceOK`), what a row without
deliveries looks like (`StatusOK`), that a kept draft is gone once it is sent and no send makes its own
beside it (`KeptOK`), and, while nothing has disturbed the review, that a sender is alone and works on the row's text
(`CalmOK`). The connection's steps are shown once to leave the sends aside (`AsideStep`), and each step of a send
moves one call.

| Theorem | Establishes |
| --- | --- |
| `ApprovedIsDelivered` | `UndisturbedApproval` |
| `KeptDraftsAreSentOnce` | `KeptDraftSentOnce` |
| `DecisionsAreFinal` | `DecisionIsFinal` |
| `TypeCorrect` | `TypeOK` |
| `ConsentsAreStoredOnce` | `ConsentStoredOnce` |
| `DisconnectionSticks` | `DisconnectSticks` |
| `ConnectedIsUsable` | `ShownConnectedWorks` |

`ShownConnectedWorks` is proved for any deployment: `Brokered`, `Configured` and `DevMock` are constants.
The last three are the connection's, and `ConnectionInv` is inductive whatever the reviews do with it. A code that can
still be redeemed belongs to a flow whose tokens nobody has, and two calls never wait to store the tokens of one
flow (`CodesOK`); whatever is in the row, or in the hands of a call that will write it back, was stored, and what a
disconnect cleared was stored before it (`TokensOK`). While no disconnect has been overlapped, no
call holds a cleared token that it will write back (`HandsOK`), and a disconnect that is half done is the
only call under way and has cleared its other half (`HalfOK`): without this last part the property would not survive the
second half, since the row and the listing are cleared by two writes.

**`RealtimeChatProofs`.** `NoFalseEnd` (`ShownEndIsReal`): an event or a snapshot that tells an end tells
what the row has come to (`BusOK`, `RecoveryOK`), a row that has ended stays so, and no end is shown while a send is
under way (`SendingOK`), whose run will be the next.

`ViewFollows` (`ViewFollowsRun`) is about a state of rest, and an invariant must say why rest is reached with the end
shown: `FollowOK` says that as long as the end of the shown run is not shown, something under way
will tell it (`Tells`: the socket is down and will reconnect, the event is on the bus, a recovery or a subscription has read the
end or is still to read the row), or the end is shown and the conversation is fetched after it (`Caught`). Rest excludes
each of these but the last. `FollowInv` adds what this rests on: a run waits to be shown or is shown, and not both (`StartedOK`),
and an acknowledgement tells only ends that the row has come to (`AskedOK`).

**`GoldenEvaluationProofs`.** `UnfinishedIsTakenUp` (`UnfinishedIsAlive`): a job is active under a holder and only then, and an
execution about to return or throw, or a job that has left the queue, has seen a terminal status or a
failed call that marks it (`HolderOK`, `EndedOK`, `AliveOK`).

`ReportsAreWhole` (`ReportIsWhole`) has an invariant of its own, `WholeInv`, about the *steady* cases, those that are as they were when
the evaluation was asked for. Every execution under way that has listed the cases has each steady case scored or still on its
list, once and in the edition asked for (`TodoOf`); a steady case is scored as it is (`ResultsOK`); whoever says `COMPLETED` has all steady
cases scored (`CoverOK`). That a case costs one agent run for each delivery is a count: the runs of a case
and the executions that may still create one (`MayRun`) are together at most the deliveries (`RunsOK`).

**`AgentWorkflowsProofs`.** The first half is about `WorkflowGraph`. The library's induction theorems take an operator
for a parameter; said of a set of numbers (`InductUpTo`) and of a step function (`RecursionExists`), from the least
element that `WFMin` gives, the same facts can be used. Each recursive function is proved to exist with its
equations, and then what it computes:

- `Only` keeps what is in the set, and `reachableFrom` is the least set closed under the edges (`Reached`): as long as a round
  finds something there are more nodes than rounds.
- The depth-first search flags somebody exactly where there is a cycle (`CyclesFound`). The nodes being visited form
  a trail (`IsTrail`), so that who is met again closes a cycle; as long as nobody is flagged no visited node lies on a
  cycle (`NoneMissed`), and the calls are nested no deeper than the bound.
- With these, `ValidationIsExact`: `Accepted(d) <=> WellFormed(d)` for every graph.
- `HasShape` is what the page keeps, and what the validation finds when it finds only `ORPHANED_NODE`,
  `UNREACHABLE_TERMINAL` or `MISSING_TERMINAL` (`ShapeIsValidated`). Each edit keeps it: the ids that `uniqueNodeId` and `uniqueEdgeId`
  make are new (`FreshNodeId`, `FreshEdgeId`), and an edge that `createsCycle` lets through closes no cycle (`NoNewCycle`).

The second half is about the steps. `Inv`: a save that goes on carries a graph the validation accepted, with the tools it
saw (`CheckedOK`); since the last reset nothing was named by a version that is still to come, unless a save wrote
over a version it had not read (`NamesOK`). `ShapeInv` adds that pages, answers, the row and saves hold
graphs of the shape: without the answers and the saves it would not be inductive, since a page copies from both what it shows.
From the row's graph `RunsEndForReason` follows without a further invariant: the path is a walk, without cycles a walk meets
no node twice (`WalkIsInjective`), so it is no longer than the graph has nodes (`WalkIsShort`).

| Theorem | Establishes |
| --- | --- |
| `ValidationIsExact` | the validation accepts exactly the well-formed graphs |
| `StoredGraphsAreAccepted` | `StoredIsAccepted` |
| `VersionsNameGraphs` | `VersionNamesDefinition` |
| `EditorsKeepShape` | `EditorKeepsShape` |
| `RunsEndForReason` | `RunEndsForReason` |

**`WorkspaceProofs`, conversations.** `ConversationInv` adds to the types that who holds the row's lock has read all messages (`LockOK`),
that a turn's place tells which of its messages are stored (`StoredOK`), that a waiting run is queued once, and
that a direct turn carries exactly the history before its question (`HistoryOK`). What a run reads again is a prefix of
the messages, cut where it repeats the question (`ReadPage`), and later messages leave a prefix as it was (`Appended`). Appending and cutting of
sequences are lemmas of their own.

| Theorem | Establishes |
| --- | --- |
| `ConversationTypeCorrect` | `ConversationTypeOK` |
| `MessagesAreOrdered` | `ConversationIsOrdered` |
| `PromptsAreConversations` | `PromptIsConversation` |

**`WorkspaceProofs`, the knowledge page.** A line on its way belongs to this search and only the last one ends it (`SentOK`); what is
shown is of this search, with its sources unless they are on their way or were cleared (`ShownOK`).

| Theorem | Establishes |
| --- | --- |
| `KnowledgeTypeCorrect` | `KnowledgeTypeOK` |
| `AnswersAreWhole` | `ShownAnswerIsWhole` |

**Only model-checked.** Liveness (`EnqueuedRunSettles`, `CancelSettles`, `DocumentSettles`, `PageLoadEnds`) and
everything else that needs fairness or `ENABLED`, which the prover does not handle; and the pure algorithms of `MCAlgorithms`,
which TLC compares with their references over all small inputs. Every safety invariant that a passing run checks is a theorem.

## 14. Running

`tlc -config <run>.cfg <module>.tla` checks a run: `MCAgentRun`, `MCDocumentIngestion`, `AuthSessions`, `MCReviewedActions`,
`RealtimeChat`, `MCAgentWorkflows` and `MCWorkspace` are the modules, and `PROJECT.json` says which run
belongs to which. `tlapm <module>Proofs.tla` checks the proofs. `PROJECT.json` also lists, for each
property, the plausible bug that the run finds, and for each definition the source lines it translates.

## 15. Not modelled

- *Web interface*: only what keeps state beyond a click is modelled (the chat hook, the editor's canvas and layout,
  the knowledge page's search, the tabs' sessions). The rest renders what the API answers and holds form fields.
- *Compositions*: a document's search, a conversation's turn and a run's tool calls are modelled each in its
  component; their meeting in one state would multiply the states without a shared row to go wrong over.
- Within the modelled components: the content of messages, prompts, chunks and citations; which pages OCR
  chooses beyond its thresholds; audit records where nothing reads them; the rate limiter's buckets,
  which are never removed; retries inside HTTP clients; encryption of tokens; multi-tenancy, which
  every query applies as a filter, except where a search or a feed depends on it.
