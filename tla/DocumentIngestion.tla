-------------------------- MODULE DocumentIngestion --------------------------
(***************************************************************************)
(* One document from its upload to its deletion: the API requests that     *)
(* upload, reindex and delete it, the BullMQ jobs they enqueue, the        *)
(* document worker's two slots, the rows in PostgreSQL, the file in the    *)
(* storage directory and the points in Qdrant.  Every query and every      *)
(* vector filter names the document, so documents do not interact.         *)
(*                                                                         *)
(* A call to a store is one step.  The chunks one execution inserts have   *)
(* fresh ids and are written, embedded and searched together: a batch.  A  *)
(* batch nothing refers to any more is as good as a fresh one.             *)
(*                                                                         *)
(* A definition without a comment that stands before the one it resembles  *)
(* is a plausible bug in it, which the runs of MCDocumentIngestion find.   *)
(***************************************************************************)
EXTENDS Integers, Statuses

CONSTANTS
    Workers,        \* slots of the document worker (its concurrency is 2)
    NoWorker,       \* "nobody holds the job's lock"
    UploadJob,      \* the job the upload enqueues
    Reindexes,      \* POST .../reindex requests; each enqueues a job of its own
    Deletes,        \* DELETE requests
    Batches,        \* the ids of batches
    NoBatch,        \* "no chunks"
    MaxAttempts,    \* a job's attempts option
    MaxStalls,      \* BullMQ's maxStalledCount
    \* Bounds on what the environment does.
    MaxTroubles     \* failed calls to PostgreSQL or Redis, crashes of the
                    \* worker's process and expired job locks, in all

ASSUME WorkersAssumption  == NoWorker \notin Workers
ASSUME RequestsAssumption == UploadJob \notin Reindexes /\ Reindexes \cap Deletes = {}
ASSUME BatchesAssumption  == NoBatch \notin Batches
ASSUME BoundsAssumption   ==
    MaxAttempts \in Nat \ {0} /\ MaxStalls \in Nat /\ MaxTroubles \in Nat

Jobs == {UploadJob} \cup Reindexes

VARIABLES
    upload,    \* progress of the upload request
    req,       \* progress of each reindex and delete request
    status,    \* Document.status, "NONE" before the row exists
    deleted,   \* Document.deletedAt is set
    chunks,    \* the batch in DocumentChunk
    file,      \* the source file is in the storage directory
    vectors,   \* the batches Qdrant holds points of
    jobs,      \* the BullMQ jobs
    exec,      \* what each worker slot is doing
    alone,     \* no execution ran beside another or beside a deletion
    env        \* how much the environment has misbehaved so far

database == <<status, deleted, chunks>>
vars == <<upload, req, database, file, vectors, jobs, exec, alone, env>>

PCs == {"idle", "mark", "read", "replace", "clear", "upsert", "link", "index",
        "fail", "ack", "nack"}

Execution == [pc : PCs, job : Jobs, batch : Batches \cup {NoBatch}]
Idle == [pc |-> "idle", job |-> UploadJob, batch |-> NoBatch]

JobStates == {"none", "waiting", "active", "completed", "failed"}
Job == [state : JobStates, attemptsMade : Nat, stalls : Nat,
        holder : Workers \cup {NoWorker}]

RequestPCs == {"idle", "enqueue", "mark", "vectors", "row", "file", "done", "refused"}

Environment == [faults : Nat, crashes : Nat, lockLosses : Nat]

TypeOK ==
    /\ upload \in {"write", "create", "enqueue", "mark", "done", "failed"}
    /\ req \in [Reindexes \cup Deletes -> RequestPCs]
    /\ status \in DocumentStatus \cup {"NONE"}
    /\ deleted \in BOOLEAN /\ file \in BOOLEAN /\ alone \in BOOLEAN
    /\ chunks \in Batches \cup {NoBatch}
    /\ vectors \subseteq Batches
    /\ jobs \in [Jobs -> Job]
    /\ exec \in [Workers -> Execution]
    /\ env \in Environment

Init ==
    /\ upload = "write"
    /\ req = [r \in Reindexes \cup Deletes |-> "idle"]
    /\ status = "NONE" /\ deleted = FALSE
    /\ chunks = NoBatch
    /\ file = FALSE
    /\ vectors = {}
    /\ jobs = [j \in Jobs |-> [state |-> "none", attemptsMade |-> 0, stalls |-> 0,
                               holder |-> NoWorker]]
    /\ exec = [w \in Workers |-> Idle]
    /\ alone = TRUE
    /\ env = [faults |-> 0, crashes |-> 0, lockLosses |-> 0]

(* The guard of markProcessing, replaceChunksForEmbedding, markFailed and  *)
(* markQueuedForIngestion.                                                 *)
Live == status \notin {"NONE", "DELETING"} /\ ~deleted

(* An execution that may still touch the document. *)
Busy(w) == exec[w].pc \notin {"idle", "ack", "nack"}

DeleteUnderway == \E d \in Deletes : req[d] \in {"vectors", "row"}

SetRequest(r, pc) == req' = [req EXCEPT ![r] = pc]

Trouble(kind) ==
    /\ env.faults + env.crashes + env.lockLosses < MaxTroubles
    /\ env' = [env EXCEPT ![kind] = @ + 1]

Fault == Trouble("faults")

(* Batches a row, a point or an execution still refers to. *)
InUse == {chunks} \cup vectors \cup {exec[w].batch : w \in Workers}

AddJob(j) == jobs' = [jobs EXCEPT ![j].state = "waiting"]

-----------------------------------------------------------------------------
(* POST /documents: the file, the row, the job. *)

WriteFile ==
    /\ upload = "write"
    /\ file' = TRUE
    /\ upload' = "create"
    /\ UNCHANGED <<req, database, vectors, jobs, exec, alone, env>>

CreateRowAsQueued ==
    /\ upload = "create"
    /\ status' = "QUEUED"
    /\ upload' = "enqueue"
    /\ UNCHANGED <<req, deleted, chunks, file, vectors, jobs, exec, alone, env>>

CreateRow ==
    /\ upload = "create"
    /\ status' = "UPLOADED"
    /\ upload' = "enqueue"
    /\ UNCHANGED <<req, deleted, chunks, file, vectors, jobs, exec, alone, env>>

EnqueueUpload ==
    /\ upload = "enqueue"
    /\ \/ AddJob(UploadJob) /\ upload' = "done" /\ UNCHANGED env
       \/ Fault /\ upload' = "mark" /\ UNCHANGED jobs
    /\ UNCHANGED <<req, database, file, vectors, exec, alone>>

(* The queue was down: the row says so. *)
MarkUploadFailed ==
    /\ upload = "mark"
    /\ status' = IF Live THEN "FAILED" ELSE status
    /\ upload' = "failed"
    /\ UNCHANGED <<req, deleted, chunks, file, vectors, jobs, exec, alone, env>>

-----------------------------------------------------------------------------
(* POST /documents/:documentId/reindex: the job first, the row after it.   *)

FindForReindex(r) ==
    /\ req[r] = "idle"
    /\ status # "NONE"
    /\ SetRequest(r, IF deleted THEN "refused" ELSE "enqueue")
    /\ UNCHANGED <<upload, database, file, vectors, jobs, exec, alone, env>>

EnqueueReindex(r) ==
    /\ req[r] = "enqueue"
    /\ \/ AddJob(r) /\ SetRequest(r, "mark") /\ UNCHANGED env
       \/ Fault /\ SetRequest(r, "refused") /\ UNCHANGED jobs
    /\ UNCHANGED <<upload, database, file, vectors, exec, alone>>

(* markQueuedForIngestion, whatever the job has done by now. *)
MarkQueued(r) ==
    /\ req[r] = "mark"
    /\ status' = IF Live THEN "UPLOADED" ELSE status
    /\ SetRequest(r, IF Live THEN "done" ELSE "refused")
    /\ UNCHANGED <<upload, deleted, chunks, file, vectors, jobs, exec, alone, env>>

-----------------------------------------------------------------------------
(* DELETE /documents/:documentId: the vectors, the row with its chunks,    *)
(* the file.  A request whose database call fails, or whose process dies,  *)
(* takes no further step; no request is obliged to take one.               *)

FindForDelete(d) ==
    /\ req[d] = "idle"
    /\ status # "NONE"
    /\ SetRequest(d, IF deleted THEN "refused" ELSE "vectors")
    /\ alone' = (alone /\ (deleted \/ \A w \in Workers : ~Busy(w)))
    /\ UNCHANGED <<upload, database, file, vectors, jobs, exec, env>>

DeleteVectors(d) ==
    /\ req[d] = "vectors"
    /\ \/ vectors' = {} /\ SetRequest(d, "row")
       \/ SetRequest(d, "refused") /\ UNCHANGED vectors
    /\ UNCHANGED <<upload, database, file, jobs, exec, alone, env>>

DeleteRowOnly(d) ==
    /\ req[d] = "row"
    /\ ~deleted
    /\ status' = "DELETING" /\ deleted' = TRUE
    /\ SetRequest(d, "file")
    /\ UNCHANGED <<upload, chunks, file, vectors, jobs, exec, alone, env>>

DeleteRow(d) ==
    /\ req[d] = "row"
    /\ \/ /\ ~deleted
          /\ status' = "DELETING" /\ deleted' = TRUE /\ chunks' = NoBatch
          /\ SetRequest(d, "file")
       \/ /\ deleted
          /\ SetRequest(d, "refused")
          /\ UNCHANGED database
    /\ UNCHANGED <<upload, file, vectors, jobs, exec, alone, env>>

(* Best effort: a file that cannot be unlinked is logged and kept. *)
DeleteFile(d) ==
    /\ req[d] = "file"
    /\ file' \in {FALSE, file}
    /\ SetRequest(d, "done")
    /\ UNCHANGED <<upload, database, vectors, jobs, exec, alone, env>>

-----------------------------------------------------------------------------
(* The queue. *)

Pick(w, j) ==
    /\ jobs[j].state = "waiting"
    /\ exec[w].pc = "idle"
    /\ jobs' = [jobs EXCEPT ![j].state = "active", ![j].holder = w]
    /\ exec' = [exec EXCEPT ![w] = [Idle EXCEPT !.pc = "mark", !.job = j]]
    /\ alone' = (alone /\ ~DeleteUnderway /\ \A v \in Workers : ~Busy(v))
    /\ UNCHANGED <<upload, req, database, file, vectors, env>>

(* The job of a worker that returned or threw; one that has lost its lock  *)
(* cannot move the job.                                                    *)
EndJob(w, outcome) ==
    LET j == exec[w].job
    IN  /\ exec' = [exec EXCEPT ![w] = Idle]
        /\ jobs' = IF jobs[j].holder = w THEN [jobs EXCEPT ![j] = outcome] ELSE jobs
        /\ UNCHANGED <<upload, req, database, file, vectors, alone, env>>

JobDone(w) ==
    /\ exec[w].pc = "ack"
    /\ EndJob(w, [jobs[exec[w].job] EXCEPT !.state = "completed", !.holder = NoWorker])

JobFailedUnreported(w) ==
    /\ exec[w].pc = "nack"
    /\ EndJob(w, jobs[exec[w].job])

JobFailed(w) ==
    /\ exec[w].pc = "nack"
    /\ LET job == jobs[exec[w].job]
       IN  EndJob(w, [job EXCEPT
              !.state = IF job.attemptsMade + 1 < MaxAttempts THEN "waiting" ELSE "failed",
              !.attemptsMade = @ + 1,
              !.holder = NoWorker])

Requeue(j) ==
    jobs' = [jobs EXCEPT
               ![j].state = IF jobs[j].stalls < MaxStalls THEN "waiting" ELSE "failed",
               ![j].stalls = @ + 1,
               ![j].holder = NoWorker]

Stall(j) ==
    /\ jobs[j].state = "active"
    /\ jobs[j].holder = NoWorker
    /\ Requeue(j)
    /\ UNCHANGED <<upload, req, database, file, vectors, exec, alone, env>>

LockLost(j) ==
    /\ jobs[j].state = "active"
    /\ jobs[j].holder # NoWorker
    /\ Trouble("lockLosses")
    /\ Requeue(j)
    /\ UNCHANGED <<upload, req, database, file, vectors, exec, alone>>

(* The worker's process dies, and with it every slot. *)
Crash ==
    /\ \E w \in Workers : exec[w].pc # "idle"
    /\ Trouble("crashes")
    /\ exec' = [w \in Workers |-> Idle]
    /\ jobs' = [j \in Jobs |-> [jobs[j] EXCEPT !.holder = NoWorker]]
    /\ UNCHANGED <<upload, req, database, file, vectors, alone>>

-----------------------------------------------------------------------------
(* processDocument. *)

GoTo(w, pc) == exec' = [exec EXCEPT ![w].pc = pc]

(* processDocument returned or threw. *)
Finish(w, pc) == exec' = [exec EXCEPT ![w].pc = pc, ![w].batch = NoBatch]

outside == <<upload, req, file, jobs, alone, env>>

MarkProcessingUnguarded(w) ==
    /\ exec[w].pc = "mark"
    /\ status' = "PROCESSING"
    /\ GoTo(w, "read")
    /\ UNCHANGED <<outside, deleted, chunks, vectors>>

(* markProcessing: that it matched no row goes unnoticed. *)
MarkProcessing(w) ==
    /\ exec[w].pc = "mark"
    /\ status' = IF Live THEN "PROCESSING" ELSE status
    /\ GoTo(w, "read")
    /\ UNCHANGED <<outside, deleted, chunks, vectors>>

(* readFile, assertChecksum, parseDocument, chunkText. *)
ReadSource(w) ==
    /\ exec[w].pc = "read"
    /\ file
    /\ GoTo(w, "replace")
    /\ UNCHANGED <<outside, database, vectors>>

Insert(w) ==
    /\ Batches \ InUse # {}
    /\ chunks' = CHOOSE b \in Batches : b \notin InUse
    /\ exec' = [exec EXCEPT ![w].pc = "clear", ![w].batch = chunks']

ReplaceChunksUnguarded(w) ==
    /\ exec[w].pc = "replace"
    /\ status' = IF Live THEN "PROCESSING" ELSE status
    /\ Insert(w)
    /\ UNCHANGED <<outside, deleted, vectors>>

(* replaceChunksForEmbedding: one transaction, refused once deleted. *)
ReplaceChunks(w) ==
    /\ exec[w].pc = "replace"
    /\ \/ /\ Live
          /\ status' = "PROCESSING"
          /\ Insert(w)
          /\ UNCHANGED deleted
       \/ /\ ~Live
          /\ GoTo(w, "fail")
          /\ UNCHANGED database
    /\ UNCHANGED <<outside, vectors>>

ClearNothing(w) ==
    /\ exec[w].pc = "clear"
    /\ GoTo(w, "upsert")
    /\ UNCHANGED <<outside, database, vectors>>

(* vectorStore.deleteDocument: every point of the document, whoever's. *)
ClearVectors(w) ==
    /\ exec[w].pc = "clear"
    /\ vectors' = {}
    /\ GoTo(w, "upsert")
    /\ UNCHANGED <<outside, database>>

(* The batch is embedded and upserted; the second alternative is an upsert *)
(* that did its work and then failed.                                      *)
UpsertVectors(w) ==
    /\ exec[w].pc = "upsert"
    /\ vectors' = vectors \cup {exec[w].batch}
    /\ GoTo(w, "link") \/ GoTo(w, "fail")
    /\ UNCHANGED <<outside, database>>

(* setChunkVectorIds: nothing reads DocumentChunk.vectorId. *)
LinkVectors(w) ==
    /\ exec[w].pc = "link"
    /\ GoTo(w, "index")
    /\ UNCHANGED <<outside, database, vectors>>

(* markIndexed: the row whatever its state, deleted or not. *)
MarkIndexed(w) ==
    /\ exec[w].pc = "index"
    /\ status' = "INDEXED"
    /\ Finish(w, "ack")
    /\ UNCHANGED <<outside, deleted, chunks, vectors>>

(* Reading, parsing, OCR, embedding or Qdrant fails. *)
IngestFails(w) ==
    /\ exec[w].pc \in {"read", "clear", "upsert"}
    /\ GoTo(w, "fail")
    /\ UNCHANGED <<outside, database, vectors>>

RethrowOnly(w) ==
    /\ exec[w].pc = "fail"
    /\ Finish(w, "nack")
    /\ UNCHANGED <<outside, database, vectors>>

(* The catch block: markFailed, then rethrow. *)
MarkFailed(w) ==
    /\ exec[w].pc = "fail"
    /\ status' = IF Live THEN "FAILED" ELSE status
    /\ Finish(w, "nack")
    /\ UNCHANGED <<outside, deleted, chunks, vectors>>

(* A database call of the execution fails. *)
DatabaseFault(w) ==
    /\ Fault
    /\ \/ exec[w].pc \in {"replace", "link", "index"} /\ GoTo(w, "fail")
       \/ exec[w].pc \in {"mark", "fail"} /\ Finish(w, "nack")
    /\ UNCHANGED <<upload, req, database, file, vectors, jobs, alone>>

Work(w) ==
    \/ MarkProcessing(w) \/ ReadSource(w)  \/ ReplaceChunks(w) \/ ClearVectors(w)
    \/ UpsertVectors(w)  \/ LinkVectors(w) \/ MarkIndexed(w)   \/ IngestFails(w)
    \/ MarkFailed(w)     \/ JobDone(w)     \/ JobFailed(w)

Next ==
    \/ WriteFile \/ CreateRow \/ EnqueueUpload \/ MarkUploadFailed \/ Crash
    \/ \E r \in Reindexes : FindForReindex(r) \/ EnqueueReindex(r) \/ MarkQueued(r)
    \/ \E d \in Deletes :
          FindForDelete(d) \/ DeleteVectors(d) \/ DeleteRow(d) \/ DeleteFile(d)
    \/ \E j \in Jobs : Stall(j) \/ LockLost(j)
    \/ \E w \in Workers : Work(w) \/ DatabaseFault(w) \/ \E j \in Jobs : Pick(w, j)

(* Slots that are alive go on, waiting jobs are picked up, stalled ones    *)
(* are found.  No request is obliged to be made or to go on.               *)
Fairness ==
    /\ \A j \in Jobs : WF_vars(Stall(j))
    /\ \A w \in Workers : WF_vars(Work(w)) /\ WF_vars(\E j \in Jobs : Pick(w, j))

Spec == Init /\ [][Next]_vars

FairSpec == Spec /\ Fairness

-----------------------------------------------------------------------------
(* Properties *)

(* What a search finds of the document: the hits whose chunk rows are      *)
(* still there, of an indexed document that is not deleted.                *)
SearchResult == {b \in vectors : b = chunks /\ status = "INDEXED" /\ ~deleted}

(* An INDEXED document is the one a search finds, all of it and nothing    *)
(* stale beside it, over retries, crashes and failed calls, as long as its *)
(* executions and deletions do not overlap and no deletion has stopped     *)
(* half way.                                                               *)
IndexedIsSearchable ==
    /\ alone /\ \A d \in Deletes : req[d] # "row"
    /\ status = "INDEXED" /\ ~deleted
    => SearchResult = {chunks} /\ vectors = {chunks}

(* Nothing of a deleted document comes back: no retry, however late, no    *)
(* stalled job and no overlapping execution inserts its text again, and    *)
(* its vectors stay gone if no execution overlapped the deletion.          *)
DeletedIsGone == deleted => chunks = NoBatch /\ (alone => vectors = {})

(* A deleted document is not taken up again.  Only an execution that       *)
(* inserted its chunks before the deletion may still write INDEXED.        *)
DeletionIsFinal ==
    [][deleted => /\ deleted'
                  /\ \/ status' = status
                     \/ status' = "INDEXED" /\ \E w \in Workers : exec[w].batch # NoBatch
      ]_vars

(* A document says PROCESSING only while a job for it waits or runs: no    *)
(* failure, crash or overlap of two jobs leaves it there for good, unless  *)
(* a database call failed, a lock was lost or a job stalled too often.     *)
ProcessingIsAlive ==
    /\ status = "PROCESSING" /\ env.faults = 0 /\ env.lockLosses = 0
    /\ \A j \in Jobs : jobs[j].stalls <= MaxStalls
    => \/ \E j \in Jobs : jobs[j].state \in {"waiting", "active"}
       \/ \E w \in Workers : Busy(w)

(* A document whose job was added ends INDEXED or FAILED with its job out  *)
(* of the queue, through crashes, retries and lost locks, unless a user    *)
(* deletes it or asks for it to be indexed anew, a database call failed,   *)
(* the job stalled too often, or an execution beside the job's died.       *)
DocumentSettles ==
    jobs[UploadJob].state = "waiting"
      ~> \/ /\ status \in {"INDEXED", "FAILED"}
            /\ jobs[UploadJob].state \in {"completed", "failed"}
         \/ deleted \/ \E r \in Reindexes : req[r] # "idle"
         \/ env.faults > 0 \/ jobs[UploadJob].stalls > MaxStalls
         \/ env.lockLosses > 0 /\ env.crashes > 0

-----------------------------------------------------------------------------
(* What the documentation says and the code does not keep. *)

(* Nobody is working on the document or about to. *)
Quiet ==
    /\ upload \in {"done", "failed"}
    /\ \A r \in Reindexes \cup Deletes : req[r] \in {"idle", "done", "refused"}
    /\ \A j \in Jobs : jobs[j].state \notin {"waiting", "active"}
    /\ \A w \in Workers : ~Busy(w)

(* docs/rag-and-mcp.md: reindexing "swaps active vectors idempotently" and *)
(* INDEXED comes "only after PostgreSQL chunks and Qdrant vectors both     *)
(* succeed".  Two executions at once leave INDEXED without its vectors.    *)
ReindexedIsSearchable == Quiet /\ status = "INDEXED" /\ ~deleted => SearchResult # {}

(* docs/rag-and-mcp.md: "Deletion removes vectors before final metadata    *)
(* removal."  An execution under way upserts its vectors after that.       *)
DeletedHasNoVectors == Quiet /\ deleted => vectors = {}
=============================================================================
