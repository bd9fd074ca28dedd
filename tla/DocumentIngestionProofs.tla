----------------------- MODULE DocumentIngestionProofs -----------------------
(***************************************************************************)
(* What holds of DocumentIngestion for every number of worker slots,       *)
(* reindex and delete requests, attempts, stalls and failures.             *)
(***************************************************************************)
EXTENDS DocumentIngestion, TLAPS

(* The places at which an execution has inserted its chunks.               *)
Holding == {"clear", "upsert", "link", "index"}

(* An execution that has inserted its chunks knows them.                   *)
BatchOK == \A w \in Workers : exec[w].pc \in Holding => exec[w].batch \in Batches

Typed == TypeOK /\ BatchOK

-----------------------------------------------------------------------------
(* How an execution moves. *)

LEMMA Places ==
    /\ Holding \subseteq PCs
    /\ {"idle", "mark", "read", "replace", "fail", "ack", "nack"} \subseteq PCs
    /\ {"idle", "mark", "read", "replace", "fail", "ack", "nack"} \cap Holding = {}
BY DEF Holding, PCs

LEMMA IdleTyped == Idle \in Execution /\ Idle.pc = "idle" /\ Idle.batch = NoBatch
BY Places DEF Idle, Execution, Jobs

LEMMA GoToMoves ==
    ASSUME exec \in [Workers -> Execution], NEW w \in Workers, NEW p \in PCs, GoTo(w, p)
    PROVE  /\ exec' \in [Workers -> Execution]
           /\ exec'[w].pc = p /\ exec'[w].job = exec[w].job
           /\ exec'[w].batch = exec[w].batch
           /\ \A v \in Workers \ {w} : exec'[v] = exec[v]
<1>1. exec'[w] = [exec[w] EXCEPT !.pc = p] /\ exec[w] \in Execution
  BY DEF GoTo
<1>2. exec'[w] \in Execution
  BY <1>1 DEF Execution
<1>3. exec'[w].pc = p /\ exec'[w].job = exec[w].job /\ exec'[w].batch = exec[w].batch
  BY <1>1 DEF Execution
<1>. QED
  BY <1>2, <1>3 DEF GoTo

LEMMA FinishMoves ==
    ASSUME exec \in [Workers -> Execution], NEW w \in Workers, NEW p \in PCs, Finish(w, p)
    PROVE  /\ exec' \in [Workers -> Execution]
           /\ exec'[w].pc = p /\ exec'[w].job = exec[w].job
           /\ \A v \in Workers \ {w} : exec'[v] = exec[v]
<1>1. exec'[w] = [exec[w] EXCEPT !.pc = p, !.batch = NoBatch] /\ exec[w] \in Execution
  BY DEF Finish
<1>2. exec'[w] \in Execution
  BY <1>1 DEF Execution
<1>3. exec'[w].pc = p /\ exec'[w].job = exec[w].job
  BY <1>1 DEF Execution
<1>. QED
  BY <1>2, <1>3 DEF Finish

(* The new batch is one that nothing refers to.                            *)
LEMMA InsertMoves ==
    ASSUME exec \in [Workers -> Execution], NEW w \in Workers, Insert(w)
    PROVE  /\ chunks' \in Batches \ InUse
           /\ exec' \in [Workers -> Execution]
           /\ exec'[w].pc = "clear" /\ exec'[w].job = exec[w].job
           /\ exec'[w].batch = chunks'
           /\ \A v \in Workers \ {w} : exec'[v] = exec[v]
<1>0. chunks' \in Batches \ InUse
  BY DEF Insert
<1>1. exec'[w] = [exec[w] EXCEPT !.pc = "clear", !.batch = chunks'] /\ exec[w] \in Execution
  BY DEF Insert
<1>2. exec'[w] \in Execution
  BY <1>0, <1>1, Places DEF Execution, Holding
<1>3. exec'[w].pc = "clear" /\ exec'[w].job = exec[w].job /\ exec'[w].batch = chunks'
  BY <1>1 DEF Execution
<1>. QED
  BY <1>0, <1>2, <1>3 DEF Insert

LEMMA PickMoves ==
    ASSUME exec \in [Workers -> Execution], jobs \in [Jobs -> Job],
           NEW w \in Workers, NEW j \in Jobs, Pick(w, j)
    PROVE  /\ exec' \in [Workers -> Execution] /\ jobs' \in [Jobs -> Job]
           /\ exec'[w].pc = "mark" /\ exec'[w].job = j /\ exec'[w].batch = NoBatch
           /\ \A v \in Workers \ {w} : exec'[v] = exec[v]
           /\ jobs'[j].state = "active" /\ jobs'[j].holder = w
           /\ jobs'[j].stalls = jobs[j].stalls
           /\ \A i \in Jobs \ {j} : jobs'[i] = jobs[i]
<1>1. exec'[w] = [Idle EXCEPT !.pc = "mark", !.job = j] /\ Idle \in Execution
  BY IdleTyped DEF Pick
<1>2. exec'[w] \in Execution
  BY <1>1, Places DEF Execution
<1>3. exec'[w].pc = "mark" /\ exec'[w].job = j /\ exec'[w].batch = NoBatch
  BY <1>1, IdleTyped DEF Execution
<1>4. jobs'[j] = [jobs[j] EXCEPT !.state = "active", !.holder = w]
  BY DEF Pick
<1>5. /\ jobs'[j] \in Job /\ jobs'[j].state = "active" /\ jobs'[j].holder = w
      /\ jobs'[j].stalls = jobs[j].stalls
  BY <1>4 DEF Job, JobStates
<1>. QED
  BY <1>2, <1>3, <1>5 DEF Pick

(* How a job moves. *)
LEMMA JobMoves ==
    ASSUME jobs \in [Jobs -> Job], NEW j \in Jobs
    PROVE  /\ Requeue(j) => /\ jobs' \in [Jobs -> Job]
                            /\ jobs'[j].stalls = jobs[j].stalls + 1
                            /\ jobs'[j].holder = NoWorker
                            /\ jobs'[j].state = IF jobs[j].stalls < MaxStalls
                                                THEN "waiting" ELSE "failed"
                            /\ \A i \in Jobs \ {j} : jobs'[i] = jobs[i]
           /\ AddJob(j) => /\ jobs' \in [Jobs -> Job]
                           /\ jobs'[j].state = "waiting"
                           /\ jobs'[j].holder = jobs[j].holder
                           /\ jobs'[j].stalls = jobs[j].stalls
                           /\ \A i \in Jobs \ {j} : jobs'[i] = jobs[i]
<1>. {"none", "waiting", "active", "completed", "failed"} \subseteq JobStates
  BY DEF JobStates
<1>. jobs[j] \in Job /\ DOMAIN jobs = Jobs
  OBVIOUS
<1>1. ASSUME Requeue(j)
      PROVE  /\ jobs' \in [Jobs -> Job]
             /\ jobs'[j].stalls = jobs[j].stalls + 1
             /\ jobs'[j].holder = NoWorker
             /\ jobs'[j].state = IF jobs[j].stalls < MaxStalls THEN "waiting" ELSE "failed"
             /\ \A i \in Jobs \ {j} : jobs'[i] = jobs[i]
  <2>1. jobs'[j] = [state |-> IF jobs[j].stalls < MaxStalls THEN "waiting" ELSE "failed",
                    attemptsMade |-> jobs[j].attemptsMade, stalls |-> jobs[j].stalls + 1,
                    holder |-> NoWorker]
    BY <1>1 DEF Job, Requeue
  <2>2. jobs'[j] \in Job
    BY <2>1 DEF Job
  <2>. QED
    BY <1>1, <2>1, <2>2 DEF Requeue
<1>2. ASSUME AddJob(j)
      PROVE  /\ jobs' \in [Jobs -> Job]
             /\ jobs'[j].state = "waiting" /\ jobs'[j].holder = jobs[j].holder
             /\ jobs'[j].stalls = jobs[j].stalls
             /\ \A i \in Jobs \ {j} : jobs'[i] = jobs[i]
  <2>1. jobs'[j] = [jobs[j] EXCEPT !.state = "waiting"]
    BY <1>2 DEF AddJob
  <2>2. jobs'[j] \in Job
    BY <2>1 DEF Job
  <2>. QED
    BY <1>2, <2>1, <2>2 DEF AddJob, Job
<1>. QED
  BY <1>1, <1>2

(* What a failed attempt makes of its job.                                 *)
LEMMA FailedJob ==
    ASSUME NEW old \in Job, NEW next \in {"waiting", "failed"}, NEW new,
           new = [old EXCEPT !.state = next, !.attemptsMade = @ + 1, !.holder = NoWorker]
    PROVE  /\ new \in Job /\ new.stalls = old.stalls
           /\ new.holder = NoWorker /\ new.state = next
<1>1. new = [state |-> next, attemptsMade |-> old.attemptsMade + 1,
             stalls |-> old.stalls, holder |-> NoWorker]
  BY DEF Job
<1>2. next \in JobStates /\ old.attemptsMade + 1 \in Nat /\ old.stalls \in Nat
  BY DEF JobStates, Job
<1>. QED
  BY <1>1, <1>2 DEF Job

(* A worker that returned or threw is idle; only the holder of its job     *)
(* moves it, out of the active state.                                      *)
LEMMA EndMoves ==
    ASSUME exec \in [Workers -> Execution], jobs \in [Jobs -> Job], NEW w \in Workers,
           JobDone(w) \/ JobFailed(w)
    PROVE  /\ exec' \in [Workers -> Execution] /\ jobs' \in [Jobs -> Job]
           /\ exec[w].pc \in {"ack", "nack"} /\ exec'[w] = Idle
           /\ \A v \in Workers \ {w} : exec'[v] = exec[v]
           /\ \A j \in Jobs :
                /\ jobs'[j].stalls = jobs[j].stalls
                /\ \/ jobs'[j] = jobs[j]
                   \/ /\ j = exec[w].job /\ jobs[j].holder = w
                      /\ jobs'[j].holder = NoWorker
                      /\ jobs'[j].state \in {"completed", "waiting", "failed"}
           /\ UNCHANGED <<upload, req, database, file, vectors, alone, env>>
<1>. {"none", "waiting", "active", "completed", "failed"} \subseteq JobStates
  BY DEF JobStates
<1>0. exec[w].job \in Jobs /\ jobs[exec[w].job] \in Job
  BY DEF Execution
<1>1. ASSUME NEW outcome \in Job, EndJob(w, outcome),
             outcome.stalls = jobs[exec[w].job].stalls, outcome.holder = NoWorker,
             outcome.state \in {"completed", "waiting", "failed"}
      PROVE  /\ jobs' \in [Jobs -> Job]
             /\ \A j \in Jobs :
                  /\ jobs'[j].stalls = jobs[j].stalls
                  /\ \/ jobs'[j] = jobs[j]
                     \/ /\ j = exec[w].job /\ jobs[j].holder = w
                        /\ jobs'[j].holder = NoWorker
                        /\ jobs'[j].state \in {"completed", "waiting", "failed"}
  <2>1. CASE jobs[exec[w].job].holder # w
    BY <1>1, <2>1 DEF EndJob
  <2>2. CASE jobs[exec[w].job].holder = w
    <3>1. jobs' = [jobs EXCEPT ![exec[w].job] = outcome]
      BY <1>1, <2>2 DEF EndJob
    <3>. QED
      BY <1>0, <1>1, <2>2, <3>1
  <2>. QED
    BY <2>1, <2>2
<1>2. ASSUME NEW outcome, EndJob(w, outcome)
      PROVE  /\ exec' \in [Workers -> Execution] /\ exec'[w] = Idle
             /\ \A v \in Workers \ {w} : exec'[v] = exec[v]
             /\ UNCHANGED <<upload, req, database, file, vectors, alone, env>>
  BY <1>2, IdleTyped DEF EndJob
<1>3. CASE JobDone(w)
  <2>. DEFINE outcome == [jobs[exec[w].job] EXCEPT !.state = "completed", !.holder = NoWorker]
  <2>1. EndJob(w, outcome) /\ exec[w].pc = "ack"
    BY <1>3 DEF JobDone
  <2>2. /\ outcome \in Job /\ outcome.stalls = jobs[exec[w].job].stalls
        /\ outcome.holder = NoWorker /\ outcome.state = "completed"
    BY <1>0 DEF Job
  <2>. HIDE DEF outcome
  <2>. QED
    BY <1>1, <1>2, <2>1, <2>2
<1>4. CASE JobFailed(w)
  <2>. DEFINE job == jobs[exec[w].job]
              next == IF job.attemptsMade + 1 < MaxAttempts THEN "waiting" ELSE "failed"
              outcome == [job EXCEPT !.state = next, !.attemptsMade = @ + 1,
                                     !.holder = NoWorker]
  <2>1. EndJob(w, outcome) /\ exec[w].pc = "nack"
    BY <1>4 DEF JobFailed
  <2>2. next \in {"waiting", "failed"} /\ job \in Job
    BY <1>0
  <2>3. /\ outcome \in Job /\ outcome.stalls = job.stalls
        /\ outcome.holder = NoWorker /\ outcome.state = next
    <3>1. outcome = [job EXCEPT !.state = next, !.attemptsMade = @ + 1,
                               !.holder = NoWorker]
      OBVIOUS
    <3>. HIDE DEF outcome, job, next
    <3>. QED
      BY <2>2, <3>1, FailedJob, Zenon
  <2>. HIDE DEF outcome, next
  <2>. QED
    BY <1>1, <1>2, <2>1, <2>2, <2>3
<1>. QED
  BY <1>3, <1>4

LEMMA CrashMoves ==
    ASSUME exec \in [Workers -> Execution], jobs \in [Jobs -> Job], Crash
    PROVE  /\ exec' \in [Workers -> Execution] /\ jobs' \in [Jobs -> Job]
           /\ \A w \in Workers : exec'[w] = Idle
           /\ \A j \in Jobs : /\ jobs'[j].state = jobs[j].state
                              /\ jobs'[j].stalls = jobs[j].stalls
                              /\ jobs'[j].holder = NoWorker
<1>1. exec' \in [Workers -> Execution] /\ \A w \in Workers : exec'[w] = Idle
  BY IdleTyped DEF Crash
<1>2. ASSUME NEW j \in Jobs
      PROVE  /\ jobs'[j] \in Job /\ jobs'[j].state = jobs[j].state
             /\ jobs'[j].stalls = jobs[j].stalls /\ jobs'[j].holder = NoWorker
  BY DEF Crash, Job
<1>. QED
  BY <1>1, <1>2 DEF Crash

LEMMA TroubleCounts ==
    ASSUME env \in Environment, NEW kind \in {"faults", "crashes", "lockLosses"},
           Trouble(kind)
    PROVE  env' \in Environment /\ env'[kind] > 0
           /\ env'.faults >= env.faults /\ env'.lockLosses >= env.lockLosses
BY DEF Environment, Trouble

-----------------------------------------------------------------------------
(* Typing, and what the row and the queue say of each other. *)

(* The row exists once the upload has created it; only a deletion makes it *)
(* DELETING; a deleted row has no chunks and is taken up by no guarded     *)
(* write.                                                                  *)
RowOK ==
    /\ status = "NONE" <=> upload \in {"write", "create"}
    /\ status = "NONE" => /\ ~deleted
                          /\ \A r \in Reindexes \cup Deletes : req[r] = "idle"
                          /\ \A w \in Workers : exec[w].pc \notin Holding
    /\ status = "DELETING" => deleted
    /\ deleted => status \in {"DELETING", "INDEXED"} /\ chunks = NoBatch

(* A job does not exist before its request has added it, and only an       *)
(* active job is held.                                                     *)
QueueOK ==
    /\ upload \in {"write", "create", "enqueue"} => jobs[UploadJob].state = "none"
    /\ \A r \in Reindexes : req[r] \in {"idle", "enqueue"} => jobs[r].state = "none"
    /\ \A j \in Jobs : jobs[j].state # "active" => jobs[j].holder = NoWorker

Base == Typed /\ RowOK /\ QueueOK

LEMMA StatusMembers ==
    {"UPLOADED", "PROCESSING", "INDEXED", "FAILED", "DELETING"} = DocumentStatus
BY DEF DocumentStatus

LEMMA RequestMembers ==
    {"idle", "enqueue", "mark", "vectors", "row", "file", "done", "refused"} = RequestPCs
BY DEF RequestPCs

LEMMA BaseInit == Init => Base
<1>. SUFFICES ASSUME Init PROVE Base
  OBVIOUS
<1>1. TypeOK
  BY IdleTyped, StatusMembers, RequestMembers, BoundsAssumption
  DEF Init, TypeOK, Job, JobStates, Environment
<1>2. BatchOK /\ RowOK /\ QueueOK
  BY Places, IdleTyped DEF Init, BatchOK, RowOK, QueueOK, Jobs
<1>. QED
  BY <1>1, <1>2 DEF Base, Typed

(* A request moves to one of its places.                                   *)
LEMMA RequestMoves ==
    ASSUME req \in [Reindexes \cup Deletes -> RequestPCs],
           NEW r \in Reindexes \cup Deletes, NEW pc \in RequestPCs, SetRequest(r, pc)
    PROVE  /\ req' \in [Reindexes \cup Deletes -> RequestPCs] /\ req'[r] = pc
           /\ \A q \in (Reindexes \cup Deletes) \ {r} : req'[q] = req[q]
BY DEF SetRequest

LEMMA BaseStep == Base /\ [Next]_vars => Base'
<1>. SUFFICES ASSUME Base, [Next]_vars PROVE Base'
  OBVIOUS
<1>. USE StatusMembers, RequestMembers, Places
     DEF Base, Typed, TypeOK, BatchOK, RowOK, QueueOK, database
<1>. UploadJob \in Jobs /\ Reindexes \subseteq Jobs
  BY DEF Jobs
<1>1. ASSUME WriteFile PROVE Base'
  BY <1>1 DEF WriteFile
<1>2. ASSUME CreateRow PROVE Base'
  BY <1>2 DEF CreateRow
<1>3. ASSUME EnqueueUpload PROVE Base'
  BY <1>3, JobMoves, TroubleCounts, RequestsAssumption
  DEF EnqueueUpload, Fault, Jobs
<1>4. ASSUME MarkUploadFailed PROVE Base'
  BY <1>4 DEF MarkUploadFailed, Live
<1>5. ASSUME NEW r \in Reindexes, FindForReindex(r) PROVE Base'
  BY <1>5, RequestMoves DEF FindForReindex
<1>6. ASSUME NEW r \in Reindexes, EnqueueReindex(r) PROVE Base'
  BY <1>6, RequestMoves, JobMoves, TroubleCounts, RequestsAssumption
  DEF EnqueueReindex, Fault
<1>7. ASSUME NEW r \in Reindexes, MarkQueued(r) PROVE Base'
  BY <1>7, RequestMoves DEF MarkQueued, Live
<1>8. ASSUME NEW d \in Deletes, FindForDelete(d) PROVE Base'
  BY <1>8, RequestMoves, RequestsAssumption DEF FindForDelete
<1>9. ASSUME NEW d \in Deletes, DeleteVectors(d) PROVE Base'
  BY <1>9, RequestMoves, RequestsAssumption DEF DeleteVectors
<1>10. ASSUME NEW d \in Deletes, DeleteRow(d) PROVE Base'
  BY <1>10, RequestMoves, RequestsAssumption DEF DeleteRow
<1>11. ASSUME NEW d \in Deletes, DeleteFile(d) PROVE Base'
  BY <1>11, RequestMoves, RequestsAssumption DEF DeleteFile
<1>12. ASSUME NEW j \in Jobs, Stall(j) PROVE Base'
  BY <1>12, JobMoves DEF Stall
<1>13. ASSUME NEW j \in Jobs, LockLost(j) PROVE Base'
  BY <1>13, JobMoves, TroubleCounts DEF LockLost
<1>14. ASSUME Crash PROVE Base'
  BY <1>14, CrashMoves, TroubleCounts, IdleTyped DEF Crash
<1>15. ASSUME NEW w \in Workers, NEW j \in Jobs, Pick(w, j) PROVE Base'
  <2>1. /\ jobs[j].state = "waiting"
        /\ jobs' \in [Jobs -> Job] /\ jobs'[j].state = "active"
        /\ \A i \in Jobs \ {j} : jobs'[i] = jobs[i]
    BY <1>15, PickMoves DEF Pick
  <2>2. /\ exec' \in [Workers -> Execution] /\ exec'[w].pc = "mark"
        /\ \A v \in Workers \ {w} : exec'[v] = exec[v]
    BY <1>15, PickMoves
  <2>3. BatchOK' /\ RowOK'
    BY <1>15, <2>2 DEF Pick
  <2>4. alone' \in BOOLEAN
    BY <1>15 DEF Pick
  <2>5. TypeOK'
    BY <1>15, <2>1, <2>2, <2>4 DEF Pick
  <2>6. QueueOK'
    BY <1>15, <2>1 DEF Pick
  <2>. QED
    BY <2>3, <2>5, <2>6
<1>16. ASSUME NEW w \in Workers, MarkProcessing(w) PROVE Base'
  BY <1>16, GoToMoves DEF MarkProcessing, Live, outside
<1>17. ASSUME NEW w \in Workers, ReadSource(w) PROVE Base'
  BY <1>17, GoToMoves DEF ReadSource, outside
<1>18. ASSUME NEW w \in Workers, ReplaceChunks(w) PROVE Base'
  BY <1>18, GoToMoves, InsertMoves DEF ReplaceChunks, Live, outside
<1>19. ASSUME NEW w \in Workers, ClearVectors(w) PROVE Base'
  BY <1>19, GoToMoves DEF ClearVectors, outside, Holding
<1>20. ASSUME NEW w \in Workers, UpsertVectors(w) PROVE Base'
  BY <1>20, GoToMoves DEF UpsertVectors, outside, Holding
<1>21. ASSUME NEW w \in Workers, LinkVectors(w) PROVE Base'
  BY <1>21, GoToMoves DEF LinkVectors, outside, Holding
<1>22. ASSUME NEW w \in Workers, MarkIndexed(w) PROVE Base'
  BY <1>22, FinishMoves DEF MarkIndexed, outside, Holding
<1>23. ASSUME NEW w \in Workers, IngestFails(w) PROVE Base'
  BY <1>23, GoToMoves DEF IngestFails, outside
<1>24. ASSUME NEW w \in Workers, MarkFailed(w) PROVE Base'
  BY <1>24, FinishMoves DEF MarkFailed, Live, outside
<1>25. ASSUME NEW w \in Workers, JobDone(w) \/ JobFailed(w) PROVE Base'
  BY <1>25, EndMoves, IdleTyped, WorkersAssumption
<1>26. ASSUME NEW w \in Workers, DatabaseFault(w) PROVE Base'
  BY <1>26, GoToMoves, FinishMoves, TroubleCounts DEF DatabaseFault, Fault
<1>27. CASE UNCHANGED vars
  BY <1>27 DEF vars
<1>. QED
  BY <1>1, <1>2, <1>3, <1>4, <1>5, <1>6, <1>7, <1>8, <1>9, <1>10, <1>11,
     <1>12, <1>13, <1>14, <1>15, <1>16, <1>17, <1>18, <1>19, <1>20, <1>21,
     <1>22, <1>23, <1>24, <1>25, <1>26, <1>27
  DEF Next, Work

-----------------------------------------------------------------------------
(* Chunks, vectors and status of a document whose executions and deletions *)
(* have not overlapped. *)

(* One execution at a time, and none during a deletion. *)
Exclusive ==
    /\ \A v, w \in Workers : Busy(v) /\ Busy(w) => v = w
    /\ DeleteUnderway => \A w \in Workers : ~Busy(w)

(* What the only execution has done so far. *)
Ingesting ==
    \A w \in Workers :
       /\ exec[w].pc \in Holding \cup {"read", "replace", "fail"} => status # "INDEXED" \/ deleted
       /\ exec[w].pc \in Holding => ~deleted /\ chunks = exec[w].batch
       /\ exec[w].pc = "upsert" => vectors = {}
       /\ exec[w].pc \in {"link", "index"} => vectors = {exec[w].batch}

(* What a deletion and a finished execution leave. *)
Settled ==
    /\ deleted \/ (\E d \in Deletes : req[d] = "row") => vectors = {}
    /\ status = "INDEXED" /\ ~deleted /\ (\A d \in Deletes : req[d] # "row")
       => vectors = {chunks} /\ chunks \in Batches

AloneOK == alone => Exclusive /\ Ingesting /\ Settled

LEMMA AloneInit == Init => AloneOK
BY IdleTyped, Places DEF Init, AloneOK, Exclusive, Ingesting, Settled, Busy, DeleteUnderway

LEMMA AloneStep == Base /\ AloneOK /\ [Next]_vars => AloneOK'
<1>. SUFFICES ASSUME Base, AloneOK, [Next]_vars PROVE AloneOK'
  OBVIOUS
<1>. USE StatusMembers, RequestMembers, Places
     DEF Base, Typed, TypeOK, BatchOK, RowOK, database,
         AloneOK, Exclusive, Ingesting, Settled, Busy, DeleteUnderway, Holding
<1>1. ASSUME WriteFile PROVE AloneOK'
  BY <1>1 DEF WriteFile
<1>2. ASSUME CreateRow PROVE AloneOK'
  BY <1>2 DEF CreateRow
<1>3. ASSUME EnqueueUpload PROVE AloneOK'
  BY <1>3 DEF EnqueueUpload
<1>4. ASSUME MarkUploadFailed PROVE AloneOK'
  BY <1>4 DEF MarkUploadFailed, Live
<1>5. ASSUME NEW r \in Reindexes, FindForReindex(r) PROVE AloneOK'
  BY <1>5, RequestMoves, RequestsAssumption DEF FindForReindex
<1>6. ASSUME NEW r \in Reindexes, EnqueueReindex(r) PROVE AloneOK'
  BY <1>6, RequestMoves, RequestsAssumption DEF EnqueueReindex
<1>7. ASSUME NEW r \in Reindexes, MarkQueued(r) PROVE AloneOK'
  BY <1>7, RequestMoves, RequestsAssumption DEF MarkQueued, Live
<1>8. ASSUME NEW d \in Deletes, FindForDelete(d) PROVE AloneOK'
  BY <1>8, RequestMoves DEF FindForDelete
<1>9. ASSUME NEW d \in Deletes, DeleteVectors(d) PROVE AloneOK'
  BY <1>9, RequestMoves DEF DeleteVectors
<1>10. ASSUME NEW d \in Deletes, DeleteRow(d) PROVE AloneOK'
  BY <1>10, RequestMoves DEF DeleteRow
<1>11. ASSUME NEW d \in Deletes, DeleteFile(d) PROVE AloneOK'
  BY <1>11, RequestMoves DEF DeleteFile
<1>12. ASSUME NEW j \in Jobs, Stall(j) \/ LockLost(j) PROVE AloneOK'
  BY <1>12 DEF Stall, LockLost
<1>13. ASSUME Crash PROVE AloneOK'
  BY <1>13, CrashMoves, IdleTyped DEF Crash
<1>14. ASSUME NEW w \in Workers, NEW j \in Jobs, Pick(w, j) PROVE AloneOK'
  <2>. SUFFICES ASSUME alone' PROVE Exclusive' /\ Ingesting' /\ Settled'
    OBVIOUS
  <2>1. alone /\ ~DeleteUnderway /\ \A v \in Workers : ~Busy(v)
    BY <1>14 DEF Pick
  <2>2. /\ exec'[w].pc = "mark" /\ \A v \in Workers \ {w} : exec'[v] = exec[v]
    BY <1>14, PickMoves
  <2>3. UNCHANGED <<req, status, deleted, chunks, vectors>>
    BY <1>14 DEF Pick
  <2>4. Exclusive'
    BY <2>1, <2>2, <2>3
  <2>5. Ingesting'
    BY <2>1, <2>2, <2>3
  <2>6. Settled'
    BY <2>1, <2>2, <2>3
  <2>. QED
    BY <2>4, <2>5, <2>6
<1>15. ASSUME NEW w \in Workers, MarkProcessing(w) PROVE AloneOK'
  BY <1>15, GoToMoves DEF MarkProcessing, Live, outside
<1>16. ASSUME NEW w \in Workers, ReadSource(w) PROVE AloneOK'
  BY <1>16, GoToMoves DEF ReadSource, outside
<1>17. ASSUME NEW w \in Workers, ReplaceChunks(w) PROVE AloneOK'
  BY <1>17, GoToMoves, InsertMoves DEF ReplaceChunks, Live, outside
<1>18. ASSUME NEW w \in Workers, ClearVectors(w) PROVE AloneOK'
  BY <1>18, GoToMoves DEF ClearVectors, outside
<1>19. ASSUME NEW w \in Workers, UpsertVectors(w) PROVE AloneOK'
  BY <1>19, GoToMoves DEF UpsertVectors, outside
<1>20. ASSUME NEW w \in Workers, LinkVectors(w) PROVE AloneOK'
  BY <1>20, GoToMoves DEF LinkVectors, outside
<1>21. ASSUME NEW w \in Workers, MarkIndexed(w) PROVE AloneOK'
  BY <1>21, FinishMoves DEF MarkIndexed, outside
<1>22. ASSUME NEW w \in Workers, IngestFails(w) PROVE AloneOK'
  BY <1>22, GoToMoves DEF IngestFails, outside
<1>23. ASSUME NEW w \in Workers, MarkFailed(w) PROVE AloneOK'
  BY <1>23, FinishMoves DEF MarkFailed, Live, outside
<1>24. ASSUME NEW w \in Workers, JobDone(w) \/ JobFailed(w) PROVE AloneOK'
  <2>1. /\ exec'[w].pc = "idle" /\ \A v \in Workers \ {w} : exec'[v] = exec[v]
        /\ UNCHANGED <<req, status, deleted, chunks, vectors, alone>>
    BY <1>24, EndMoves, IdleTyped
  <2>. QED
    BY <2>1
<1>25. ASSUME NEW w \in Workers, DatabaseFault(w) PROVE AloneOK'
  BY <1>25, GoToMoves, FinishMoves DEF DatabaseFault
<1>26. CASE UNCHANGED vars
  BY <1>26 DEF vars
<1>. QED
  BY <1>1, <1>2, <1>3, <1>4, <1>5, <1>6, <1>7, <1>8, <1>9, <1>10, <1>11,
     <1>12, <1>13, <1>14, <1>15, <1>16, <1>17, <1>18, <1>19, <1>20, <1>21,
     <1>22, <1>23, <1>24, <1>25, <1>26
  DEF Next, Work

-----------------------------------------------------------------------------
(* A document in PROCESSING. *)

(* A slot that executes holds its job, as long as no lock is lost.         *)
HeldOK ==
    env.lockLosses = 0 =>
      \A w \in Workers : exec[w].pc # "idle" =>
         jobs[exec[w].job].state = "active" /\ jobs[exec[w].job].holder = w

(* A job that will be taken up again: it waits, or its execution died.     *)
Pending(j) ==
    \/ jobs[j].state = "waiting"
    \/ jobs[j].state = "active" /\ jobs[j].holder = NoWorker

AliveOK ==
    /\ status = "PROCESSING" /\ env.faults = 0 /\ env.lockLosses = 0
    /\ \A j \in Jobs : jobs[j].stalls <= MaxStalls
    => (\E w \in Workers : Busy(w)) \/ (\E j \in Jobs : Pending(j))

LEMMA AliveInit == Init => HeldOK /\ AliveOK
BY IdleTyped DEF Init, HeldOK, AliveOK

LEMMA AliveStep == Base /\ HeldOK /\ AliveOK /\ [Next]_vars => HeldOK' /\ AliveOK'
<1>. SUFFICES ASSUME Base, HeldOK, AliveOK, [Next]_vars PROVE HeldOK' /\ AliveOK'
  OBVIOUS
<1>. USE WorkersAssumption, BoundsAssumption
     DEF Base, Typed, TypeOK, RowOK, QueueOK, database, HeldOK, AliveOK, Busy, Pending
<1>. UploadJob \in Jobs /\ Reindexes \subseteq Jobs
  BY DEF Jobs
<1>. /\ \A w \in Workers : exec[w].job \in Jobs
     /\ \A j \in Jobs : jobs[j].stalls \in Nat
     /\ env.faults \in Nat /\ env.lockLosses \in Nat
  BY DEF Execution, Job, Environment
<1>1. ASSUME WriteFile \/ CreateRow \/ MarkUploadFailed PROVE HeldOK' /\ AliveOK'
  BY <1>1 DEF WriteFile, CreateRow, MarkUploadFailed, Live
<1>2. ASSUME EnqueueUpload PROVE HeldOK' /\ AliveOK'
  BY <1>2, JobMoves, TroubleCounts DEF EnqueueUpload, Fault
<1>3. ASSUME NEW r \in Reindexes, FindForReindex(r) \/ MarkQueued(r) PROVE HeldOK' /\ AliveOK'
  BY <1>3 DEF FindForReindex, MarkQueued, Live
<1>4. ASSUME NEW r \in Reindexes, EnqueueReindex(r) PROVE HeldOK' /\ AliveOK'
  BY <1>4, JobMoves, TroubleCounts DEF EnqueueReindex, Fault
<1>5. ASSUME NEW d \in Deletes,
             FindForDelete(d) \/ DeleteVectors(d) \/ DeleteRow(d) \/ DeleteFile(d)
      PROVE  HeldOK' /\ AliveOK'
  <2>1. UNCHANGED <<jobs, exec, env>> /\ status' \in {status, "DELETING"}
    BY <1>5 DEF FindForDelete, DeleteVectors, DeleteRow, DeleteFile
  <2>. QED
    BY <2>1
<1>6. ASSUME NEW j \in Jobs, Stall(j) PROVE HeldOK' /\ AliveOK'
  BY <1>6, JobMoves DEF Stall
<1>7. ASSUME NEW j \in Jobs, LockLost(j) PROVE HeldOK' /\ AliveOK'
  BY <1>7, TroubleCounts DEF LockLost
<1>8. ASSUME Crash PROVE HeldOK' /\ AliveOK'
  <2>1. /\ \A w \in Workers : exec'[w].pc = "idle"
        /\ \A j \in Jobs : /\ jobs'[j].state = jobs[j].state
                           /\ jobs'[j].stalls = jobs[j].stalls
                           /\ jobs'[j].holder = NoWorker
        /\ status' = status
    BY <1>8, CrashMoves, IdleTyped DEF Crash
  <2>2. /\ env'.faults = 0 => env.faults = 0
        /\ env'.lockLosses = 0 => env.lockLosses = 0
    BY <1>8, TroubleCounts DEF Crash, Environment
  <2>3. HeldOK'
    BY <2>1
  <2>4. AliveOK'
    BY <2>1, <2>2
  <2>. QED
    BY <2>3, <2>4
<1>9. ASSUME NEW w \in Workers, NEW j \in Jobs, Pick(w, j) PROVE HeldOK' /\ AliveOK'
  <2>1. /\ jobs'[j].state = "active" /\ jobs'[j].holder = w
        /\ jobs'[j].stalls = jobs[j].stalls
        /\ \A i \in Jobs \ {j} : jobs'[i] = jobs[i]
    BY <1>9, PickMoves
  <2>2. /\ exec'[w].pc = "mark" /\ exec'[w].job = j
        /\ \A v \in Workers \ {w} : exec'[v] = exec[v]
    BY <1>9, PickMoves
  <2>3. HeldOK'
    BY <1>9, <2>1, <2>2 DEF Pick
  <2>4. AliveOK'
    BY <2>2
  <2>. QED
    BY <2>3, <2>4
<1>10. ASSUME NEW w \in Workers, MarkProcessing(w) PROVE HeldOK' /\ AliveOK'
  BY <1>10, Places, GoToMoves DEF MarkProcessing, Live, outside
<1>11. ASSUME NEW w \in Workers,
              \/ ReadSource(w) \/ ClearVectors(w) \/ UpsertVectors(w)
              \/ LinkVectors(w) \/ IngestFails(w)
       PROVE  HeldOK' /\ AliveOK'
  BY <1>11, Places, GoToMoves
  DEF ReadSource, ClearVectors, UpsertVectors, LinkVectors, IngestFails,
      outside, Holding
<1>12. ASSUME NEW w \in Workers, ReplaceChunks(w) PROVE HeldOK' /\ AliveOK'
  BY <1>12, Places, GoToMoves, InsertMoves DEF ReplaceChunks, Live, outside
<1>13. ASSUME NEW w \in Workers, MarkIndexed(w) PROVE HeldOK' /\ AliveOK'
  BY <1>13, Places, FinishMoves DEF MarkIndexed, outside
<1>14. ASSUME NEW w \in Workers, MarkFailed(w) PROVE HeldOK' /\ AliveOK'
  BY <1>14, Places, FinishMoves DEF MarkFailed, Live, outside
<1>15. ASSUME NEW w \in Workers, JobDone(w) \/ JobFailed(w) PROVE HeldOK' /\ AliveOK'
  BY SMTT(30), <1>15, EndMoves, IdleTyped
<1>16. ASSUME NEW w \in Workers, DatabaseFault(w) PROVE HeldOK' /\ AliveOK'
  BY <1>16, Places, GoToMoves, FinishMoves, TroubleCounts DEF DatabaseFault, Fault
<1>17. CASE UNCHANGED vars
  BY <1>17 DEF vars
<1>. QED
  BY <1>1, <1>2, <1>3, <1>4, <1>5, <1>6, <1>7, <1>8, <1>9, <1>10, <1>11,
     <1>12, <1>13, <1>14, <1>15, <1>16, <1>17
  DEF Next, Work

-----------------------------------------------------------------------------
(* The theorems. *)

Inv == Base /\ AloneOK /\ HeldOK /\ AliveOK

(* Inv is inductive: the row, the queue and the executions agree; while    *)
(* nothing has overlapped the only execution's place determines chunks and *)
(* vectors; and a document in PROCESSING has somebody to end it.           *)
THEOREM Invariance == Spec => []Inv
<1>1. Init => Inv
  BY BaseInit, AloneInit, AliveInit DEF Inv
<1>2. Inv /\ [Next]_vars => Inv'
  BY BaseStep, AloneStep, AliveStep DEF Inv
<1>. QED
  BY <1>1, <1>2, PTL DEF Spec

(* Every variable keeps its type; in particular the chunks and the vectors *)
(* are batches that executions inserted.                                   *)
THEOREM TypeCorrect == Spec => []TypeOK
<1>1. Inv => TypeOK
  BY DEF Inv, Base, Typed
<1>. QED
  BY <1>1, Invariance, PTL

(* However many slots, jobs, retries and crashes there are: an INDEXED     *)
(* document whose executions and deletions did not overlap is exactly what *)
(* a search finds.                                                         *)
THEOREM IndexedIsFound == Spec => []IndexedIsSearchable
<1>1. Inv => IndexedIsSearchable
  BY DEF Inv, AloneOK, Settled, IndexedIsSearchable, SearchResult
<1>. QED
  BY <1>1, Invariance, PTL

(* Whatever overlaps, the text of a deleted document stays deleted, and    *)
(* its vectors do if no execution overlapped the deletion.                 *)
THEOREM DeletedStaysGone == Spec => []DeletedIsGone
<1>1. Inv => DeletedIsGone
  BY DEF Inv, Base, RowOK, AloneOK, Settled, DeletedIsGone
<1>. QED
  BY <1>1, Invariance, PTL

(* Without failed calls and lost locks a document says PROCESSING only     *)
(* while a job waits, runs or will be found stalled.                       *)
THEOREM ProcessingEnds == Spec => []ProcessingIsAlive
<1>1. Inv => ProcessingIsAlive
  BY DEF Inv, AliveOK, Pending, ProcessingIsAlive
<1>. QED
  BY <1>1, Invariance, PTL

(* A step of a deleted document leaves its status, or is the unguarded     *)
(* markIndexed of an execution that had inserted its chunks before.        *)
LEMMA DeletionStep ==
    ASSUME Base, Next, deleted
    PROVE  /\ deleted'
           /\ \/ status' = status
              \/ status' = "INDEXED" /\ \E w \in Workers : exec[w].batch # NoBatch
<1>. upload # "create" /\ status # "NONE"
  BY DEF Base, RowOK
<1>1. CASE \E w \in Workers : MarkIndexed(w)
  <2>. PICK w \in Workers : MarkIndexed(w)
    BY <1>1
  <2>1. exec[w].batch # NoBatch
    BY BatchesAssumption DEF MarkIndexed, Base, Typed, BatchOK, Holding
  <2>. QED
    BY <2>1 DEF MarkIndexed
<1>2. CASE \E w \in Workers : JobDone(w) \/ JobFailed(w)
  BY <1>2 DEF JobDone, JobFailed, EndJob, database
<1>3. CASE \E w \in Workers : DatabaseFault(w) \/ \E j \in Jobs : Pick(w, j)
  BY <1>3 DEF DatabaseFault, Pick, database
<1>4. CASE \E w \in Workers : \/ MarkProcessing(w) \/ ReadSource(w)  \/ ReplaceChunks(w)
                              \/ ClearVectors(w)   \/ UpsertVectors(w) \/ LinkVectors(w)
                              \/ IngestFails(w)    \/ MarkFailed(w)
  BY <1>4
  DEF MarkProcessing, ReadSource, ReplaceChunks, ClearVectors, UpsertVectors,
              LinkVectors, IngestFails, MarkFailed, Live, database
<1>5. CASE WriteFile \/ CreateRow \/ EnqueueUpload \/ MarkUploadFailed \/ Crash
  BY <1>5
  DEF WriteFile, CreateRow, EnqueueUpload, MarkUploadFailed, Crash, Live,
      database
<1>6. CASE \E r \in Reindexes : FindForReindex(r) \/ EnqueueReindex(r) \/ MarkQueued(r)
  BY <1>6 DEF FindForReindex, EnqueueReindex, MarkQueued, Live, database
<1>7. CASE \E d \in Deletes : FindForDelete(d) \/ DeleteVectors(d) \/ DeleteRow(d) \/ DeleteFile(d)
  BY <1>7 DEF FindForDelete, DeleteVectors, DeleteRow, DeleteFile, database
<1>8. CASE \E j \in Jobs : Stall(j) \/ LockLost(j)
  BY <1>8 DEF Stall, LockLost, database
<1>. QED
  BY <1>1, <1>2, <1>3, <1>4, <1>5, <1>6, <1>7, <1>8 DEF Next, Work

(* A deleted document is never taken up again, over every overlap and      *)
(* retry, except by the last write of an execution under way.              *)
THEOREM DeletedForGood == Spec => DeletionIsFinal
<1>1. Inv /\ [Next]_vars =>
        [deleted => /\ deleted'
                    /\ \/ status' = status
                       \/ status' = "INDEXED" /\ \E w \in Workers : exec[w].batch # NoBatch
        ]_vars
  BY DeletionStep DEF Inv, vars
<1>. QED
  BY <1>1, Invariance, PTL DEF Spec, DeletionIsFinal
=============================================================================
