------------------------------- MODULE BatchJobs -------------------------------
(***************************************************************************)
(* A batch of splits (backend/src/batch): the queue runs the batch's job,  *)
(* the job's lanes share a list of operations, every operation ends by     *)
(* recounting the batch, and an administrator retries or cancels.  Rows    *)
(* are read in one statement and saved whole in another.                   *)
(***************************************************************************)
EXTENDS Naturals, FiniteSets

CONSTANTS
    NumOps,        \* operations are 1..NumOps, one chunk
    Lanes,         \* the concurrency of one run
    MaxRuns,       \* bound on the runs of the job
    JobAttempts,   \* attempts of the queue, 5 in the source
    RetryAttempts, \* options.retryAttempts
    MaxCalls,      \* bound on the administrator's calls
    MaxFaults      \* bound on failing statements and crashes together

Ops  == 1..NumOps
Runs == 1..MaxRuns

ASSUME BatchConstants ==
    /\ NumOps \in Nat \ {0} /\ MaxRuns \in Nat /\ JobAttempts \in Nat \ {0}
    /\ RetryAttempts \in Nat /\ MaxCalls \in Nat /\ MaxFaults \in Nat

VARIABLES
    batch,   \* batch_jobs.status
    op,      \* status and retry_count of every operation
    job,     \* the queue's job: its state and the attempts it has made
    todo,    \* what the lanes of a run have not taken yet
    lane,    \* where every lane of every run is, its operation, what it read, and
             \* whether it is recording a failure
    admin,   \* the call under way, the operations it found, and the calls made
    made,    \* history: splits created for every operation
    faults   \* failing statements and crashes so far

batchVars == <<batch, op, job, todo, lane, admin, made, faults>>

BatchStatus == {"pending", "processing", "completed", "failed", "partial", "cancelled"}
OpStatus    == {"pending", "processing", "completed", "failed", "retrying", "cancelled"}

Free == [at |-> "idle", op |-> 1, seen |-> "pending", failing |-> FALSE]

BatchTypeOK ==
    /\ batch \in BatchStatus
    /\ op \in [Ops -> [status : OpStatus, retries : Nat]]
    /\ job \in [state : {"none", "waiting", "active", "finished"}, run : 0..MaxRuns,
                attempts : 0..JobAttempts]
    /\ todo \in [Runs -> SUBSET Ops]
    /\ lane \in [Runs \X Lanes ->
         [at : {"idle", "start", "create", "complete", "fail", "count", "save", "dead"}, op : Ops,
          seen : BatchStatus, failing : BOOLEAN]]
    /\ made \in [Ops -> Nat]
    /\ faults \in 0..MaxFaults

\* createBatchSplits stores the batch, then its operations, then queues the job; a
\* crash before the last step leaves no job.
BatchInit ==
    /\ batch = "pending"
    /\ op = [i \in Ops |-> [status |-> "pending", retries |-> 0]]
    /\ job \in [state : {"none", "waiting"}, run : {0}, attempts : {0}]
    /\ todo = [r \in Runs |-> {}]
    /\ lane = [x \in Runs \X Lanes |-> Free]
    /\ admin = [at |-> "idle", found |-> {}, calls |-> 0]
    /\ made = [i \in Ops |-> 0] /\ faults = 0

SetOp(i, s)    == op' = [op EXCEPT ![i].status = s]
Goto(x, place) == lane' = [lane EXCEPT ![x].at = place]
Fault          == faults < MaxFaults /\ faults' = faults + 1
With(s)        == {i \in Ops : op[i].status = s}

-----------------------------------------------------------------------------
(* The job *)

\* handleSplitBatch up to the chunk: only pending operations are taken.
handleSplitBatch ==
    LET r == job.run + 1 IN
    /\ job.state = "waiting" /\ r <= MaxRuns
    /\ batch' = "processing"
    /\ job' = [state |-> "active", run |-> r, attempts |-> job.attempts + 1]
    /\ todo' = [todo EXCEPT ![r] = With("pending")]
    /\ UNCHANGED <<op, lane, admin, made, faults>>

\* queue.shift: operations in their order.
Shift(x) ==
    LET left == todo[x[1]] IN
    /\ lane[x].at = "idle" /\ left # {}
    /\ LET i == CHOOSE i \in left : \A j \in left : i <= j IN
         /\ todo' = [todo EXCEPT ![x[1]] = left \ {i}]
         /\ lane' = [lane EXCEPT ![x] = [Free EXCEPT !.at = "start", !.op = i]]
    /\ UNCHANGED <<batch, op, job, admin, made, faults>>

markOperationStarted(x) ==
    /\ lane[x].at = "start"
    /\ SetOp(lane[x].op, "processing")
    /\ Goto(x, "create")
    /\ UNCHANGED <<batch, job, todo, admin, made, faults>>

\* The payload is refused, or the split is created.
CreateSplit(x) ==
    /\ lane[x].at = "create"
    /\ \/ /\ made' = [made EXCEPT ![lane[x].op] = @ + 1]
          /\ Goto(x, "complete")
       \/ Goto(x, "fail") /\ UNCHANGED made
    /\ UNCHANGED <<batch, op, job, todo, admin, faults>>

markOperationCompleted(x) ==
    /\ lane[x].at = "complete"
    /\ SetOp(lane[x].op, "completed")
    /\ Goto(x, "count")
    /\ UNCHANGED <<batch, job, todo, admin, made, faults>>

\* retry_count is read with the row.  Nothing ever takes up a RETRYING operation.
markOperationFailed(x) ==
    LET i == lane[x].op
        n == op[i].retries + 1
    IN  /\ lane[x].at = "fail"
        /\ op' = [op EXCEPT ![i] = [status |-> IF n < RetryAttempts THEN "retrying" ELSE "failed",
                                    retries |-> n]]
        /\ lane' = [lane EXCEPT ![x].at = "count", ![x].failing = TRUE]
        /\ UNCHANGED <<batch, job, todo, admin, made, faults>>

\* The status updateProgress computes; the first form does not look for failures.
CountedBlindly ==
    IF Cardinality(With("completed")) + Cardinality(With("failed")) = NumOps THEN "completed"
    ELSE IF With("processing") # {} /\ batch = "pending" THEN "processing" ELSE batch
Counted ==
    IF Cardinality(With("completed")) + Cardinality(With("failed")) = NumOps
    THEN IF With("failed") = {} THEN "completed"
         ELSE IF With("completed") = {} THEN "failed" ELSE "partial"
    ELSE IF With("processing") # {} /\ batch = "pending" THEN "processing" ELSE batch

updateProgress(x) ==
    /\ lane[x].at = "count"
    /\ lane' = [lane EXCEPT ![x].at = "save", ![x].seen = Counted]
    /\ UNCHANGED <<batch, op, job, todo, admin, made, faults>>

SaveProgress(x) ==
    /\ lane[x].at = "save"
    /\ batch' = lane[x].seen
    /\ lane' = [lane EXCEPT ![x] = Free]
    /\ UNCHANGED <<op, job, todo, admin, made, faults>>

\* A failing statement is an operation that failed, until recording that fails as well.
StatementFails(x) ==
    /\ lane[x].at \in {"start", "complete", "fail", "count", "save"}
    /\ Fault
    /\ Goto(x, IF lane[x].failing \/ lane[x].at = "fail" THEN "dead" ELSE "fail")
    /\ UNCHANGED <<batch, op, job, todo, admin, made>>

Requeued == [job EXCEPT !.state = IF job.attempts < JobAttempts THEN "waiting" ELSE "finished"]

\* Promise.all rejects with the first lane that throws; the others go on.
RunRejects ==
    /\ job.state = "active"
    /\ \E l \in Lanes : lane[<<job.run, l>>].at = "dead"
    /\ batch' = "failed"
    /\ job' = Requeued
    /\ UNCHANGED <<op, todo, lane, admin, made, faults>>

RunEnds ==
    /\ job.state = "active" /\ todo[job.run] = {}
    /\ \A l \in Lanes : lane[<<job.run, l>>].at = "idle"
    /\ job' = [job EXCEPT !.state = "finished"]
    /\ UNCHANGED <<batch, op, todo, lane, admin, made, faults>>

\* The process dies; a stalled job comes back.
CrashBatch ==
    /\ job.state = "active"
    /\ Fault
    /\ todo' = [r \in Runs |-> {}]
    /\ lane' = [x \in Runs \X Lanes |-> Free]
    /\ job' = Requeued
    /\ admin' = [admin EXCEPT !.at = "idle"]
    /\ UNCHANGED <<batch, op, made>>

-----------------------------------------------------------------------------
(* The administrator *)

\* Whom a retry resets; the first form forgets the status.
RetryableAll == Ops
Retryable    == With("failed")

retryFailedOperations ==
    /\ admin.at = "idle" /\ admin.calls < MaxCalls
    /\ Retryable # {}
    /\ admin' = [at |-> "reset", found |-> Retryable, calls |-> admin.calls + 1]
    /\ UNCHANGED <<batch, op, job, todo, lane, made, faults>>

ResetOperation(i) ==
    /\ admin.at = "reset" /\ i \in admin.found
    /\ SetOp(i, "pending")
    /\ admin' = [admin EXCEPT !.found = @ \ {i}]
    /\ UNCHANGED <<batch, job, todo, lane, made, faults>>

ResetBatch ==
    /\ admin.at = "reset" /\ admin.found = {}
    /\ batch' = "pending"
    /\ admin' = [admin EXCEPT !.at = "queue"]
    /\ UNCHANGED <<op, job, todo, lane, made, faults>>

\* The queue ignores a job whose identifier it still knows, finished ones included.
QueueAgain ==
    /\ admin.at = "queue"
    /\ job' = IF job.state = "none" THEN [job EXCEPT !.state = "waiting", !.attempts = 0] ELSE job
    /\ admin' = [admin EXCEPT !.at = "idle"]
    /\ UNCHANGED <<batch, op, todo, lane, made, faults>>

\* A job that runs is locked and cannot be removed: the call fails.
cancelBatch ==
    /\ admin.at = "idle" /\ admin.calls < MaxCalls
    /\ batch \notin {"completed", "failed"}
    /\ admin' = [at |-> "remove", found |-> {}, calls |-> admin.calls + 1]
    /\ UNCHANGED <<batch, op, job, todo, lane, made, faults>>

RemoveJob ==
    /\ admin.at = "remove"
    /\ IF job.state = "active"
       THEN admin' = [admin EXCEPT !.at = "idle"] /\ UNCHANGED job
       ELSE admin' = [admin EXCEPT !.at = "drop"] /\ job' = [job EXCEPT !.state = "none"]
    /\ UNCHANGED <<batch, op, todo, lane, made, faults>>

CancelOperations ==
    /\ admin.at = "drop"
    /\ op' = [i \in Ops |-> IF op[i].status \in {"pending", "processing"}
                            THEN [op[i] EXCEPT !.status = "cancelled"] ELSE op[i]]
    /\ admin' = [admin EXCEPT !.at = "close"]
    /\ UNCHANGED <<batch, job, todo, lane, made, faults>>

CloseBatch ==
    /\ admin.at = "close"
    /\ batch' = "cancelled"
    /\ admin' = [admin EXCEPT !.at = "idle"]
    /\ UNCHANGED <<op, job, todo, lane, made, faults>>

BatchNext ==
    \/ handleSplitBatch \/ RunRejects \/ RunEnds \/ CrashBatch
    \/ \E x \in Runs \X Lanes :
         \/ Shift(x) \/ markOperationStarted(x) \/ CreateSplit(x) \/ markOperationCompleted(x)
         \/ markOperationFailed(x) \/ updateProgress(x) \/ SaveProgress(x) \/ StatementFails(x)
    \/ retryFailedOperations \/ ResetBatch \/ QueueAgain \/ (\E i \in Ops : ResetOperation(i))
    \/ cancelBatch \/ RemoveJob \/ CancelOperations \/ CloseBatch

BatchSpec == BatchInit /\ [][BatchNext]_batchVars

-----------------------------------------------------------------------------
(* Properties *)

\* Through stale recounts, retries, cancellations, lanes that outlive their run and
\* crashes: a batch says COMPLETED only if the split of every operation exists, and
\* every split created beyond the first for one operation is due to a fault.
BatchDoesItsWork ==
    /\ batch = "completed" => \A i \in Ops : made[i] > 0
    /\ \A i \in Ops : made[i] <= 1 + faults
=============================================================================
