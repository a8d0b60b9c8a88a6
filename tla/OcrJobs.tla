-------------------------------- MODULE OcrJobs --------------------------------
(***************************************************************************)
(* One receipt's OCR job (backend/src/ocr): its row, the queue's jobs for  *)
(* it (every call that queues adds one more), and the runs of those jobs,  *)
(* each holding the row from its first statement and saving it whole.      *)
(***************************************************************************)
EXTENDS Naturals

CONSTANTS
    QueueJobs,    \* jobs the queue may get for the row
    Attempts,     \* attempts of the queue, 3 in the source
    MaxScanCalls, \* bound on the user's calls
    MaxUpsets     \* bound on crashes

ASSUME OcrConstants ==
    /\ QueueJobs # {} /\ Attempts \in Nat \ {0} /\ MaxScanCalls \in Nat /\ MaxUpsets \in Nat

Confidence == {"low", "high"}
Unscanned  == "none"

VARIABLES
    scan,     \* the row: status, confidence, needsManualReview, whether it has queueJobId
    ocrQueue, \* state and attempts of every job
    runner,   \* where the run of every job is, the row it holds
    user,     \* the call under way, the row it holds, the job it added
    calls,    \* calls so far
    upsets    \* crashes so far

ocrVars == <<scan, ocrQueue, runner, user, calls, upsets>>

ScanStatus == {"pending", "processing", "completed", "failed", "needs_review"}
Scan == [status : ScanStatus, confidence : Confidence \cup {Unscanned}, review : BOOLEAN,
         linked : BOOLEAN]
NewScan == [status |-> "pending", confidence |-> Unscanned, review |-> FALSE, linked |-> FALSE]
NoJob   == [state |-> "none", attempts |-> 0]

OcrTypeOK ==
    /\ scan \in Scan
    /\ ocrQueue \in [QueueJobs -> [state : {"none", "waiting", "active", "done"},
                                   attempts : 0..Attempts]]
    /\ runner \in [QueueJobs -> [at : {"idle", "started", "fetched", "ready", "scanned", "failed"},
                                 held : Scan]]
    /\ user \in [at : {"idle", "create", "link", "cancel", "drop", "retry", "again", "manual"},
                 held : Scan]

\* createJob has stored the row.
OcrInit ==
    /\ scan = NewScan
    /\ ocrQueue = [j \in QueueJobs |-> NoJob]
    /\ runner = [j \in QueueJobs |-> [at |-> "idle", held |-> NewScan]]
    /\ user = [at |-> "create", held |-> NewScan]
    /\ calls = 0 /\ upsets = 0

-----------------------------------------------------------------------------
(* Runs *)

processOcrJob(j) ==
    /\ ocrQueue[j].state = "waiting"
    /\ ocrQueue' = [ocrQueue EXCEPT ![j] = [state |-> "active", attempts |-> @.attempts + 1]]
    /\ runner' = [runner EXCEPT ![j] =
         [at |-> "started", held |-> [scan EXCEPT !.status = "processing", !.linked = TRUE]]]
    /\ UNCHANGED <<scan, user, calls, upsets>>

\* Three saves on the way, all of the row the run holds.
SaveStep(j) ==
    /\ runner[j].at \in {"started", "fetched", "ready"}
    /\ scan' = runner[j].held
    /\ runner' = [runner EXCEPT ![j].at =
         CASE @ = "started" -> "fetched" [] @ = "fetched" -> "ready" [] @ = "ready" -> "scanned"]
    /\ UNCHANGED <<ocrQueue, user, calls, upsets>>

\* What a scan makes of the row; the first form keeps the run's old verdict.
Trusting(held, c) == [held EXCEPT !.status = "completed", !.confidence = c]
Judged(held, c) ==
    [held EXCEPT !.status = IF c = "low" THEN "needs_review" ELSE "completed",
                 !.confidence = c,
                 !.review = @ \/ c = "low"]

SaveResult(j, c) ==
    /\ runner[j].at = "scanned"
    /\ scan' = Judged(runner[j].held, c)
    /\ runner' = [runner EXCEPT ![j] = [at |-> "idle", held |-> NewScan]]
    /\ ocrQueue' = [ocrQueue EXCEPT ![j].state = "done"]
    /\ UNCHANGED <<user, calls, upsets>>

\* The image cannot be fetched, the scan or a statement fails: the row is loaded again.
RunFails(j) ==
    /\ runner[j].at \in {"started", "fetched", "ready", "scanned"}
    /\ runner' = [runner EXCEPT ![j] =
         [at |-> "failed", held |-> [scan EXCEPT !.status = "failed"]]]
    /\ UNCHANGED <<scan, ocrQueue, user, calls, upsets>>

Retried(j) == [ocrQueue EXCEPT ![j].state = IF ocrQueue[j].attempts < Attempts
                                            THEN "waiting" ELSE "done"]

SaveFailure(j) ==
    /\ runner[j].at = "failed"
    /\ scan' = runner[j].held
    /\ runner' = [runner EXCEPT ![j] = [at |-> "idle", held |-> NewScan]]
    /\ ocrQueue' = Retried(j)
    /\ UNCHANGED <<user, calls, upsets>>

CrashRun(j) ==
    /\ runner[j].at # "idle"
    /\ upsets < MaxUpsets /\ upsets' = upsets + 1
    /\ runner' = [runner EXCEPT ![j] = [at |-> "idle", held |-> NewScan]]
    /\ ocrQueue' = Retried(j)
    /\ UNCHANGED <<scan, user, calls>>

-----------------------------------------------------------------------------
(* The user's calls *)

\* A job of its own for every call, whatever the queue still holds for the row.
AddJob(place) ==
    \E j \in QueueJobs :
      /\ ocrQueue[j].state = "none"
      /\ ocrQueue' = [ocrQueue EXCEPT ![j].state = "waiting"]
      /\ user' = [user EXCEPT !.at = place]
      /\ UNCHANGED <<scan, runner, calls, upsets>>

createJob == user.at = "create" /\ AddJob("link")

\* The row goes back to what it was when it was created, but for the columns that
\* creating it left unset.
LinkJob ==
    /\ user.at = "link"
    /\ scan' = [user.held EXCEPT !.linked = TRUE, !.confidence = scan.confidence]
    /\ user' = [user EXCEPT !.at = "idle"]
    /\ UNCHANGED <<ocrQueue, runner, calls, upsets>>

Open(place, statuses) ==
    /\ user.at = "idle" /\ calls < MaxScanCalls
    /\ scan.status \in statuses
    /\ calls' = calls + 1
    /\ user' = [at |-> place, held |-> scan]
    /\ UNCHANGED <<scan, ocrQueue, runner, upsets>>

cancelJob == Open(IF scan.linked THEN "cancel" ELSE "drop", {"pending", "processing"})

\* Whichever job the row names, removed if it does not run; the error is swallowed.
RemoveQueueJob ==
    /\ user.at = "cancel"
    /\ \/ \E j \in QueueJobs :
            /\ ocrQueue[j].state \in {"waiting", "done"}
            /\ ocrQueue' = [ocrQueue EXCEPT ![j].state = "done"]
       \/ UNCHANGED ocrQueue
    /\ user' = [user EXCEPT !.at = "drop"]
    /\ UNCHANGED <<scan, runner, calls, upsets>>

SaveCancelled ==
    /\ user.at = "drop"
    /\ scan' = [user.held EXCEPT !.status = "failed"]
    /\ user' = [at |-> "idle", held |-> NewScan]
    /\ UNCHANGED <<ocrQueue, runner, calls, upsets>>

retryJob           == Open("retry", {"failed"})
processJobManually == Open("manual", {"pending"})

SaveRetried ==
    /\ user.at \in {"retry", "manual"}
    /\ scan' = [user.held EXCEPT !.status = IF user.at = "retry" THEN "pending" ELSE "processing"]
    /\ user' = [at |-> "again", held |-> NewScan]
    /\ UNCHANGED <<ocrQueue, runner, calls, upsets>>

QueueJobAgain == user.at = "again" /\ AddJob("idle")

OcrNext ==
    \/ \E j \in QueueJobs :
         \/ processOcrJob(j) \/ SaveStep(j) \/ RunFails(j) \/ SaveFailure(j) \/ CrashRun(j)
         \/ \E c \in Confidence : SaveResult(j, c)
    \/ createJob \/ LinkJob \/ cancelJob \/ RemoveQueueJob \/ SaveCancelled
    \/ retryJob \/ processJobManually \/ SaveRetried \/ QueueJobAgain

OcrSpec == OcrInit /\ [][OcrNext]_ocrVars

-----------------------------------------------------------------------------
(* Properties *)

\* Several runs and calls save whole rows over each other: a status that shows a result
\* shows that of one scan, a result is COMPLETED only with high confidence, and a row
\* that needs a review is on the list of those that do.
ResultsMatchStatus ==
    /\ scan.status = "completed" => scan.confidence = "high"
    /\ scan.status = "needs_review" => scan.confidence = "low" /\ scan.review
=============================================================================
