------------------------------- MODULE ExportJobs -------------------------------
(***************************************************************************)
(* One export (backend/src/export): its row, its job in the queue, the run *)
(* that produces the file in stages, and the calls that cancel it, retry   *)
(* it, download it or let it expire.  Each update writes its own columns.  *)
(***************************************************************************)
EXTENDS Naturals

CONSTANTS
    ExportCalls,   \* calls that can be under way together
    Creator,       \* the one that creates the export
    MaxRetries,    \* attempts of the queue
    MaxExportCalls, \* bound on the calls
    MaxOutages     \* bound on failing statements and crashes together

ASSUME ExportConstants ==
    /\ Creator \in ExportCalls
    /\ MaxRetries \in Nat \ {0} /\ MaxExportCalls \in Nat /\ MaxOutages \in Nat

NoFile == 0
Stages == 1..3  \* collecting_data, generating_file, uploading_file

VARIABLES
    export,  \* status, cancellationRequested, s3Key, whether it is past expiresAt,
             \* whether it has a queueJobId
    files,   \* files in storage
    uploads, \* files stored so far; each has a name of its own
    qjob,    \* the queue's job and the attempts it has made
    run,     \* where the run is, its stage, and whether it will be cancelled or
             \* fail, and whether it began after a cancellation
    use,     \* where every call is, with the row it read
    used,    \* calls so far
    clear,   \* history: cancellations under way that no retry has crossed
    acked,   \* history: one of those was confirmed, and no retry came since
    outages  \* failures so far

exportVars == <<export, files, uploads, qjob, run, use, used, clear, acked, outages>>

ExportStatus == {"pending", "processing", "completed", "failed", "cancelled", "expired"}
Export == [status : ExportStatus, flag : BOOLEAN, key : Nat, past : BOOLEAN, queued : BOOLEAN]
NewExport == [status |-> "pending", flag |-> FALSE, key |-> NoFile, past |-> FALSE, queued |-> FALSE]
NoRun  == [at |-> "none", stage |-> 1, ends |-> "failed", doomed |-> FALSE]
NoCall == [at |-> "idle", read |-> NewExport]

ExportTypeOK ==
    /\ export \in Export
    /\ files \subseteq 1..uploads
    /\ qjob \in [state : {"none", "waiting", "active", "failed"}, attempts : 0..MaxRetries]
    /\ run \in [at : {"none", "start", "check", "progress", "store", "complete", "email", "fail"},
                stage : Stages, ends : {"failed", "cancelled"}, doomed : BOOLEAN]
    /\ use \in [ExportCalls ->
         [at : {"idle", "add", "queued", "refused", "remove", "flag", "cancel", "reset", "delete",
                "expire", "missing"}, read : Export]]

\* createExport has stored the row and goes on to the queue.
ExportInit ==
    /\ export = NewExport
    /\ files = {} /\ uploads = 0
    /\ qjob = [state |-> "none", attempts |-> 0]
    /\ run = NoRun
    /\ use = [c \in ExportCalls |-> IF c = Creator THEN [NoCall EXCEPT !.at = "add"] ELSE NoCall]
    /\ used = 0 /\ clear = {} /\ acked = FALSE /\ outages = 0

Outage    == outages < MaxOutages /\ outages' = outages + 1
Use(c, a) == use' = [use EXCEPT ![c].at = a]
Leave(c)  == use' = [use EXCEPT ![c] = NoCall]
InUse(c, a) == use[c].at = a

-----------------------------------------------------------------------------
(* The queue *)

\* The job's identifier is the export's, and the queue keeps failed jobs: while it
\* knows the identifier it ignores the job.
enqueueExportJob(c) ==
    /\ InUse(c, "add")
    /\ \/ /\ qjob' = IF qjob.state = "none" THEN [state |-> "waiting", attempts |-> 0] ELSE qjob
          /\ Use(c, "queued") /\ UNCHANGED outages
       \/ Outage /\ Use(c, "refused") /\ UNCHANGED qjob
    /\ UNCHANGED <<export, files, uploads, run, used, clear, acked>>

MarkQueued(c) ==
    /\ InUse(c, "queued")
    /\ export' = [export EXCEPT !.status = "pending", !.queued = TRUE]
    /\ Leave(c)
    /\ UNCHANGED <<files, uploads, qjob, run, used, clear, acked, outages>>

MarkRefused(c) ==
    /\ InUse(c, "refused")
    /\ export' = [export EXCEPT !.status = "failed"]
    /\ Leave(c)
    /\ UNCHANGED <<files, uploads, qjob, run, used, clear, acked, outages>>

-----------------------------------------------------------------------------
(* A run *)

processQueuedExport ==
    /\ qjob.state = "waiting"
    /\ qjob' = [state |-> "active", attempts |-> qjob.attempts + 1]
    /\ run' = [NoRun EXCEPT !.at = "start", !.doomed = acked]
    /\ UNCHANGED <<export, files, uploads, use, used, clear, acked, outages>>

StartRun ==
    /\ run.at = "start"
    /\ export' = [export EXCEPT !.status = "processing", !.queued = TRUE]
    /\ run' = [run EXCEPT !.at = "check"]
    /\ UNCHANGED <<files, uploads, qjob, use, used, clear, acked, outages>>

\* Whether a run has to stop; the first form forgets that the run itself has just
\* written the status.
SaysCancelled == export.status = "cancelled"
Cancelled     == export.status = "cancelled" \/ export.flag

assertNotCancelled ==
    /\ run.at = "check"
    /\ run' = IF Cancelled THEN [run EXCEPT !.at = "fail", !.ends = "cancelled"]
              ELSE [run EXCEPT !.at = "progress"]
    /\ UNCHANGED <<export, files, uploads, qjob, use, used, clear, acked, outages>>

updateJobProgress ==
    /\ run.at = "progress"
    /\ export' = [export EXCEPT !.status = "processing"]
    /\ run' = IF run.stage = 3 THEN [run EXCEPT !.at = "store"]
              ELSE [run EXCEPT !.at = "check", !.stage = @ + 1]
    /\ UNCHANGED <<files, uploads, qjob, use, used, clear, acked, outages>>

StoreFile ==
    /\ run.at = "store"
    /\ uploads' = uploads + 1
    /\ files' = files \cup {uploads'}
    /\ run' = [run EXCEPT !.at = "complete"]
    /\ UNCHANGED <<export, qjob, use, used, clear, acked, outages>>

CompleteExport ==
    /\ run.at = "complete"
    /\ export' = [export EXCEPT !.status = "completed", !.key = uploads, !.past = FALSE]
    /\ run' = [run EXCEPT !.at = "email"]
    /\ UNCHANGED <<files, uploads, qjob, use, used, clear, acked, outages>>

\* A mail that fails is only noted.
sendExportEmail ==
    /\ run.at = "email"
    /\ qjob' = [state |-> "none", attempts |-> 0]
    /\ run' = NoRun
    /\ UNCHANGED <<export, files, uploads, use, used, clear, acked, outages>>

StageFails ==
    /\ run.at \in {"check", "progress", "store", "complete"}
    /\ Outage
    /\ run' = [run EXCEPT !.at = "fail", !.ends = "failed"]
    /\ UNCHANGED <<export, files, uploads, qjob, use, used, clear, acked>>

\* The queue after a run that threw.
Again == [qjob EXCEPT !.state = IF qjob.attempts < MaxRetries THEN "waiting" ELSE "failed"]

\* What was thrown is thrown again, cancellations too, and the queue tries again.
failJob ==
    /\ run.at = "fail"
    /\ export' = [export EXCEPT !.status = run.ends]
    /\ qjob' = Again
    /\ run' = NoRun
    /\ UNCHANGED <<files, uploads, use, used, clear, acked, outages>>

CrashExports ==
    /\ Outage
    /\ run' = NoRun
    /\ qjob' = IF qjob.state = "active" THEN Again ELSE qjob
    /\ use' = [c \in ExportCalls |-> NoCall]
    /\ UNCHANGED <<export, files, uploads, used, clear, acked>>

-----------------------------------------------------------------------------
(* Calls *)

Called(c, place) ==
    /\ InUse(c, "idle") /\ used < MaxExportCalls
    /\ used' = used + 1
    /\ use' = [use EXCEPT ![c] = [at |-> place, read |-> export]]
    /\ UNCHANGED <<export, files, uploads, qjob, run, acked, outages>>

cancelExport(c) ==
    /\ export.status \in {"pending", "processing"}
    /\ clear' = (clear \ {c}) \cup {d \in {c} : \A b \in ExportCalls : use[b].at \notin {"add", "queued"}}
    /\ Called(c, IF export.status = "pending" /\ export.queued THEN "remove" ELSE "flag")

\* A job that runs cannot be removed: the call fails.
RemoveQueued(c) ==
    /\ InUse(c, "remove")
    /\ IF qjob.state = "active" THEN Leave(c) /\ UNCHANGED qjob
       ELSE Use(c, "cancel") /\ qjob' = [state |-> "none", attempts |-> 0]
    /\ UNCHANGED <<export, files, uploads, run, used, clear, acked, outages>>

RequestCancellation(c) ==
    /\ InUse(c, "flag")
    /\ export' = [export EXCEPT !.flag = TRUE]
    /\ Use(c, "cancel")
    /\ UNCHANGED <<files, uploads, qjob, run, used, clear, acked, outages>>

MarkCancelled(c) ==
    /\ InUse(c, "cancel")
    /\ export' = [export EXCEPT !.status = "cancelled"]
    /\ acked' = (c \in clear)
    /\ Leave(c)
    /\ UNCHANGED <<files, uploads, qjob, run, used, clear, outages>>

retryExport(c) ==
    /\ export.status \in {"failed", "cancelled", "expired"}
    /\ Called(c, "reset") /\ UNCHANGED clear

ResetExport(c) ==
    /\ InUse(c, "reset")
    /\ export' = NewExport
    /\ clear' = {} /\ acked' = FALSE
    /\ run' = [run EXCEPT !.doomed = FALSE]
    /\ Use(c, "add")
    /\ UNCHANGED <<files, uploads, qjob, used, outages>>

\* cleanupExpiredExports, or a download that comes too late.
expireJob(c) ==
    /\ export.status = "completed" /\ export.past
    /\ Called(c, "delete") /\ UNCHANGED clear

DeleteFile(c) ==
    /\ InUse(c, "delete")
    /\ files' = files \ {use[c].read.key}
    /\ Use(c, "expire")
    /\ UNCHANGED <<export, uploads, qjob, run, used, clear, acked, outages>>

MarkExpired(c) ==
    /\ InUse(c, "expire")
    /\ export' = [export EXCEPT !.status = "expired", !.key = NoFile]
    /\ Leave(c)
    /\ UNCHANGED <<files, uploads, qjob, run, used, clear, acked, outages>>

\* A download reads the row, then the storage.
downloadExport(c) ==
    /\ export.status = "completed" /\ ~export.past
    /\ Called(c, "missing") /\ UNCHANGED clear

Download(c) ==
    /\ InUse(c, "missing")
    /\ export' = IF use[c].read.key \in files THEN export ELSE [export EXCEPT !.status = "failed"]
    /\ Leave(c)
    /\ UNCHANGED <<files, uploads, qjob, run, used, clear, acked, outages>>

PassExpiry ==
    /\ export.status = "completed" /\ ~export.past
    /\ export' = [export EXCEPT !.past = TRUE]
    /\ UNCHANGED <<files, uploads, qjob, run, use, used, clear, acked, outages>>

ExportNext ==
    \/ processQueuedExport \/ StartRun \/ assertNotCancelled \/ updateJobProgress \/ StoreFile
    \/ CompleteExport \/ sendExportEmail \/ StageFails \/ failJob \/ CrashExports \/ PassExpiry
    \/ \E c \in ExportCalls :
         \/ enqueueExportJob(c) \/ MarkQueued(c) \/ MarkRefused(c)
         \/ cancelExport(c) \/ RemoveQueued(c) \/ RequestCancellation(c) \/ MarkCancelled(c)
         \/ retryExport(c) \/ ResetExport(c)
         \/ expireJob(c) \/ DeleteFile(c) \/ MarkExpired(c) \/ downloadExport(c) \/ Download(c)

ExportSpec == ExportInit /\ [][ExportNext]_exportVars

-----------------------------------------------------------------------------
(* Properties *)

\* Cancellations, retries, expiry and runs overwrite each other's columns: an export
\* that says COMPLETED names a file, which is there until it expires, and a run that
\* starts after a cancellation was confirmed, with no retry under way or since, never
\* gets as far as a file.
CompletedHasFile ==
    /\ export.status = "completed" => /\ export.key # NoFile
                                      /\ export.key \in files \/ export.past
    /\ run.doomed => run.at \notin {"store", "complete", "email"}
=============================================================================
