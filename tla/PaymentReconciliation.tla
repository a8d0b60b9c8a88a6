------------------------- MODULE PaymentReconciliation -------------------------
(***************************************************************************)
(* Reconciliation of stored payments with the Stellar network              *)
(* (backend/src/payments/payment-reconciliation.service.ts and the two     *)
(* queue processors).  One cron job queues every undecided payment, another *)
(* sends stale ones to manual review; queue workers ask Horizon and write  *)
(* the verdict; an administrator resolves reviews; a settlement job        *)
(* completes the split.  No write is conditional on the status that was    *)
(* read before it, and the same payment may be queued any number of times. *)
(***************************************************************************)
EXTENDS Naturals, FiniteSets

CONSTANTS
    NumPayments,  \* payments are 1..NumPayments, in the order of createdAt
    Workers,      \* jobs of the reconciliation queue served at the same time
    Nobody,       \* no payment
    BatchSize,    \* reconciliationBatchSize
    MaxAttempts,  \* maxReconciliationAttempts
    MaxJobs,      \* bound on the queued jobs of one payment
    MaxTroubles   \* bound on outages, failing statements and crashes together

Payments == 1..NumPayments

ASSUME ReconciliationConstants ==
    /\ NumPayments \in Nat /\ BatchSize \in Nat /\ MaxAttempts \in Nat
    /\ MaxJobs \in Nat /\ MaxTroubles \in Nat
    /\ Nobody \notin Payments

VARIABLES
    settlementStatus,       \* payments.settlementStatus
    reconciliationAttempts, \* payments.reconciliationAttempts, up to MaxAttempts
    lastCheck,              \* payments.lastSettlementCheck: never, fresh, or beyond the threshold
    standing,               \* participants.status of the payment's participant; "reopened"
                            \* is pending though the amount paid covers the amount owed
    splitStatus,            \* splits.status of the split they share
    reconcileJobs,          \* jobs waiting in the reconciliation queue, per payment
    settleJobs,             \* payments with a job in the settlement queue
    worker,                 \* what every worker does, for which payment, and the
                            \* number of attempts it read
    staleList,              \* what the stale cron job found and has not marked yet
    opened,                 \* the payment an administrator has loaded
    settling,               \* the settlement job that runs, and the step it is at
    onChain,                \* what the network knows of the payment's transaction
    decided,                \* history: what administrators decided
    troubles                \* outages, errors and crashes so far

reconVars == <<settlementStatus, reconciliationAttempts, lastCheck, standing, splitStatus,
               reconcileJobs, settleJobs, worker, staleList, opened, settling, onChain,
               decided, troubles>>

Undecided == {"submitted", "reconciling"}
Final     == {"confirmed", "failed", "review_required"}

Resting == [at |-> "idle", payment |-> Nobody, attempts |-> 0]

\* Rows and workers keep their types; attempts never pass the limit of reconcilePayment.
ReconTypeOK ==
    /\ settlementStatus \in [Payments -> Undecided \cup Final]
    /\ reconciliationAttempts \in [Payments -> 0..MaxAttempts]
    /\ lastCheck \in [Payments -> {"never", "fresh", "old"}]
    /\ standing \in [Payments -> {"pending", "paid", "reopened"}]
    /\ splitStatus \in {"active", "completed"}
    /\ reconcileJobs \in [Payments -> 0..MaxJobs]
    /\ settleJobs \subseteq Payments
    /\ worker \in [Workers -> [at : {"idle", "mark", "verify", "confirm", "enqueue", "fail",
                                     "reopen", "recover"},
                               payment : Payments \cup {Nobody}, attempts : 0..MaxAttempts]]
    /\ staleList \subseteq Payments
    /\ opened \in Payments \cup {Nobody}
    /\ settling \in [payment : Payments \cup {Nobody}, at : {"idle", "check", "complete"}]
    /\ onChain \in [Payments -> {"unknown", "success", "invalid"}]
    /\ decided \subseteq Payments \X {"confirm", "fail"}
    /\ troubles \in 0..MaxTroubles

\* Rows as the multi-currency service leaves them: submitted, never checked.
ReconInit ==
    /\ settlementStatus = [p \in Payments |-> "submitted"]
    /\ reconciliationAttempts = [p \in Payments |-> 0]
    /\ lastCheck = [p \in Payments |-> "never"]
    /\ standing \in [Payments -> {"pending", "paid"}]
    /\ splitStatus = "active"
    /\ reconcileJobs = [p \in Payments |-> 0]
    /\ settleJobs = {}
    /\ worker = [w \in Workers |-> Resting]
    /\ staleList = {} /\ opened = Nobody
    /\ settling = [payment |-> Nobody, at |-> "idle"]
    /\ onChain = [p \in Payments |-> "unknown"]
    /\ decided = {} /\ troubles = 0

rows     == <<settlementStatus, reconciliationAttempts, lastCheck>>
split    == <<standing, splitStatus>>
crons    == <<staleList, opened, settling>>
past     == <<onChain, decided, troubles>>

SetStatus(p, s) == settlementStatus' = [settlementStatus EXCEPT ![p] = s]
Checked(p)      == lastCheck' = [lastCheck EXCEPT ![p] = "fresh"]
At(w, place)    == worker' = [worker EXCEPT ![w].at = place]
Rest(w)         == worker' = [worker EXCEPT ![w] = Resting]
Trouble         == troubles < MaxTroubles /\ troubles' = troubles + 1

-----------------------------------------------------------------------------
(* The cron jobs *)

\* The oldest undecided payments, at most BatchSize; the first form overlooks
\* those left in RECONCILING.
OldestSubmitted == {p \in Payments : settlementStatus[p] = "submitted"}
OldestUndecided ==
    {p \in Payments : /\ settlementStatus[p] \in Undecided
                      /\ Cardinality({q \in 1..(p - 1) : settlementStatus[q] \in Undecided})
                           < BatchSize}

reconcilePendingPayments ==
    /\ OldestUndecided # {}
    /\ \A p \in OldestUndecided : reconcileJobs[p] < MaxJobs
    /\ reconcileJobs' = [p \in Payments |-> IF p \in OldestUndecided THEN reconcileJobs[p] + 1
                                            ELSE reconcileJobs[p]]
    /\ UNCHANGED <<rows, split, settleJobs, worker, crons, past>>

FindStalePayments ==
    /\ staleList = {}
    /\ staleList' = {p \in Payments : settlementStatus[p] = "submitted" /\ lastCheck[p] = "old"}
    /\ UNCHANGED <<rows, split, reconcileJobs, settleJobs, worker, opened, settling, past>>

\* Whatever the row has become since it was found.
MarkStalePayment(p) ==
    /\ p \in staleList
    /\ staleList' = staleList \ {p}
    /\ SetStatus(p, "review_required")
    /\ Checked(p)
    /\ UNCHANGED <<reconciliationAttempts, split, reconcileJobs, settleJobs, worker, opened,
                   settling, past>>

-----------------------------------------------------------------------------
(* reconcilePayment, await by await *)

ReadPayment(w, p) ==
    /\ worker[w].at = "idle"
    /\ reconcileJobs[p] > 0
    /\ reconcileJobs' = [reconcileJobs EXCEPT ![p] = @ - 1]
    /\ IF settlementStatus[p] \in Final
       THEN UNCHANGED worker
       ELSE worker' = [worker EXCEPT ![w] = [at |-> "mark", payment |-> p,
                                             attempts |-> reconciliationAttempts[p]]]
    /\ UNCHANGED <<rows, split, settleJobs, crons, past>>

\* attempts + 1, as far as the comparison with the maximum can see; the first form
\* counts on.
OneMoreUnbounded(attempts) == attempts + 1
OneMore(attempts) == IF attempts < MaxAttempts THEN attempts + 1 ELSE attempts

MarkReconciling(w) ==
    LET p == worker[w].payment IN
    /\ worker[w].at = "mark"
    /\ SetStatus(p, "reconciling")
    /\ reconciliationAttempts' =
         [reconciliationAttempts EXCEPT ![p] = OneMore(worker[w].attempts)]
    /\ Checked(p)
    /\ At(w, "verify")
    /\ UNCHANGED <<split, reconcileJobs, settleJobs, crons, past>>

\* verifyTransaction answers null for a transaction Horizon does not know and for
\* an outage alike: the job ends and the row stays in RECONCILING.
VerifiedNull(w) ==
    /\ worker[w].at = "verify"
    /\ \/ onChain[worker[w].payment] = "unknown" /\ UNCHANGED troubles
       \/ Trouble
    /\ Rest(w)
    /\ UNCHANGED <<rows, split, reconcileJobs, settleJobs, crons, onChain, decided>>

\* Where an answer leads; the first form does not look at valid.
VerdictAlways(answer) == "confirm"
Verdict(answer) == IF answer = "success" THEN "confirm" ELSE "fail"

Verified(w) ==
    LET answer == onChain[worker[w].payment] IN
    /\ worker[w].at = "verify"
    /\ answer # "unknown"
    /\ At(w, Verdict(answer))
    /\ UNCHANGED <<rows, split, reconcileJobs, settleJobs, crons, past>>

Confirm(w) ==
    LET p == worker[w].payment IN
    /\ worker[w].at = "confirm"
    /\ SetStatus(p, "confirmed")
    /\ Checked(p)
    /\ At(w, "enqueue")
    /\ UNCHANGED <<reconciliationAttempts, split, reconcileJobs, settleJobs, crons, past>>

EnqueueSettlement(w) ==
    /\ worker[w].at = "enqueue"
    /\ settleJobs' = settleJobs \cup {worker[w].payment}
    /\ Rest(w)
    /\ UNCHANGED <<rows, split, reconcileJobs, crons, past>>

Fail(w) ==
    LET p == worker[w].payment IN
    /\ worker[w].at = "fail"
    /\ SetStatus(p, "failed")
    /\ Checked(p)
    /\ At(w, "reopen")
    /\ UNCHANGED <<reconciliationAttempts, split, reconcileJobs, settleJobs, crons, past>>

ReopenParticipant(w) ==
    /\ worker[w].at = "reopen"
    /\ standing' = [standing EXCEPT ![worker[w].payment] =
                     IF @ = "pending" THEN "pending" ELSE "reopened"]
    /\ Rest(w)
    /\ UNCHANGED <<rows, splitStatus, reconcileJobs, settleJobs, crons, past>>

\* A statement of the try block fails.
Catch(w) ==
    /\ worker[w].at \in {"confirm", "enqueue", "fail", "reopen"}
    /\ Trouble
    /\ At(w, "recover")
    /\ UNCHANGED <<rows, split, reconcileJobs, settleJobs, crons, onChain, decided>>

\* Back to SUBMITTED, or to the review once the attempts are used up.
Recover(w) ==
    LET p == worker[w].payment IN
    /\ worker[w].at = "recover"
    /\ IF OneMore(worker[w].attempts) >= MaxAttempts
       THEN SetStatus(p, "review_required") /\ Checked(p)
       ELSE SetStatus(p, "submitted") /\ UNCHANGED lastCheck
    /\ Rest(w)
    /\ UNCHANGED <<reconciliationAttempts, split, reconcileJobs, settleJobs, crons, past>>

\* The worker dies; its job comes back at most once, or not at all.
CrashWorker(w) ==
    LET p == worker[w].payment IN
    /\ worker[w].at # "idle"
    /\ Trouble
    /\ Rest(w)
    /\ \/ UNCHANGED reconcileJobs
       \/ reconcileJobs[p] < MaxJobs /\ reconcileJobs' = [reconcileJobs EXCEPT ![p] = @ + 1]
    /\ UNCHANGED <<rows, split, settleJobs, crons, onChain, decided>>

-----------------------------------------------------------------------------
(* resolvePaymentFromReview *)

OpenReview(p) ==
    /\ opened = Nobody
    /\ settlementStatus[p] = "review_required"
    /\ opened' = p
    /\ UNCHANGED <<rows, split, reconcileJobs, settleJobs, worker, staleList, settling, past>>

DecideReview(resolution) ==
    LET p == opened IN
    /\ p # Nobody
    /\ opened' = Nobody
    /\ decided' = decided \cup {<<p, resolution>>}
    /\ SetStatus(p, IF resolution = "confirm" THEN "confirmed" ELSE "failed")
    /\ UNCHANGED <<reconciliationAttempts, lastCheck, split, reconcileJobs, settleJobs, worker,
                   staleList, settling, onChain, troubles>>

RetryReview ==
    LET p == opened IN
    /\ p # Nobody
    /\ reconcileJobs[p] < MaxJobs
    /\ opened' = Nobody
    /\ SetStatus(p, "submitted")
    /\ reconciliationAttempts' = [reconciliationAttempts EXCEPT ![p] = 0]
    /\ reconcileJobs' = [reconcileJobs EXCEPT ![p] = @ + 1]
    /\ UNCHANGED <<lastCheck, split, settleJobs, worker, staleList, settling, past>>

-----------------------------------------------------------------------------
(* The settlement job *)

handleSettlement(p) ==
    /\ settling.at = "idle"
    /\ p \in settleJobs
    /\ settleJobs' = settleJobs \ {p}
    /\ IF settlementStatus[p] = "confirmed"
       THEN settling' = [payment |-> p, at |-> "check"]
       ELSE UNCHANGED settling
    /\ UNCHANGED <<rows, split, reconcileJobs, worker, staleList, opened, past>>

\* Every participant of the split paid?  The answer is used one await later.
CheckSplitCompletion ==
    /\ settling.at = "check"
    /\ settling' = IF (\A p \in Payments : standing[p] # "pending") /\ splitStatus # "completed"
                   THEN [settling EXCEPT !.at = "complete"]
                   ELSE [payment |-> Nobody, at |-> "idle"]
    /\ UNCHANGED <<rows, split, reconcileJobs, settleJobs, worker, staleList, opened, past>>

CompleteSplit ==
    /\ settling.at = "complete"
    /\ splitStatus' = "completed"
    /\ settling' = [payment |-> Nobody, at |-> "idle"]
    /\ UNCHANGED <<rows, standing, reconcileJobs, settleJobs, worker, staleList, opened, past>>

\* The settlement job fails and is tried again.
SettlementFails ==
    /\ settling.at # "idle"
    /\ Trouble
    /\ settleJobs' = settleJobs \cup {settling.payment}
    /\ settling' = [payment |-> Nobody, at |-> "idle"]
    /\ UNCHANGED <<rows, split, reconcileJobs, worker, staleList, opened, onChain, decided>>

\* The stale cron job gives up at the first error.
StaleCronFails ==
    /\ staleList # {}
    /\ Trouble
    /\ staleList' = {}
    /\ UNCHANGED <<rows, split, reconcileJobs, settleJobs, worker, opened, settling, onChain,
                   decided>>

-----------------------------------------------------------------------------
(* The network and the clock *)

Land(p) ==
    /\ onChain[p] = "unknown"
    /\ \E r \in {"success", "invalid"} : onChain' = [onChain EXCEPT ![p] = r]
    /\ UNCHANGED <<rows, split, reconcileJobs, settleJobs, worker, crons, decided,
                   troubles>>

PassThreshold(p) ==
    /\ lastCheck[p] = "fresh"
    /\ lastCheck' = [lastCheck EXCEPT ![p] = "old"]
    /\ UNCHANGED <<settlementStatus, reconciliationAttempts, split, reconcileJobs, settleJobs,
                   worker, crons, past>>

WorkOn(w) ==
    \/ MarkReconciling(w) \/ VerifiedNull(w) \/ Verified(w) \/ Confirm(w)
    \/ EnqueueSettlement(w) \/ Fail(w) \/ ReopenParticipant(w) \/ Recover(w)

ReconNext ==
    \/ reconcilePendingPayments \/ FindStalePayments
    \/ \E w \in Workers : WorkOn(w) \/ Catch(w) \/ CrashWorker(w)
    \/ \E w \in Workers, p \in Payments : ReadPayment(w, p)
    \/ \E p \in Payments : MarkStalePayment(p) \/ OpenReview(p) \/ handleSettlement(p)
                             \/ Land(p) \/ PassThreshold(p)
    \/ \E resolution \in {"confirm", "fail"} : DecideReview(resolution)
    \/ RetryReview \/ CheckSplitCompletion \/ CompleteSplit \/ SettlementFails
    \/ StaleCronFails

ReconSpec == ReconInit /\ [][ReconNext]_reconVars

\* The scheduler fires, workers go on, the queue serves every job in its turn and
\* the network decides every transaction.
ReconFairSpec ==
    /\ ReconSpec
    /\ WF_reconVars(reconcilePendingPayments)
    /\ \A w \in Workers : WF_reconVars(WorkOn(w))
    /\ \A p \in Payments : /\ SF_reconVars(\E w \in Workers : ReadPayment(w, p))
                           /\ WF_reconVars(Land(p))

-----------------------------------------------------------------------------
(* Properties *)

\* However jobs, cron jobs and administrators overlap, a payment is recorded as
\* confirmed or failed, or queued for settlement, only because the network or an
\* administrator said so; and attempts stay within their limit (ReconTypeOK).
VerdictsHaveCause ==
    /\ ReconTypeOK
    /\ \A p \in Payments :
        /\ settlementStatus[p] = "confirmed" \/ p \in settleJobs =>
             onChain[p] = "success" \/ <<p, "confirm">> \in decided
        /\ settlementStatus[p] = "failed" =>
             onChain[p] = "invalid" \/ <<p, "fail">> \in decided

\* A payment the network decides does not stay undecided: lost jobs, outages,
\* crashes in any step and duplicate jobs only delay the verdict or the review.
EveryPaymentSettles ==
    \A p \in Payments : settlementStatus[p] \in Undecided ~> settlementStatus[p] \in Final
=============================================================================
