------------------------------- MODULE JobProofs -------------------------------
(***************************************************************************)
(* What the background jobs of the backend keep, for any number of         *)
(* workers, calls, crashes and failing statements: settlements get the     *)
(* verdict of the network; an OCR row shows a result only with its         *)
(* status; a recurring split skips no occurrence, and the Horizon poller   *)
(* no payment; a webhook is judged by its own failures; a completed export *)
(* has its file; what a proposal executes was carried; and a completed     *)
(* batch made every split.                                                 *)
(***************************************************************************)
EXTENDS PaymentReconciliation, OcrJobs, RecurringSplits, WebhookDelivery,
        ExportJobs, Governance, BatchJobs, HorizonPoller, SumsProofs, FiniteSetTheorems, TLAPS

-----------------------------------------------------------------------------
(* Reconciliation *)

Succeeded(p) == onChain[p] = "success" \/ <<p, "confirm">> \in decided
Refuted(p)   == onChain[p] = "invalid" \/ <<p, "fail">> \in decided

\* Rows and queues: a verdict has a cause.
CauseKnown(p) ==
    /\ settlementStatus[p] = "confirmed" \/ p \in settleJobs => Succeeded(p)
    /\ settlementStatus[p] = "failed" => Refuted(p)

\* A worker past its answer acts on what the network said, which is final.
WorkerSure(w) ==
    /\ worker[w].at # "idle" => worker[w].payment \in Payments
    /\ worker[w].at \in {"confirm", "enqueue"} => onChain[worker[w].payment] = "success"
    /\ worker[w].at \in {"fail", "reopen"} => onChain[worker[w].payment] = "invalid"

\* A settlement job that fails goes back to the queue with the cause it came with.
SettlingSure ==
    settling.at # "idle" => settling.payment \in Payments /\ Succeeded(settling.payment)

\* Whatever interrupts a worker, a cron job or a review: it acts on an answer that is
\* final, so every verdict it writes, or leaves to the queue, has its cause.
ReconInv ==
    /\ ReconTypeOK
    /\ \A p \in Payments : CauseKnown(p)
    /\ \A w \in Workers : WorkerSure(w)
    /\ SettlingSure

WorkerStates ==
    [at : {"idle", "mark", "verify", "confirm", "enqueue", "fail", "reopen", "recover"},
     payment : Payments \cup {Nobody}, attempts : 0..MaxAttempts]
SettlingStates == [payment : Payments \cup {Nobody}, at : {"idle", "check", "complete"}]

LEMMA ReconTypes ==
    ReconTypeOK <=>
      /\ settlementStatus \in [Payments -> Undecided \cup Final]
      /\ reconciliationAttempts \in [Payments -> 0..MaxAttempts]
      /\ lastCheck \in [Payments -> {"never", "fresh", "old"}]
      /\ standing \in [Payments -> {"pending", "paid", "reopened"}]
      /\ splitStatus \in {"active", "completed"}
      /\ reconcileJobs \in [Payments -> 0..MaxJobs]
      /\ settleJobs \subseteq Payments
      /\ worker \in [Workers -> WorkerStates]
      /\ staleList \subseteq Payments
      /\ opened \in Payments \cup {Nobody}
      /\ settling \in SettlingStates
      /\ onChain \in [Payments -> {"unknown", "success", "invalid"}]
      /\ decided \subseteq Payments \X {"confirm", "fail"}
      /\ troubles \in 0..MaxTroubles
BY DEF ReconTypeOK, WorkerStates, SettlingStates

LEMMA ReconInitInv == ReconInit => ReconInv
<1> SUFFICES ASSUME ReconInit PROVE ReconInv
  OBVIOUS
<1>1. Resting \in WorkerStates /\ Resting.at = "idle"
  BY ReconciliationConstants DEF Resting, WorkerStates
<1>2. ReconTypeOK
  BY <1>1, ReconciliationConstants DEF ReconInit, ReconTypeOK, WorkerStates, Undecided, Final
<1>3. SettlingSure
  BY DEF ReconInit, SettlingSure
<1>4. \A w \in Workers : WorkerSure(w)
  BY <1>1 DEF ReconInit, WorkerSure
<1>5. \A p \in Payments : CauseKnown(p)
  BY DEF ReconInit, CauseKnown
<1> QED
  BY <1>2, <1>3, <1>4, <1>5 DEF ReconInv

\* What the network or an administrator has said stays said.
LEMMA CausesStay ==
    ASSUME ReconTypeOK, decided \subseteq decided',
           \A p \in Payments : onChain[p] # "unknown" => onChain'[p] = onChain[p],
           NEW p \in Payments
    PROVE  /\ Succeeded(p) => Succeeded(p)'
           /\ Refuted(p) => Refuted(p)'
BY DEF Succeeded, Refuted

\* A step of one worker, or of none, which touches the rows of one payment at most.
LEMMA ReconMoves ==
    ASSUME ReconInv, ReconTypeOK', decided \subseteq decided',
           \A p \in Payments : onChain[p] # "unknown" => onChain'[p] = onChain[p],
           \A p \in Payments :
             \/ settlementStatus'[p] = settlementStatus[p]
             \/ settlementStatus'[p] \notin {"confirmed", "failed"}
             \/ settlementStatus'[p] = "confirmed" /\ Succeeded(p)'
             \/ settlementStatus'[p] = "failed" /\ Refuted(p)',
           \A p \in Payments : p \in settleJobs' => p \in settleJobs \/ Succeeded(p),
           \A w \in Workers : worker'[w] = worker[w] \/ WorkerSure(w)',
           settling' = settling \/ SettlingSure'
    PROVE  ReconInv'
<1>1. ReconTypeOK /\ (\A p \in Payments : CauseKnown(p)) /\ SettlingSure
      /\ \A w \in Workers : WorkerSure(w)
  BY DEF ReconInv
<1>2. \A p \in Payments : (Succeeded(p) => Succeeded(p)') /\ (Refuted(p) => Refuted(p)')
  BY <1>1, CausesStay
<1>3. ASSUME NEW p \in Payments PROVE CauseKnown(p)'
  <2>1. CauseKnown(p) /\ (Succeeded(p) => Succeeded(p)') /\ (Refuted(p) => Refuted(p)')
    BY <1>1, <1>2
  <2> QED
    BY <2>1 DEF CauseKnown
<1>4. ASSUME NEW w \in Workers PROVE WorkerSure(w)'
  BY <1>1 DEF WorkerSure
<1>5. SettlingSure'
  <2>1. CASE settling' = settling
    BY <1>1, <1>2, <2>1 DEF SettlingSure
  <2> QED
    BY <2>1
<1> QED
  BY <1>3, <1>4, <1>5 DEF ReconInv

\* Attempts stop counting at the limit.
LEMMA OneMoreBounded ==
    ASSUME NEW a \in 0..MaxAttempts
    PROVE  OneMore(a) \in 0..MaxAttempts
BY ReconciliationConstants DEF OneMore

\* A worker moves to another place, keeping its payment, or rests.
LEMMA WorkerMoves ==
    ASSUME ReconInv, NEW w \in Workers,
           NEW place \in {"verify", "confirm", "enqueue", "fail", "reopen", "recover"},
           Rest(w) \/ (At(w, place) /\ worker[w].at # "idle"
                       /\ (place \in {"confirm", "enqueue"} => onChain[worker[w].payment] = "success")
                       /\ (place \in {"fail", "reopen"} => onChain[worker[w].payment] = "invalid")),
           UNCHANGED onChain
    PROVE  /\ worker' \in [Workers -> WorkerStates]
           /\ \A v \in Workers : worker'[v] = worker[v] \/ WorkerSure(v)'
<1>1. worker \in [Workers -> WorkerStates] /\ WorkerSure(w)
  BY ReconTypes DEF ReconInv
<1>2. CASE Rest(w)
  <2>1. Resting \in WorkerStates /\ Resting.at = "idle"
    BY ReconciliationConstants DEF Resting, WorkerStates
  <2>2. worker' \in [Workers -> WorkerStates] /\ worker'[w] = Resting
        /\ \A v \in Workers : v # w => worker'[v] = worker[v]
    BY <1>1, <1>2, <2>1 DEF Rest
  <2> QED
    BY <2>1, <2>2 DEF WorkerSure
<1>3. CASE At(w, place) /\ worker[w].at # "idle"
           /\ (place \in {"confirm", "enqueue"} => onChain[worker[w].payment] = "success")
           /\ (place \in {"fail", "reopen"} => onChain[worker[w].payment] = "invalid")
  <2> DEFINE t == [worker[w] EXCEPT !.at = place]
  <2>1. t \in WorkerStates /\ t.at = place /\ t.payment = worker[w].payment
    BY <1>1 DEF WorkerStates
  <2>2. worker' = [worker EXCEPT ![w] = t]
    BY <1>3 DEF At
  <2> HIDE DEF t
  <2>3. worker' \in [Workers -> WorkerStates] /\ worker'[w] = t
        /\ \A v \in Workers : v # w => worker'[v] = worker[v]
    BY <1>1, <2>1, <2>2
  <2> QED
    BY <1>1, <1>3, <2>1, <2>3 DEF WorkerSure
<1> QED
  BY <1>2, <1>3

\* Steps of a worker.
LEMMA WorkOnStep ==
    ASSUME ReconInv, NEW w \in Workers, WorkOn(w)
    PROVE  ReconInv'
<1> DEFINE p == worker[w].payment
           a == worker[w].attempts
<1>1. /\ ReconTypeOK /\ WorkerSure(w) /\ \A q \in Payments : CauseKnown(q)
      /\ settlementStatus \in [Payments -> Undecided \cup Final]
      /\ reconciliationAttempts \in [Payments -> 0..MaxAttempts]
      /\ lastCheck \in [Payments -> {"never", "fresh", "old"}]
      /\ standing \in [Payments -> {"pending", "paid", "reopened"}]
      /\ settleJobs \subseteq Payments /\ worker \in [Workers -> WorkerStates]
  BY ReconTypes DEF ReconInv
<1>2. a \in 0..MaxAttempts /\ OneMore(a) \in 0..MaxAttempts
  BY <1>1, OneMoreBounded DEF WorkerStates
<1>3. worker[w].at # "idle" /\ p \in Payments
  BY <1>1 DEF WorkOn, MarkReconciling, VerifiedNull, Verified, Confirm, EnqueueSettlement, Fail,
     ReopenParticipant, Recover, WorkerSure
<1> HIDE DEF p, a
<1>4. UNCHANGED <<splitStatus, reconcileJobs, staleList, opened, settling, onChain, decided>>
      /\ troubles' \in 0..MaxTroubles
  <2>1. troubles \in 0..MaxTroubles /\ MaxTroubles \in Nat
    BY <1>1, ReconTypes, ReconciliationConstants
  <2> QED
    BY <2>1 DEF WorkOn, MarkReconciling, VerifiedNull, Verified, Confirm, EnqueueSettlement, Fail,
       ReopenParticipant, Recover, split, crons, past, Trouble
<1>5. /\ worker' \in [Workers -> WorkerStates]
      /\ \A v \in Workers : worker'[v] = worker[v] \/ WorkerSure(v)'
  <2>1. CASE Rest(w)
    BY <1>4, <2>1, WorkerMoves
  <2>2. CASE MarkReconciling(w)
    BY <1>3, <1>4, <2>2, WorkerMoves DEF MarkReconciling
  <2>3. CASE Verified(w)
    <3>1. onChain[p] \in {"success", "invalid"}
      BY <1>1, <1>3, <2>3, ReconTypes DEF Verified, p
    <3>2. /\ Verdict(onChain[p]) \in {"confirm", "fail"} /\ At(w, Verdict(onChain[p]))
          /\ Verdict(onChain[p]) = "confirm" => onChain[p] = "success"
          /\ Verdict(onChain[p]) = "fail" => onChain[p] = "invalid"
      BY <2>3, <3>1 DEF Verified, Verdict, p
    <3> QED
      BY <1>3, <1>4, <3>2, WorkerMoves DEF p
  <2>4. CASE Confirm(w)
    BY <1>1, <1>3, <1>4, <2>4, WorkerMoves DEF Confirm, WorkerSure
  <2>5. CASE Fail(w)
    BY <1>1, <1>3, <1>4, <2>5, WorkerMoves DEF Fail, WorkerSure
  <2> QED
    BY <2>1, <2>2, <2>3, <2>4, <2>5
       DEF WorkOn, VerifiedNull, EnqueueSettlement, ReopenParticipant, Recover
<1>6. /\ settlementStatus' \in [Payments -> Undecided \cup Final]
      /\ \A q \in Payments : \/ settlementStatus'[q] = settlementStatus[q]
                             \/ settlementStatus'[q] \notin {"confirmed", "failed"}
                             \/ settlementStatus'[q] = "confirmed" /\ Succeeded(q)
                             \/ settlementStatus'[q] = "failed" /\ Refuted(q)
  <2>1. CASE UNCHANGED settlementStatus
    BY <1>1, <2>1
  <2>2. CASE \E s \in {"reconciling", "submitted", "review_required"} : SetStatus(p, s)
    BY <1>1, <2>2 DEF SetStatus, Undecided, Final
  <2>3. CASE Confirm(w)
    <3>1. SetStatus(p, "confirmed") /\ Succeeded(p)
      BY <1>1, <2>3 DEF Confirm, WorkerSure, Succeeded, p
    <3> QED
      BY <1>1, <3>1 DEF SetStatus, Final
  <2>4. CASE Fail(w)
    <3>1. SetStatus(p, "failed") /\ Refuted(p)
      BY <1>1, <2>4 DEF Fail, WorkerSure, Refuted, p
    <3> QED
      BY <1>1, <3>1 DEF SetStatus, Final
  <2> QED
    BY <2>1, <2>2, <2>3, <2>4
       DEF WorkOn, MarkReconciling, VerifiedNull, Verified, EnqueueSettlement, ReopenParticipant,
           Recover, rows, p
<1>7. /\ settleJobs' \subseteq Payments
      /\ \A q \in Payments : q \in settleJobs' => q \in settleJobs \/ Succeeded(q)
  <2>1. CASE UNCHANGED settleJobs
    BY <1>1, <2>1
  <2>2. CASE EnqueueSettlement(w)
    BY <1>1, <1>3, <2>2 DEF EnqueueSettlement, WorkerSure, Succeeded, p
  <2> QED
    BY <2>1, <2>2 DEF WorkOn, MarkReconciling, VerifiedNull, Verified, Confirm, Fail,
       ReopenParticipant, Recover
<1>8. /\ reconciliationAttempts' \in [Payments -> 0..MaxAttempts]
      /\ lastCheck' \in [Payments -> {"never", "fresh", "old"}]
      /\ standing' \in [Payments -> {"pending", "paid", "reopened"}]
  <2>1. reconciliationAttempts' \in [Payments -> 0..MaxAttempts]
    <3>1. CASE MarkReconciling(w)
      BY <1>1, <1>2, <3>1 DEF MarkReconciling, a
    <3>2. CASE UNCHANGED reconciliationAttempts
      BY <1>1, <3>2
    <3> QED
      BY <3>1, <3>2 DEF WorkOn, VerifiedNull, Verified, Confirm, EnqueueSettlement, Fail,
         ReopenParticipant, Recover, rows
  <2>2. lastCheck' \in [Payments -> {"never", "fresh", "old"}]
    <3>1. Checked(p) \/ UNCHANGED lastCheck
      BY DEF WorkOn, MarkReconciling, VerifiedNull, Verified, Confirm, EnqueueSettlement, Fail,
         ReopenParticipant, Recover, rows, p
    <3> QED
      BY <1>1, <3>1 DEF Checked
  <2>3. standing' \in [Payments -> {"pending", "paid", "reopened"}]
    <3>1. CASE ReopenParticipant(w)
      BY <1>1, <3>1 DEF ReopenParticipant
    <3>2. CASE UNCHANGED standing
      BY <1>1, <3>2
    <3> QED
      BY <3>1, <3>2 DEF WorkOn, MarkReconciling, VerifiedNull, Verified, Confirm,
         EnqueueSettlement, Fail, Recover, split
  <2> QED
    BY <2>1, <2>2, <2>3
<1>9. ReconTypeOK'
  BY <1>1, <1>4, <1>5, <1>6, <1>7, <1>8, ReconTypes DEF ReconTypeOK, WorkerStates
<1>10. \A q \in Payments : (Succeeded(q)' <=> Succeeded(q)) /\ (Refuted(q)' <=> Refuted(q))
  BY <1>4 DEF Succeeded, Refuted
<1> QED
  BY <1>4, <1>5, <1>6, <1>7, <1>9, <1>10, ReconMoves

\* Steps that leave the statuses, the verdicts and the settlement alone.
LEMMA QuietReconStep ==
    ASSUME ReconInv, ReconTypeOK',
           UNCHANGED <<settlementStatus, onChain, decided>>,
           settleJobs' \subseteq settleJobs,
           \A w \in Workers : worker'[w] = worker[w] \/ WorkerSure(w)',
           settling' = settling \/ SettlingSure'
    PROVE  ReconInv'
BY ReconMoves

LEMMA JobsAndCronsStep ==
    ASSUME ReconInv,
           \/ reconcilePendingPayments \/ FindStalePayments \/ CheckSplitCompletion
           \/ CompleteSplit \/ StaleCronFails \/ (\E p \in Payments : PassThreshold(p))
           \/ (\E p \in Payments : OpenReview(p)) \/ UNCHANGED reconVars
    PROVE  ReconInv'
<1>1. /\ ReconTypeOK /\ worker \in [Workers -> WorkerStates]
      /\ reconcileJobs \in [Payments -> 0..MaxJobs] /\ MaxJobs \in Nat
      /\ lastCheck \in [Payments -> {"never", "fresh", "old"}]
      /\ settling \in SettlingStates /\ SettlingSure /\ staleList \subseteq Payments
      /\ opened \in Payments \cup {Nobody} /\ splitStatus \in {"active", "completed"}
      /\ troubles \in 0..MaxTroubles /\ MaxTroubles \in Nat
  BY ReconTypes, ReconciliationConstants DEF ReconInv
<1>2. /\ UNCHANGED <<settlementStatus, reconciliationAttempts, standing, settleJobs, worker,
                     onChain, decided>>
      /\ reconcileJobs' = reconcileJobs \/ reconcilePendingPayments
      /\ lastCheck' = lastCheck \/ \E p \in Payments : PassThreshold(p)
      /\ staleList' = staleList \/ FindStalePayments \/ staleList' = {}
      /\ opened' = opened \/ opened' \in Payments
      /\ settling' = settling \/ CheckSplitCompletion \/ settling' = [payment |-> Nobody, at |-> "idle"]
      /\ splitStatus' = splitStatus \/ splitStatus' = "completed"
      /\ troubles' = troubles \/ Trouble
  BY DEF reconcilePendingPayments, FindStalePayments, CheckSplitCompletion, CompleteSplit,
     StaleCronFails, PassThreshold, OpenReview, reconVars, rows, split, crons, past
<1>3. reconcileJobs' \in [Payments -> 0..MaxJobs]
  <2>1. CASE reconcilePendingPayments
    <3>1. \A p \in Payments : (IF p \in OldestUndecided THEN reconcileJobs[p] + 1
                               ELSE reconcileJobs[p]) \in 0..MaxJobs
      BY <1>1, <2>1 DEF reconcilePendingPayments, OldestUndecided
    <3> QED
      BY <2>1, <3>1 DEF reconcilePendingPayments
  <2> QED
    BY <1>1, <1>2, <2>1
<1>4. lastCheck' \in [Payments -> {"never", "fresh", "old"}]
  BY <1>1, <1>2 DEF PassThreshold
<1>5. staleList' \subseteq Payments /\ opened' \in Payments \cup {Nobody}
      /\ splitStatus' \in {"active", "completed"} /\ troubles' \in 0..MaxTroubles
  BY <1>1, <1>2 DEF FindStalePayments, Trouble
<1>6. settling' \in SettlingStates /\ SettlingSure'
  <2>1. CASE settling' = settling
    BY <1>1, <1>2, <2>1 DEF SettlingSure, Succeeded
  <2>2. CASE settling' = [payment |-> Nobody, at |-> "idle"]
    BY <2>2 DEF SettlingSure, SettlingStates
  <2>3. CASE settling.at = "check" /\ settling' = [settling EXCEPT !.at = "complete"]
    <3>1. settling' \in SettlingStates /\ settling'.payment = settling.payment
      BY <1>1, <2>3 DEF SettlingStates
    <3> QED
      BY <1>1, <1>2, <2>3, <3>1 DEF SettlingSure, Succeeded
  <2> QED
    BY <1>2, <2>1, <2>2, <2>3 DEF CheckSplitCompletion
<1>7. ReconTypeOK'
  BY <1>1, <1>2, <1>3, <1>4, <1>5, <1>6 DEF ReconTypeOK, SettlingStates, WorkerStates
<1> QED
  BY <1>1, <1>2, <1>6, <1>7, QuietReconStep

LEMMA ReadPaymentStep ==
    ASSUME ReconInv, NEW w \in Workers, NEW p \in Payments, ReadPayment(w, p)
    PROVE  ReconInv'
<1>1. /\ ReconTypeOK /\ worker \in [Workers -> WorkerStates]
      /\ reconcileJobs \in [Payments -> 0..MaxJobs] /\ MaxJobs \in Nat
      /\ reconciliationAttempts \in [Payments -> 0..MaxAttempts]
  BY ReconTypes, ReconciliationConstants DEF ReconInv
<1> DEFINE t == [at |-> "mark", payment |-> p, attempts |-> reconciliationAttempts[p]]
<1>2. t \in WorkerStates /\ t.at = "mark" /\ t.payment = p
  BY <1>1 DEF WorkerStates
<1>3. /\ UNCHANGED <<settlementStatus, reconciliationAttempts, lastCheck, standing, splitStatus,
                     settleJobs, staleList, opened, settling, onChain, decided, troubles>>
      /\ reconcileJobs[p] > 0 /\ reconcileJobs' = [reconcileJobs EXCEPT ![p] = reconcileJobs[p] - 1]
      /\ worker' = worker \/ worker' = [worker EXCEPT ![w] = t]
  BY DEF ReadPayment, rows, split, crons, past
<1> HIDE DEF t
<1>4. worker' \in [Workers -> WorkerStates] /\ \A v \in Workers : worker'[v] = worker[v] \/ WorkerSure(v)'
  BY <1>1, <1>2, <1>3 DEF WorkerSure
<1>5. reconcileJobs' \in [Payments -> 0..MaxJobs]
  BY <1>1, <1>3
<1>6. ReconTypeOK'
  BY <1>1, <1>3, <1>4, <1>5 DEF ReconTypeOK, WorkerStates
<1> QED
  BY <1>3, <1>4, <1>6, QuietReconStep

LEMMA WorkerFailsStep ==
    ASSUME ReconInv, NEW w \in Workers, Catch(w) \/ CrashWorker(w)
    PROVE  ReconInv'
<1>1. /\ ReconTypeOK /\ reconcileJobs \in [Payments -> 0..MaxJobs] /\ MaxJobs \in Nat
      /\ troubles \in 0..MaxTroubles /\ MaxTroubles \in Nat
  BY ReconTypes, ReconciliationConstants DEF ReconInv
<1>2. /\ UNCHANGED <<settlementStatus, reconciliationAttempts, lastCheck, standing, splitStatus,
                     settleJobs, staleList, opened, settling, onChain, decided>>
      /\ Trouble /\ worker[w].at # "idle" /\ (Rest(w) \/ At(w, "recover"))
      /\ \/ reconcileJobs' = reconcileJobs
         \/ LET p == worker[w].payment IN
              reconcileJobs[p] < MaxJobs /\ reconcileJobs' = [reconcileJobs EXCEPT ![p] = reconcileJobs[p] + 1]
  BY DEF Catch, CrashWorker, rows, split, crons
<1>3. worker' \in [Workers -> WorkerStates] /\ \A v \in Workers : worker'[v] = worker[v] \/ WorkerSure(v)'
  BY <1>2, WorkerMoves
<1>4. reconcileJobs' \in [Payments -> 0..MaxJobs] /\ troubles' \in 0..MaxTroubles
  BY <1>1, <1>2 DEF Trouble
<1>5. ReconTypeOK'
  BY <1>1, <1>2, <1>3, <1>4 DEF ReconTypeOK, WorkerStates
<1> QED
  BY <1>2, <1>3, <1>5, QuietReconStep

LEMMA ReviewStep ==
    ASSUME ReconInv,
           \/ \E p \in Payments : MarkStalePayment(p)
           \/ \E resolution \in {"confirm", "fail"} : DecideReview(resolution)
           \/ RetryReview
    PROVE  ReconInv'
<1>1. /\ ReconTypeOK /\ settlementStatus \in [Payments -> Undecided \cup Final]
      /\ reconciliationAttempts \in [Payments -> 0..MaxAttempts] /\ MaxAttempts \in Nat
      /\ lastCheck \in [Payments -> {"never", "fresh", "old"}]
      /\ reconcileJobs \in [Payments -> 0..MaxJobs] /\ MaxJobs \in Nat
      /\ staleList \subseteq Payments /\ opened \in Payments \cup {Nobody}
      /\ decided \subseteq Payments \X {"confirm", "fail"}
  BY ReconTypes, ReconciliationConstants DEF ReconInv
<1>2. /\ UNCHANGED <<standing, splitStatus, settleJobs, worker, settling, onChain, troubles>>
      /\ staleList' \subseteq staleList /\ (opened' = opened \/ opened' = Nobody)
  BY DEF MarkStalePayment, DecideReview, RetryReview, split, crons, past
<1>3. CASE \E p \in Payments : MarkStalePayment(p)
  <2>1. PICK p \in Payments : MarkStalePayment(p)
    BY <1>3
  <2>2. /\ settlementStatus' = [settlementStatus EXCEPT ![p] = "review_required"]
        /\ lastCheck' = [lastCheck EXCEPT ![p] = "fresh"]
        /\ UNCHANGED <<reconciliationAttempts, reconcileJobs, decided>>
    BY <2>1 DEF MarkStalePayment, SetStatus, Checked, past
  <2>3. settlementStatus' \in [Payments -> Undecided \cup Final]
        /\ lastCheck' \in [Payments -> {"never", "fresh", "old"}]
    BY <1>1, <2>2 DEF Final
  <2>4. ReconTypeOK'
    BY <1>1, <1>2, <2>2, <2>3 DEF ReconTypeOK
  <2>5. \A q \in Payments : \/ settlementStatus'[q] = settlementStatus[q]
                            \/ settlementStatus'[q] \notin {"confirmed", "failed"}
    BY <1>1, <2>2
  <2> QED
    BY <1>2, <2>2, <2>4, <2>5, ReconMoves
<1>4. CASE \E resolution \in {"confirm", "fail"} : DecideReview(resolution)
  <2>1. PICK resolution \in {"confirm", "fail"} : DecideReview(resolution)
    BY <1>4
  <2> DEFINE s == IF resolution = "confirm" THEN "confirmed" ELSE "failed"
  <2>2. /\ opened \in Payments /\ settlementStatus' = [settlementStatus EXCEPT ![opened] = s]
        /\ decided' = decided \cup {<<opened, resolution>>}
        /\ UNCHANGED <<reconciliationAttempts, lastCheck, reconcileJobs>>
    BY <1>1, <2>1 DEF DecideReview, SetStatus
  <2>3. settlementStatus' \in [Payments -> Undecided \cup Final]
    BY <1>1, <2>2 DEF Final
  <2>4. ReconTypeOK'
    BY <1>1, <1>2, <2>1, <2>2, <2>3 DEF ReconTypeOK
  <2>5. \A q \in Payments : \/ settlementStatus'[q] = settlementStatus[q]
                            \/ settlementStatus'[q] = "confirmed" /\ Succeeded(q)'
                            \/ settlementStatus'[q] = "failed" /\ Refuted(q)'
    BY <1>1, <2>1, <2>2 DEF Succeeded, Refuted
  <2> QED
    BY <1>2, <2>2, <2>4, <2>5, ReconMoves
<1>5. CASE RetryReview
  <2>2. /\ opened \in Payments /\ settlementStatus' = [settlementStatus EXCEPT ![opened] = "submitted"]
        /\ reconciliationAttempts' = [reconciliationAttempts EXCEPT ![opened] = 0]
        /\ reconcileJobs[opened] < MaxJobs
        /\ reconcileJobs' = [reconcileJobs EXCEPT ![opened] = reconcileJobs[opened] + 1]
        /\ UNCHANGED <<lastCheck, decided>>
    BY <1>1, <1>5 DEF RetryReview, SetStatus, past
  <2>3. /\ settlementStatus' \in [Payments -> Undecided \cup Final]
        /\ reconciliationAttempts' \in [Payments -> 0..MaxAttempts]
        /\ reconcileJobs' \in [Payments -> 0..MaxJobs]
    BY <1>1, <2>2 DEF Undecided
  <2>4. ReconTypeOK'
    BY <1>1, <1>2, <2>2, <2>3 DEF ReconTypeOK
  <2>5. \A q \in Payments : \/ settlementStatus'[q] = settlementStatus[q]
                            \/ settlementStatus'[q] \notin {"confirmed", "failed"}
    BY <1>1, <2>2
  <2> QED
    BY <1>2, <2>2, <2>4, <2>5, ReconMoves
<1> QED
  BY <1>3, <1>4, <1>5

LEMMA SettlementStep ==
    ASSUME ReconInv, (\E p \in Payments : handleSettlement(p)) \/ SettlementFails
    PROVE  ReconInv'
<1>1. /\ ReconTypeOK /\ SettlingSure /\ settling \in SettlingStates /\ settleJobs \subseteq Payments
      /\ troubles \in 0..MaxTroubles /\ MaxTroubles \in Nat
      /\ \A p \in Payments : CauseKnown(p)
  BY ReconTypes, ReconciliationConstants DEF ReconInv
<1>2. UNCHANGED <<settlementStatus, reconciliationAttempts, lastCheck, standing, splitStatus,
                  reconcileJobs, worker, staleList, opened, onChain, decided>>
  BY DEF handleSettlement, SettlementFails, rows, split, past
<1>3. CASE \E p \in Payments : handleSettlement(p)
  <2>1. PICK p \in Payments : handleSettlement(p)
    BY <1>3
  <2> DEFINE t == [payment |-> p, at |-> "check"]
  <2>2. /\ settleJobs' \subseteq settleJobs /\ p \in settleJobs /\ troubles' = troubles
        /\ settling' = settling \/ settling' = t
    BY <2>1 DEF handleSettlement, past
  <2>3. t \in SettlingStates /\ t.payment = p
    BY DEF SettlingStates
  <2>4. Succeeded(p)'
    BY <1>1, <1>2, <2>2 DEF CauseKnown, Succeeded
  <2> HIDE DEF t
  <2>5. settling' = settling \/ SettlingSure'
    BY <2>2, <2>3, <2>4 DEF SettlingSure, Succeeded
  <2>6. ReconTypeOK'
    BY <1>1, <1>2, <2>2, <2>3 DEF ReconTypeOK, SettlingStates
  <2> QED
    BY <1>2, <2>2, <2>5, <2>6, QuietReconStep
<1>4. CASE SettlementFails
  <2>1. /\ settling.at # "idle" /\ Trouble /\ settleJobs' = settleJobs \cup {settling.payment}
        /\ settling' = [payment |-> Nobody, at |-> "idle"]
    BY <1>4 DEF SettlementFails
  <2>2. settling.payment \in Payments /\ Succeeded(settling.payment)
    BY <1>1, <2>1 DEF SettlingSure
  <2>3. settling' \in SettlingStates /\ SettlingSure' /\ troubles' \in 0..MaxTroubles
    BY <1>1, <2>1 DEF SettlingSure, SettlingStates, Trouble
  <2>4. ReconTypeOK'
    BY <1>1, <1>2, <2>1, <2>2, <2>3 DEF ReconTypeOK, SettlingStates
  <2> QED
    BY <1>2, <2>1, <2>2, <2>3, <2>4, ReconMoves
<1> QED
  BY <1>3, <1>4

LEMMA LandStep ==
    ASSUME ReconInv, NEW p \in Payments, Land(p)
    PROVE  ReconInv'
<1>1. ReconTypeOK /\ onChain \in [Payments -> {"unknown", "success", "invalid"}]
  BY ReconTypes DEF ReconInv
<1>2. PICK r \in {"success", "invalid"} : onChain' = [onChain EXCEPT ![p] = r]
  BY DEF Land
<1>3. /\ UNCHANGED <<settlementStatus, reconciliationAttempts, lastCheck, standing, splitStatus,
                     reconcileJobs, settleJobs, worker, staleList, opened, settling, decided,
                     troubles>>
      /\ onChain[p] = "unknown"
  BY DEF Land, rows, split, crons
<1>4. onChain' \in [Payments -> {"unknown", "success", "invalid"}]
      /\ \A q \in Payments : onChain[q] # "unknown" => onChain'[q] = onChain[q]
  BY <1>1, <1>2, <1>3
<1>5. ReconTypeOK'
  BY <1>1, <1>3, <1>4 DEF ReconTypeOK
<1> QED
  BY <1>3, <1>4, <1>5, ReconMoves

LEMMA ReconStepInv == ReconInv /\ [ReconNext]_reconVars => ReconInv'
BY WorkOnStep, JobsAndCronsStep, ReadPaymentStep, WorkerFailsStep, ReviewStep, SettlementStep,
   LandStep
   DEF ReconNext

\* The rows and what every worker, cron job and review may do to them next: the
\* inductive invariant of reconciliation.
THEOREM ReconInvariant == ReconSpec => []ReconInv
  BY ReconInitInv, ReconStepInv, PTL DEF ReconSpec

\* VerdictsHaveCause for any number of payments, workers, duplicate jobs and troubles.
THEOREM VerdictsCaused == ReconSpec => []VerdictsHaveCause
<1>1. ReconInv => VerdictsHaveCause
  BY DEF ReconInv, CauseKnown, Succeeded, Refuted, VerdictsHaveCause
<1> QED
  BY <1>1, ReconInvariant, PTL

-----------------------------------------------------------------------------
(* OCR jobs *)

JobStates == [state : {"none", "waiting", "active", "done"}, attempts : 0..Attempts]
RunnerStates == [at : {"idle", "started", "fetched", "ready", "scanned", "failed"}, held : Scan]
UserStates   == [at : {"idle", "create", "link", "cancel", "drop", "retry", "again", "manual"},
                 held : Scan]

\* A row that does not show a result.
NoResult(r) == r.status \notin {"completed", "needs_review"}

\* A job waits for an attempt it still has.
QueueFits(j) ==
    /\ ocrQueue[j].state = "none" => ocrQueue[j].attempts = 0
    /\ ocrQueue[j].state = "waiting" => ocrQueue[j].attempts < Attempts

\* Runs hold rows that show no result, and so does a call until its job is linked: what
\* they save over a result shows none either, and results come from scans alone.
ResultInv ==
    /\ OcrTypeOK
    /\ \A j \in QueueJobs : QueueFits(j)
    /\ ResultsMatchStatus
    /\ \A j \in QueueJobs : NoResult(runner[j].held)
    /\ user.at \in {"create", "link"} => NoResult(user.held)

\* A row with another status, and what a scan makes of a row.
LEMMA StatusSet ==
    ASSUME NEW r \in Scan, NEW s \in ScanStatus
    PROVE  [r EXCEPT !.status = s] \in Scan /\ [r EXCEPT !.status = s].status = s
BY DEF Scan

LEMMA ScanJudged ==
    ASSUME NEW r \in Scan, NEW c \in Confidence
    PROVE  /\ Judged(r, c) \in Scan
           /\ Judged(r, c).status = "completed" => Judged(r, c).confidence = "high"
           /\ Judged(r, c).status = "needs_review" =>
                Judged(r, c).confidence = "low" /\ Judged(r, c).review
BY DEF Judged, Scan, ScanStatus, Confidence

LEMMA OcrInitInv == OcrInit => ResultInv
<1> SUFFICES ASSUME OcrInit PROVE ResultInv
  OBVIOUS
<1>1. NewScan \in Scan /\ NewScan.status = "pending"
  BY DEF NewScan, Scan, ScanStatus
<1>2. OcrTypeOK
  BY <1>1, OcrConstants DEF OcrInit, OcrTypeOK, NoJob
<1> QED
  BY <1>1, <1>2, OcrConstants DEF OcrInit, ResultInv, ResultsMatchStatus, NoResult, QueueFits,
     NoJob

LEMMA OcrFacts ==
    ASSUME ResultInv
    PROVE  /\ scan \in Scan /\ user \in UserStates /\ runner \in [QueueJobs -> RunnerStates]
           /\ ocrQueue \in [QueueJobs -> JobStates]
           /\ NewScan \in Scan /\ NoResult(NewScan)
BY DEF ResultInv, OcrTypeOK, NewScan, Scan, ScanStatus, NoResult, UserStates, RunnerStates,
   JobStates

\* One job of the queue, or none, changes to a fitting state.
LEMMA JobMoves ==
    ASSUME ResultInv, NEW j \in QueueJobs, NEW q \in JobStates,
           q.state = "none" => q.attempts = 0,
           q.state = "waiting" => q.attempts < Attempts,
           ocrQueue' = ocrQueue \/ ocrQueue' = [ocrQueue EXCEPT ![j] = q]
    PROVE  ocrQueue' \in [QueueJobs -> JobStates] /\ \A i \in QueueJobs : QueueFits(i)'
<1>1. ocrQueue \in [QueueJobs -> JobStates] /\ \A i \in QueueJobs : QueueFits(i)
  BY OcrFacts DEF ResultInv
<1> QED
  BY <1>1 DEF QueueFits

\* A job that ran goes back to the queue while it has attempts.
LEMMA JobReturns ==
    ASSUME ResultInv, NEW j \in QueueJobs, ocrQueue' = Retried(j)
    PROVE  ocrQueue' \in [QueueJobs -> JobStates] /\ \A i \in QueueJobs : QueueFits(i)'
<1> DEFINE q == [ocrQueue[j] EXCEPT !.state = IF ocrQueue[j].attempts < Attempts
                                               THEN "waiting" ELSE "done"]
<1>1. ocrQueue \in [QueueJobs -> JobStates] /\ ocrQueue[j] \in JobStates
  BY OcrFacts
<1>2. /\ q \in JobStates /\ q.attempts = ocrQueue[j].attempts
      /\ q.state \in {"waiting", "done"} /\ (q.state = "waiting" => q.attempts < Attempts)
  BY <1>1 DEF JobStates
<1>3. ocrQueue' = [ocrQueue EXCEPT ![j] = q]
  BY DEF Retried
<1> HIDE DEF q
<1> QED
  BY <1>2, <1>3, JobMoves

\* What one run does to the row and to what it holds.
LEMMA RunnerStep ==
    ASSUME ResultInv, NEW j \in QueueJobs, NEW t \in RunnerStates,
           runner' = [runner EXCEPT ![j] = t], NoResult(t.held),
           ocrQueue' \in [QueueJobs -> JobStates], \A i \in QueueJobs : QueueFits(i)',
           scan' \in Scan, user' = user,
           \/ scan' = scan
           \/ NoResult(scan')
           \/ \E c \in Confidence : scan' = Judged(runner[j].held, c)
    PROVE  ResultInv'
<1>1. /\ runner \in [QueueJobs -> RunnerStates] /\ user \in UserStates
      /\ runner[j].held \in Scan
  BY OcrFacts DEF RunnerStates
<1>2. /\ runner' \in [QueueJobs -> RunnerStates]
      /\ \A i \in QueueJobs : NoResult(runner'[i].held)
  BY <1>1 DEF ResultInv
<1>3. ResultsMatchStatus'
  <2>1. CASE scan' = scan
    BY <2>1 DEF ResultInv, ResultsMatchStatus
  <2>2. CASE NoResult(scan')
    BY <2>2 DEF ResultsMatchStatus, NoResult
  <2>3. CASE \E c \in Confidence : scan' = Judged(runner[j].held, c)
    <3>1. PICK c \in Confidence : scan' = Judged(runner[j].held, c)
      BY <2>3
    <3> QED
      BY <1>1, <3>1, ScanJudged DEF ResultsMatchStatus
  <2> QED
    BY <2>1, <2>2, <2>3
<1>4. OcrTypeOK'
  BY <1>1, <1>2 DEF OcrTypeOK, RunnerStates, UserStates, JobStates
<1> QED
  BY <1>2, <1>3, <1>4 DEF ResultInv

LEMMA RunsStep ==
    ASSUME ResultInv, NEW j \in QueueJobs,
           \/ processOcrJob(j) \/ SaveStep(j) \/ RunFails(j) \/ SaveFailure(j) \/ CrashRun(j)
           \/ \E c \in Confidence : SaveResult(j, c)
    PROVE  ResultInv'
<1>1. /\ scan \in Scan /\ user \in UserStates /\ runner \in [QueueJobs -> RunnerStates]
      /\ ocrQueue \in [QueueJobs -> JobStates] /\ ocrQueue[j] \in JobStates /\ QueueFits(j)
      /\ NewScan \in Scan /\ NoResult(NewScan) /\ NoResult(runner[j].held)
      /\ runner[j] \in RunnerStates /\ runner[j].held \in Scan
  BY OcrFacts DEF ResultInv, RunnerStates
<1> DEFINE free == [at |-> "idle", held |-> NewScan]
<1>2. free \in RunnerStates /\ NoResult(free.held)
  BY <1>1 DEF RunnerStates
<1>3. CASE processOcrJob(j)
  <2> DEFINE r == [scan EXCEPT !.status = "processing", !.linked = TRUE]
             t == [at |-> "started", held |-> r]
             q == [state |-> "active", attempts |-> ocrQueue[j].attempts + 1]
  <2>1. r \in Scan /\ r.status = "processing"
    BY <1>1 DEF Scan, ScanStatus
  <2>2. /\ runner' = [runner EXCEPT ![j] = t] /\ scan' = scan /\ user' = user
        /\ ocrQueue[j].state = "waiting" /\ ocrQueue' = [ocrQueue EXCEPT ![j] = q]
    BY <1>3 DEF processOcrJob
  <2>3. q \in JobStates /\ q.state = "active"
    BY <1>1, <2>2, OcrConstants DEF JobStates, QueueFits
  <2> HIDE DEF r, q
  <2>4. t \in RunnerStates /\ NoResult(t.held)
    BY <2>1 DEF RunnerStates, NoResult
  <2> HIDE DEF t
  <2>5. ocrQueue' \in [QueueJobs -> JobStates] /\ \A i \in QueueJobs : QueueFits(i)'
    BY <2>2, <2>3, JobMoves
  <2> QED
    BY <1>1, <2>2, <2>4, <2>5, RunnerStep
<1>4. CASE SaveStep(j)
  <2> DEFINE place == CASE runner[j].at = "started" -> "fetched" [] runner[j].at = "fetched" -> "ready"
                        [] runner[j].at = "ready" -> "scanned"
             t == [runner[j] EXCEPT !.at = place]
  <2>1. /\ scan' = runner[j].held /\ user' = user /\ ocrQueue' = ocrQueue
        /\ runner[j].at \in {"started", "fetched", "ready"} /\ runner' = [runner EXCEPT ![j] = t]
    BY <1>4 DEF SaveStep
  <2>2. place \in {"fetched", "ready", "scanned"}
    BY <2>1
  <2> HIDE DEF place
  <2>3. t \in RunnerStates /\ t.held = runner[j].held
    BY <1>1, <2>2 DEF RunnerStates
  <2> HIDE DEF t
  <2>4. ocrQueue' \in [QueueJobs -> JobStates] /\ \A i \in QueueJobs : QueueFits(i)'
    BY <1>1, <2>1 DEF ResultInv, QueueFits
  <2>5. NoResult(t.held) /\ NoResult(scan')
    BY <1>1, <2>1, <2>3
  <2> QED
    BY <1>1, <2>1, <2>3, <2>4, <2>5, RunnerStep
<1>5. CASE RunFails(j)
  <2> DEFINE r == [scan EXCEPT !.status = "failed"]
             t == [at |-> "failed", held |-> r]
  <2>1. r \in Scan /\ r.status = "failed"
    BY <1>1 DEF Scan, ScanStatus
  <2>2. /\ runner' = [runner EXCEPT ![j] = t] /\ scan' = scan /\ user' = user /\ ocrQueue' = ocrQueue
    BY <1>5 DEF RunFails
  <2> HIDE DEF r
  <2>3. t \in RunnerStates /\ NoResult(t.held)
    BY <2>1 DEF RunnerStates, NoResult
  <2> HIDE DEF t
  <2>4. ocrQueue' \in [QueueJobs -> JobStates] /\ \A i \in QueueJobs : QueueFits(i)'
    BY <1>1, <2>2 DEF ResultInv, QueueFits
  <2> QED
    BY <1>1, <2>2, <2>3, <2>4, RunnerStep
<1>6. CASE SaveFailure(j) \/ CrashRun(j)
  <2>1. /\ runner' = [runner EXCEPT ![j] = free] /\ user' = user /\ ocrQueue' = Retried(j)
        /\ scan' = scan \/ scan' = runner[j].held
    BY <1>6 DEF SaveFailure, CrashRun
  <2> HIDE DEF free
  <2>2. ocrQueue' \in [QueueJobs -> JobStates] /\ \A i \in QueueJobs : QueueFits(i)'
    BY <2>1, JobReturns
  <2>3. scan' \in Scan /\ (scan' = scan \/ NoResult(scan'))
    BY <1>1, <2>1
  <2> QED
    BY <1>2, <2>1, <2>2, <2>3, RunnerStep
<1>7. CASE \E c \in Confidence : SaveResult(j, c)
  <2>1. PICK c \in Confidence : SaveResult(j, c)
    BY <1>7
  <2> DEFINE q == [ocrQueue[j] EXCEPT !.state = "done"]
  <2>2. /\ runner' = [runner EXCEPT ![j] = free] /\ user' = user
        /\ scan' = Judged(runner[j].held, c) /\ ocrQueue' = [ocrQueue EXCEPT ![j] = q]
    BY <2>1 DEF SaveResult
  <2>3. q \in JobStates /\ q.state = "done"
    BY <1>1 DEF JobStates
  <2> HIDE DEF q, free
  <2>4. ocrQueue' \in [QueueJobs -> JobStates] /\ \A i \in QueueJobs : QueueFits(i)'
    BY <2>2, <2>3, JobMoves
  <2>5. scan' \in Scan
    BY <1>1, <2>2, ScanJudged
  <2> QED
    BY <1>2, <2>2, <2>4, <2>5, RunnerStep
<1> QED
  BY <1>3, <1>4, <1>5, <1>6, <1>7

\* What the user's calls do to the row and to what the call holds.
LEMMA UserStep ==
    ASSUME ResultInv, NEW t \in UserStates, user' = t,
           t.at \in {"create", "link"} => NoResult(t.held),
           scan' \in Scan, scan' = scan \/ NoResult(scan'),
           ocrQueue' \in [QueueJobs -> JobStates], \A i \in QueueJobs : QueueFits(i)',
           runner' = runner
    PROVE  ResultInv'
<1>1. ResultsMatchStatus'
  BY DEF ResultInv, ResultsMatchStatus, NoResult
<1>2. OcrTypeOK'
  BY DEF ResultInv, OcrTypeOK, RunnerStates, UserStates, JobStates
<1> QED
  BY <1>1, <1>2 DEF ResultInv

LEMMA CallsStep ==
    ASSUME ResultInv,
           \/ createJob \/ LinkJob \/ cancelJob \/ RemoveQueueJob \/ SaveCancelled
           \/ retryJob \/ processJobManually \/ SaveRetried \/ QueueJobAgain
    PROVE  ResultInv'
<1>1. /\ scan \in Scan /\ user \in UserStates /\ ocrQueue \in [QueueJobs -> JobStates]
      /\ NewScan \in Scan /\ NoResult(NewScan) /\ user.held \in Scan
      /\ \A i \in QueueJobs : QueueFits(i)
      /\ user.at \in {"create", "link"} => NoResult(user.held)
  BY OcrFacts DEF ResultInv, UserStates
<1>2. ocrQueue' = ocrQueue => ocrQueue' \in [QueueJobs -> JobStates] /\ \A i \in QueueJobs : QueueFits(i)'
  BY <1>1 DEF QueueFits
<1>3. \A place \in {"idle", "link", "drop"} :
        /\ [user EXCEPT !.at = place] \in UserStates /\ [user EXCEPT !.at = place].at = place
        /\ [user EXCEPT !.at = place].held = user.held
  BY <1>1 DEF UserStates
<1>4. CASE createJob \/ QueueJobAgain
  <2>1. PICK place \in {"idle", "link"} :
          AddJob(place) /\ (place = "link" => user.at = "create")
    BY <1>4 DEF createJob, QueueJobAgain
  <2>2. PICK j \in QueueJobs :
          /\ ocrQueue[j].state = "none"
          /\ ocrQueue' = [ocrQueue EXCEPT ![j].state = "waiting"]
          /\ user' = [user EXCEPT !.at = place] /\ scan' = scan /\ runner' = runner
    BY <2>1 DEF AddJob
  <2> DEFINE q == [ocrQueue[j] EXCEPT !.state = "waiting"]
  <2>3. q \in JobStates /\ q.state = "waiting" /\ q.attempts = 0 /\ 0 < Attempts
    BY <1>1, <2>2, OcrConstants DEF JobStates, QueueFits
  <2>4. ocrQueue' = [ocrQueue EXCEPT ![j] = q]
    BY <2>2
  <2> HIDE DEF q
  <2>5. ocrQueue' \in [QueueJobs -> JobStates] /\ \A i \in QueueJobs : QueueFits(i)'
    BY <2>3, <2>4, JobMoves
  <2>6. user' \in UserStates /\ (user'.at \in {"create", "link"} => NoResult(user'.held))
    BY <1>1, <1>3, <2>1, <2>2
  <2> QED
    BY <1>1, <2>2, <2>5, <2>6, UserStep
<1>5. CASE LinkJob
  <2> DEFINE r == [user.held EXCEPT !.linked = TRUE, !.confidence = scan.confidence]
  <2>1. /\ user.at = "link" /\ scan' = r /\ user' = [user EXCEPT !.at = "idle"]
        /\ ocrQueue' = ocrQueue /\ runner' = runner
    BY <1>5 DEF LinkJob
  <2>2. scan.confidence \in Confidence \cup {Unscanned}
    BY <1>1 DEF Scan
  <2>3. r \in Scan /\ r.status = user.held.status
    BY <1>1, <2>2 DEF Scan
  <2> HIDE DEF r
  <2>4. NoResult(scan')
    BY <1>1, <2>1, <2>3 DEF NoResult
  <2>5. user' \in UserStates /\ user'.at = "idle"
    BY <1>3, <2>1
  <2> QED
    BY <1>2, <2>1, <2>3, <2>4, <2>5, UserStep
<1>6. CASE cancelJob \/ retryJob \/ processJobManually
  <2>1. PICK place \in {"cancel", "drop", "retry", "manual"} :
          /\ user' = [at |-> place, held |-> scan] /\ scan' = scan /\ ocrQueue' = ocrQueue
          /\ runner' = runner
    BY <1>6 DEF cancelJob, retryJob, processJobManually, Open
  <2>2. user' \in UserStates /\ user'.at = place
    BY <1>1, <2>1 DEF UserStates
  <2> QED
    BY <1>1, <1>2, <2>1, <2>2, UserStep
<1>7. CASE RemoveQueueJob
  <2>1. /\ user' = [user EXCEPT !.at = "drop"] /\ scan' = scan /\ runner' = runner
        /\ \/ ocrQueue' = ocrQueue
           \/ \E j \in QueueJobs : ocrQueue' = [ocrQueue EXCEPT ![j].state = "done"]
    BY <1>7 DEF RemoveQueueJob
  <2>2. ocrQueue' \in [QueueJobs -> JobStates] /\ \A i \in QueueJobs : QueueFits(i)'
    <3>1. CASE \E j \in QueueJobs : ocrQueue' = [ocrQueue EXCEPT ![j].state = "done"]
      <4>1. PICK j \in QueueJobs : ocrQueue' = [ocrQueue EXCEPT ![j].state = "done"]
        BY <3>1
      <4> DEFINE q == [ocrQueue[j] EXCEPT !.state = "done"]
      <4>2. q \in JobStates /\ q.state = "done" /\ ocrQueue' = [ocrQueue EXCEPT ![j] = q]
        BY <1>1, <4>1 DEF JobStates
      <4> HIDE DEF q
      <4> QED
        BY <4>2, JobMoves
    <3> QED
      BY <1>2, <2>1, <3>1
  <2>3. user' \in UserStates /\ user'.at = "drop"
    BY <1>3, <2>1
  <2> QED
    BY <1>1, <2>1, <2>2, <2>3, UserStep
<1>8. CASE SaveCancelled \/ SaveRetried
  <2>1. PICK s \in {"failed", "pending", "processing"}, place \in {"idle", "again"} :
          /\ scan' = [user.held EXCEPT !.status = s]
          /\ user' = [at |-> place, held |-> NewScan] /\ ocrQueue' = ocrQueue /\ runner' = runner
    BY <1>8 DEF SaveCancelled, SaveRetried
  <2>2. scan' \in Scan /\ NoResult(scan')
    BY <1>1, <2>1, StatusSet DEF ScanStatus, NoResult
  <2>3. user' \in UserStates /\ user'.at = place
    BY <1>1, <2>1 DEF UserStates
  <2> QED
    BY <1>2, <2>1, <2>2, <2>3, UserStep
<1> QED
  BY <1>4, <1>5, <1>6, <1>7, <1>8

LEMMA OcrStepInv == ResultInv /\ [OcrNext]_ocrVars => ResultInv'
<1> SUFFICES ASSUME ResultInv, [OcrNext]_ocrVars PROVE ResultInv'
  OBVIOUS
<1>1. CASE UNCHANGED ocrVars
  BY <1>1 DEF ocrVars, ResultInv, OcrTypeOK, ResultsMatchStatus, QueueFits
<1>2. CASE OcrNext
  BY <1>2, RunsStep, CallsStep DEF OcrNext
<1> QED
  BY <1>1, <1>2

\* ResultsMatchStatus for any number of jobs of a row, calls and crashes.
THEOREM ResultsShown == OcrSpec => []ResultsMatchStatus
<1>1. ResultInv => ResultsMatchStatus
  BY DEF ResultInv
<1> QED
  BY <1>1, OcrInitInv, OcrStepInv, PTL DEF OcrSpec

-----------------------------------------------------------------------------
(* Recurring splits *)

GeneratorStates ==
    [at : {"idle", "load", "deactivate", "split", "copy", "advance"}, read : Row \cup {Gone}]
OwnerStates == [at : {"idle", "pause", "resume", "update", "delete"}, read : Row \cup {Gone}]

\* The occurrence of a row starts a series, or the one before it is complete.
Reached(r, starts, done) ==
    r.next \in starts \/ \E k \in done : r.next = calculateNextOccurrence(k)

\* Every copy of the row was the row once; who is about to advance it has completed its
\* occurrence.
OccurrenceInv ==
    /\ row \in Row \cup {Gone} /\ day \in Nat
    /\ generator \in [Generators -> GeneratorStates] /\ owner \in OwnerStates
    /\ row # Gone => Reached(row, anchors, complete)
    /\ owner.read # Gone => Reached(owner.read, anchors, complete)
    /\ owner.at # "idle" => owner.read # Gone
    /\ \A g \in Generators :
         /\ generator[g].read # Gone => Reached(generator[g].read, anchors, complete)
         /\ generator[g].at \notin {"idle", "load"} => generator[g].read # Gone
         /\ generator[g].at = "advance" => generator[g].read.next \in complete

LEMMA OccurrenceInitInv == RecurringInit => OccurrenceInv
<1> SUFFICES ASSUME RecurringInit PROVE OccurrenceInv
  OBVIOUS
<1>1. row \in [next : {Period}, active : {TRUE}, ends : {Never, 2}] /\ Period \in Nat
  BY RecurringConstants DEF RecurringInit
<1>2. row \in Row /\ row.next = Period
  <2>1. PICK e \in {Never, 2} : row = [next |-> Period, active |-> TRUE, ends |-> e]
    BY <1>1
  <2> QED
    BY <1>1, <2>1 DEF Row
<1>3. [at |-> "idle", read |-> Gone] \in GeneratorStates /\ [at |-> "idle", read |-> Gone] \in OwnerStates
  BY DEF GeneratorStates, OwnerStates
<1>4. Reached(row, anchors, complete)
  BY <1>2 DEF RecurringInit, Reached
<1> QED
  BY <1>2, <1>3, <1>4 DEF RecurringInit, OccurrenceInv

\* Every step keeps what the histories say, and adds to one row at a time: the saved row,
\* the owner's copy or the copy of one generation.
LEMMA CopiesKept ==
    ASSUME OccurrenceInv, anchors \subseteq anchors', complete \subseteq complete', day' \in Nat,
           row' = row \/ row' = Gone \/ (row' \in Row /\ Reached(row', anchors', complete')),
           \/ owner' = owner
           \/ /\ owner' \in OwnerStates /\ (owner'.at # "idle" => owner'.read # Gone)
              /\ owner'.read = Gone \/ owner'.read = row,
           NEW g \in Generators, NEW t \in GeneratorStates,
           generator' = generator \/ generator' = [generator EXCEPT ![g] = t],
           t.at \notin {"idle", "load"} => t.read # Gone,
           t.at = "advance" => t.read.next \in complete',
           t.read = Gone \/ t.read = row \/ t.read = generator[g].read
    PROVE  OccurrenceInv'
<1>1. \A r : Reached(r, anchors, complete) => Reached(r, anchors', complete')
  BY DEF Reached
<1>2. row' \in Row \cup {Gone} /\ (row' # Gone => Reached(row', anchors', complete'))
  BY <1>1 DEF OccurrenceInv, Reached
<1>3. owner' \in OwnerStates /\ (owner'.at # "idle" => owner'.read # Gone)
      /\ (owner'.read # Gone => Reached(owner'.read, anchors', complete'))
  BY <1>1 DEF OccurrenceInv, Reached
<1>4. generator' \in [Generators -> GeneratorStates]
  BY DEF OccurrenceInv
<1>5. ASSUME NEW h \in Generators
      PROVE  /\ generator'[h].read # Gone => Reached(generator'[h].read, anchors', complete')
             /\ generator'[h].at \notin {"idle", "load"} => generator'[h].read # Gone
             /\ generator'[h].at = "advance" => generator'[h].read.next \in complete'
  <2>1. CASE generator'[h] = generator[h]
    BY <1>1, <2>1 DEF OccurrenceInv, Reached
  <2>2. CASE generator'[h] = t /\ h = g
    BY <1>1, <2>2 DEF OccurrenceInv, Reached
  <2> QED
    BY <2>1, <2>2 DEF OccurrenceInv
<1> QED
  BY <1>2, <1>3, <1>4, <1>5 DEF OccurrenceInv

\* A generation goes on from a place to another with the copy it has.
LEMMA StepOn ==
    ASSUME OccurrenceInv, NEW g \in Generators,
           NEW place \in {"load", "copy", "advance"}
    PROVE  LET t == [generator[g] EXCEPT !.at = place]
           IN  t \in GeneratorStates /\ t.at = place /\ t.read = generator[g].read
BY DEF OccurrenceInv, GeneratorStates

LEMMA GenerateStep ==
    ASSUME OccurrenceInv, NEW g \in Generators,
           \/ (g = Cron /\ processRecurringSplits) \/ manuallyProcessRecurringSplit(g)
           \/ Generate(g) \/ GenerationFails(g)
    PROVE  OccurrenceInv'
<1>1. /\ generator \in [Generators -> GeneratorStates] /\ generator[g] \in GeneratorStates
      /\ row \in Row \cup {Gone} /\ day \in Nat /\ (row # Gone => Reached(row, anchors, complete))
      /\ generator[g].read \in Row \cup {Gone}
      /\ generator[g].read # Gone => Reached(generator[g].read, anchors, complete)
      /\ generator[g].at \notin {"idle", "load"} => generator[g].read # Gone
      /\ generator[g].at = "advance" => generator[g].read.next \in complete
  BY DEF OccurrenceInv, GeneratorStates
<1> DEFINE free == [at |-> "idle", read |-> Gone]
<1>2. free \in GeneratorStates /\ free.at = "idle" /\ free.read = Gone
  BY DEF GeneratorStates
<1>3. CASE (g = Cron /\ processRecurringSplits) \/ manuallyProcessRecurringSplit(g)
  <2> DEFINE t == [generator[g] EXCEPT !.at = "load"]
  <2>1. t \in GeneratorStates /\ t.at = "load" /\ t.read = generator[g].read
    BY StepOn
  <2>2. generator' = [generator EXCEPT ![g] = t]
        /\ row' = row /\ owner' = owner /\ day' = day /\ complete' = complete /\ anchors' = anchors
    BY <1>3 DEF processRecurringSplits, manuallyProcessRecurringSplit, Step
  <2> HIDE DEF t
  <2> QED
    BY <1>1, <2>1, <2>2, CopiesKept
<1>4. CASE generateSplitFromTemplate(g)
  <2> DEFINE t == [at |-> IF Ended(row) THEN "deactivate" ELSE "split", read |-> row]
  <2>1. t \in GeneratorStates /\ t.at # "advance" /\ t.read = row
    BY <1>1 DEF GeneratorStates
  <2>2. /\ row' = row /\ owner' = owner /\ day' = day /\ complete' = complete /\ anchors' = anchors
        /\ \/ generator' = [generator EXCEPT ![g] = free]
           \/ row # Gone /\ generator' = [generator EXCEPT ![g] = t]
    BY <1>4 DEF generateSplitFromTemplate, Stop
  <2> HIDE DEF t, free
  <2>3. CASE generator' = [generator EXCEPT ![g] = free]
    BY <1>1, <1>2, <2>2, <2>3, CopiesKept
  <2>4. CASE row # Gone /\ generator' = [generator EXCEPT ![g] = t]
    BY <1>1, <2>1, <2>2, <2>4, CopiesKept
  <2> QED
    BY <2>2, <2>3, <2>4
<1>5. CASE Deactivate(g)
  <2> DEFINE r == [generator[g].read EXCEPT !.active = FALSE]
  <2>1. /\ row' = r /\ generator' = [generator EXCEPT ![g] = free] /\ generator[g].at = "deactivate"
        /\ owner' = owner /\ day' = day /\ complete' = complete /\ anchors' = anchors
    BY <1>5 DEF Deactivate, Stop
  <2>2. r \in Row /\ r.next = generator[g].read.next
    BY <1>1, <2>1 DEF Row
  <2> HIDE DEF r, free
  <2>3. row' \in Row /\ Reached(row', anchors', complete')
    BY <1>1, <2>1, <2>2 DEF Reached
  <2> QED
    BY <1>1, <1>2, <2>1, <2>3, CopiesKept
<1>6. CASE SaveSplit(g)
  <2> DEFINE t == [generator[g] EXCEPT !.at = "copy"]
  <2>1. t \in GeneratorStates /\ t.at = "copy" /\ t.read = generator[g].read
    BY StepOn
  <2>2. generator' = [generator EXCEPT ![g] = t] /\ generator[g].at = "split"
        /\ row' = row /\ owner' = owner /\ day' = day /\ complete' = complete /\ anchors' = anchors
    BY <1>6 DEF SaveSplit, Step, AfterSplit
  <2> HIDE DEF t
  <2> QED
    BY <1>1, <2>1, <2>2, CopiesKept
<1>7. CASE SaveParticipants(g)
  <2> DEFINE t == [generator[g] EXCEPT !.at = "advance"]
  <2>1. t \in GeneratorStates /\ t.at = "advance" /\ t.read = generator[g].read
    BY StepOn
  <2>2. /\ generator' = [generator EXCEPT ![g] = t] /\ generator[g].at = "copy"
        /\ complete' = complete \cup {generator[g].read.next}
        /\ row' = row /\ owner' = owner /\ day' = day /\ anchors' = anchors
    BY <1>7 DEF SaveParticipants, Step
  <2> HIDE DEF t
  <2>3. t.read.next \in complete' /\ complete \subseteq complete'
    BY <2>1, <2>2
  <2> QED
    BY <1>1, <2>1, <2>2, <2>3, CopiesKept
<1>8. CASE SaveNextOccurrence(g)
  <2> DEFINE n == calculateNextOccurrence(generator[g].read.next)
             r == [generator[g].read EXCEPT !.next = n]
  <2>1. /\ row' = r /\ generator' = [generator EXCEPT ![g] = free] /\ generator[g].at = "advance"
        /\ owner' = owner /\ day' = day /\ complete' = complete /\ anchors' = anchors
    BY <1>8 DEF SaveNextOccurrence, Stop
  <2>2. generator[g].read \in Row /\ n \in Nat
    BY <1>1, <2>1, RecurringConstants DEF Row, calculateNextOccurrence
  <2>3. generator[g].read.next \in complete'
    BY <1>1, <2>1
  <2>4. \E k \in complete' : n = calculateNextOccurrence(k)
    BY <2>3
  <2> HIDE DEF n
  <2>5. r \in Row /\ r.next = n
    BY <2>2 DEF Row
  <2> HIDE DEF r, free
  <2>6. row' \in Row /\ Reached(row', anchors', complete')
    BY <2>1, <2>4, <2>5 DEF Reached
  <2> QED
    BY <1>1, <1>2, <2>1, <2>6, CopiesKept
<1>9. CASE GenerationFails(g)
  <2>1. /\ generator' = [generator EXCEPT ![g] = free]
        /\ row' = row /\ owner' = owner /\ day' = day /\ complete' = complete /\ anchors' = anchors
    BY <1>9 DEF GenerationFails, Stop
  <2> HIDE DEF free
  <2> QED
    BY <1>1, <1>2, <2>1, CopiesKept
<1> QED
  BY <1>3, <1>4, <1>5, <1>6, <1>7, <1>8, <1>9 DEF Generate

LEMMA RecurringOwnerStep ==
    ASSUME OccurrenceInv,
           \/ \E call \in {"pause", "resume", "update", "delete"} : CallOwner(call)
           \/ FinishCall \/ NextDay
    PROVE  OccurrenceInv'
<1>1. /\ row \in Row \cup {Gone} /\ day \in Nat /\ owner \in OwnerStates
      /\ owner.read \in Row \cup {Gone} /\ (owner.read # Gone => Reached(owner.read, anchors, complete))
      /\ (owner.at # "idle" => owner.read # Gone) /\ Period \in Nat /\ Never \notin Nat
      /\ generator \in [Generators -> GeneratorStates] /\ Cron \in Generators
  BY RecurringConstants DEF OccurrenceInv, OwnerStates
<1>2. /\ generator[Cron] \in GeneratorStates
      /\ generator[Cron].at \notin {"idle", "load"} => generator[Cron].read # Gone
      /\ generator[Cron].at = "advance" => generator[Cron].read.next \in complete
  BY <1>1 DEF OccurrenceInv
<1>3. generator' = generator /\ complete' = complete
  BY DEF CallOwner, FinishCall, NextDay
<1>4. CASE NextDay
  BY <1>1, <1>2, <1>3, <1>4, CopiesKept DEF NextDay
<1>5. CASE \E call \in {"pause", "resume", "update", "delete"} : CallOwner(call)
  <2>1. PICK call \in {"pause", "resume", "update", "delete"} : CallOwner(call)
    BY <1>5
  <2>2. /\ row # Gone /\ owner' = [at |-> call, read |-> row]
        /\ row' = row /\ day' = day /\ anchors' = anchors
    BY <2>1 DEF CallOwner
  <2>3. owner' \in OwnerStates /\ owner'.read = row
    BY <1>1, <2>2 DEF OwnerStates
  <2> QED
    BY <1>1, <1>2, <1>3, <2>2, <2>3, CopiesKept
<1>6. CASE FinishCall
  <2>1. /\ owner' = [at |-> "idle", read |-> Gone] /\ day' = day
    BY <1>6 DEF FinishCall
  <2>2. owner' \in OwnerStates /\ owner'.at = "idle" /\ owner'.read = Gone
    BY <2>1 DEF OwnerStates
  <2>3. anchors \subseteq anchors' /\ (row' = Gone \/ (row' \in Row /\ Reached(row', anchors', complete')))
    <3>1. CASE pauseRecurringSplit
      <4>1. /\ row' = [owner.read EXCEPT !.active = FALSE] /\ anchors' = anchors /\ owner.read \in Row
            /\ Reached(owner.read, anchors, complete)
        BY <1>1, <3>1 DEF pauseRecurringSplit
      <4>2. row' \in Row /\ row'.next = owner.read.next
        BY <4>1 DEF Row
      <4> QED
        BY <1>3, <4>1, <4>2 DEF Reached
    <3>2. CASE resumeRecurringSplit
      <4> DEFINE n == calculateNextOccurrence(day)
                 r == [owner.read EXCEPT !.active = TRUE, !.next = n]
      <4>1. row' = r /\ anchors' = anchors \cup {row'.next} /\ owner.read \in Row
        BY <1>1, <3>2 DEF resumeRecurringSplit
      <4>2. n \in Nat
        BY <1>1 DEF calculateNextOccurrence
      <4> HIDE DEF n
      <4>3. r \in Row
        BY <4>1, <4>2 DEF Row
      <4> HIDE DEF r
      <4> QED
        BY <4>1, <4>3 DEF Reached
    <3>3. CASE updateRecurringSplit
      <4>1. /\ anchors' = anchors /\ owner.read \in Row /\ Reached(owner.read, anchors, complete)
            /\ row' = owner.read \/ \E d \in Nat : row' = [owner.read EXCEPT !.ends = d]
        BY <1>1, <3>3 DEF updateRecurringSplit
      <4>2. row' \in Row /\ row'.next = owner.read.next
        BY <4>1 DEF Row
      <4> QED
        BY <1>3, <4>1, <4>2 DEF Reached
    <3>4. CASE deleteRecurringSplit
      BY <3>4 DEF deleteRecurringSplit
    <3> QED
      BY <1>6, <3>1, <3>2, <3>3, <3>4 DEF FinishCall
  <2> QED
    BY <1>1, <1>2, <1>3, <2>1, <2>2, <2>3, CopiesKept
<1> QED
  BY <1>4, <1>5, <1>6

LEMMA OccurrenceStepInv == OccurrenceInv /\ [RecurringNext]_recurringVars => OccurrenceInv'
<1> SUFFICES ASSUME OccurrenceInv, [RecurringNext]_recurringVars PROVE OccurrenceInv'
  OBVIOUS
<1>1. CASE UNCHANGED recurringVars
  BY <1>1 DEF recurringVars, OccurrenceInv, Reached
<1>2. CASE RecurringNext
  BY <1>2, GenerateStep, RecurringOwnerStep, RecurringConstants DEF RecurringNext
<1> QED
  BY <1>1, <1>2

\* NoOccurrenceSkipped for any period, any number of overlapping generations, calls and
\* failures.
THEOREM OccurrencesFollow == RecurringSpec => []NoOccurrenceSkipped
<1>1. OccurrenceInv => NoOccurrenceSkipped
  BY DEF OccurrenceInv, Reached, NoOccurrenceSkipped
<1> QED
  BY <1>1, OccurrenceInitInv, OccurrenceStepInv, PTL DEF RecurringSpec

-----------------------------------------------------------------------------
(* Webhooks *)

DeliveryRows == [status : {"none", "pending", "success", "failed"}, attempts : Nat]
QueueStates  == [state : {"none", "waiting", "active"}, attempts : 0..MAX_RETRIES]
SenderStates ==
    [at : {"idle", "count", "post", "record", "load", "stats", "failed", "reload", "blame"},
     answer : {"none", "2xx", "4xx", "5xx", "error"}, hook : Hook, attempts : Nat]
PostCounts == [sent : Nat, accepted : Nat]

\* A sender that may yet add one to the failure count, for a failure already blamed.
OwesFailure(s) ==
    \/ s.at \in {"record", "load", "stats"} /\ s.answer = "5xx"
    \/ s.at \in {"failed", "reload", "blame"} /\ s.attempts >= MAX_RETRIES
Owing == {d \in Deliveries : OwesFailure(sender[d])}

\* A copy of the webhook's row counts failures that are blamed and not owed, and is
\* inactive only if the owner or enough failures made it so.
FairCopy(h, owed, blamed, byOwner) ==
    /\ h.failures + owed <= blamed
    /\ h.active \/ byOwner \/ blamed >= Threshold

\* What may still be sent: not once the receiver has accepted and nothing went wrong.
MayPost(s, q) == q.state # "none" /\ ~(s.at \in {"record", "load", "stats"} /\ s.answer = "2xx")

\* A delivery, its sender, its job and what the receiver got.
DeliveryFits(x, s, q, p, e) ==
    /\ x.status = "none" => q.state = "none" /\ q.attempts = 0 /\ p.sent = 0 /\ p.accepted = 0
    /\ s.at # "idle" <=> q.state = "active"
    /\ q.state = "active" => q.attempts >= 1
    /\ q.state = "waiting" => q.attempts < MAX_RETRIES
    /\ s.at \in {"record", "load"} => s.answer \in {"2xx", "4xx", "5xx"}
    /\ s.at = "stats" => s.answer \in {"2xx", "5xx"}
    /\ s.at = "blame" => s.attempts >= MAX_RETRIES
    /\ s.at \in {"record", "load", "stats"} /\ s.answer = "2xx" => p.accepted > 0
    /\ x.status = "success" => p.accepted > 0
    /\ p.sent <= q.attempts + e
    /\ s.at \in {"count", "post"} => p.sent + 1 <= q.attempts + e
    /\ p.accepted <= 1 + e
    /\ MayPost(s, q) => p.accepted <= e

\* Every copy of the webhook counts failures that happened, plus those still to be
\* recorded (Owing); every delivery's attempts explain its posts, up to the faults.
WebhookInv ==
    /\ WebhookTypeOK
    /\ posts \in [Deliveries -> PostCounts]
    /\ blame \in Nat /\ errors \in Nat /\ off \in BOOLEAN
    /\ IsFiniteSet(Owing)
    /\ FairCopy(webhook, Cardinality(Owing), blame, off)
    /\ FairCopy(change.hook, Cardinality(Owing), blame, off)
    /\ \A d \in Deliveries :
         /\ FairCopy(sender[d].hook, Cardinality(Owing), blame, off)
         /\ DeliveryFits(delivery[d], sender[d], queued[d], posts[d], errors)

LEMMA WebhookFacts ==
    ASSUME WebhookInv
    PROVE  /\ webhook \in Hook /\ change.hook \in Hook
           /\ delivery \in [Deliveries -> DeliveryRows]
           /\ queued \in [Deliveries -> QueueStates]
           /\ sender \in [Deliveries -> SenderStates]
           /\ posts \in [Deliveries -> PostCounts]
           /\ blame \in Nat /\ errors \in Nat /\ off \in BOOLEAN
           /\ IsFiniteSet(Owing) /\ Cardinality(Owing) \in Nat
           /\ MAX_RETRIES \in Nat \ {0} /\ Threshold \in Nat \ {0}
<1>1. Cardinality(Owing) \in Nat
  BY FS_CardinalityType DEF WebhookInv
<1> QED
  BY <1>1, WebhookConstants
     DEF WebhookInv, WebhookTypeOK, DeliveryRows, QueueStates, SenderStates

LEMMA WebhookInitInv == WebhookInit => WebhookInv
<1> SUFFICES ASSUME WebhookInit PROVE WebhookInv
  OBVIOUS
<1>1. Fresh \in Hook /\ Fresh.active /\ Fresh.failures = 0
  BY DEF Fresh, Hook
<1>2. /\ Waiting \in SenderStates /\ Waiting.at = "idle" /\ Waiting.hook = Fresh
      /\ Quiet.hook = Fresh /\ Quiet \in [at : {"idle", "save"}, hook : Hook, active : BOOLEAN]
  BY <1>1 DEF Waiting, SenderStates, Quiet
<1> DEFINE x == [status |-> "none", attempts |-> 0]
           q == [state |-> "none", attempts |-> 0]
           p == [sent |-> 0, accepted |-> 0]
<1>3. /\ x \in DeliveryRows /\ q \in QueueStates /\ p \in PostCounts
      /\ x.status = "none" /\ q.state = "none" /\ q.attempts = 0 /\ p.sent = 0 /\ p.accepted = 0
  BY WebhookConstants DEF DeliveryRows, QueueStates, PostCounts
<1>4. /\ webhook = Fresh /\ change = Quiet /\ sender = [d \in Deliveries |-> Waiting]
      /\ delivery = [d \in Deliveries |-> x] /\ queued = [d \in Deliveries |-> q]
      /\ posts = [d \in Deliveries |-> p] /\ blame = 0 /\ errors = 0 /\ off = FALSE
  BY DEF WebhookInit
<1> HIDE DEF x, q, p
<1>5. Owing = {}
  BY <1>2, <1>4 DEF Owing, OwesFailure
<1>6. IsFiniteSet(Owing) /\ Cardinality(Owing) = 0
  BY <1>5, FS_EmptySet
<1>7. WebhookTypeOK
  BY <1>1, <1>2, <1>3, <1>4 DEF WebhookTypeOK, DeliveryRows, QueueStates, SenderStates
<1>8. DeliveryFits(x, Waiting, q, p, 0)
  BY <1>2, <1>3 DEF DeliveryFits, MayPost
<1>9. FairCopy(Fresh, 0, 0, FALSE)
  BY <1>1 DEF FairCopy
<1> QED
  BY <1>1, <1>2, <1>3, <1>4, <1>6, <1>7, <1>8, <1>9 DEF WebhookInv

\* Who owes a failure after one sender moved on to t.
LEMMA OwingMoves ==
    ASSUME WebhookInv, NEW d \in Deliveries, NEW t \in SenderStates,
           sender' = [sender EXCEPT ![d] = t]
    PROVE  /\ IsFiniteSet(Owing') /\ Cardinality(Owing') \in Nat
           /\ Cardinality(Owing') <= Cardinality(Owing) + 1
           /\ (OwesFailure(t) => OwesFailure(sender[d])) => Cardinality(Owing') <= Cardinality(Owing)
           /\ OwesFailure(sender[d]) /\ ~OwesFailure(t) => Cardinality(Owing') + 1 = Cardinality(Owing)
<1>1. sender \in [Deliveries -> SenderStates] /\ IsFiniteSet(Owing) /\ Cardinality(Owing) \in Nat
  BY WebhookFacts
<1>2. /\ sender'[d] = t /\ \A e \in Deliveries : e # d => sender'[e] = sender[e]
      /\ Owing' = {e \in Deliveries : OwesFailure(sender'[e])}
  BY <1>1 DEF Owing, OwesFailure
<1>3. CASE OwesFailure(t) <=> OwesFailure(sender[d])
  <2>1. Owing' = Owing
    BY <1>2, <1>3 DEF Owing
  <2> QED
    BY <1>1, <1>3, <2>1
<1>4. CASE OwesFailure(t) /\ ~OwesFailure(sender[d])
  <2>1. Owing' = Owing \cup {d} /\ d \notin Owing
    BY <1>2, <1>4 DEF Owing
  <2>2. IsFiniteSet(Owing') /\ Cardinality(Owing') = Cardinality(Owing) + 1
    BY <1>1, <2>1, OneMemberMore
  <2> QED
    BY <1>1, <1>4, <2>2
<1>5. CASE ~OwesFailure(t) /\ OwesFailure(sender[d])
  <2>1. Owing' = Owing \ {d} /\ d \in Owing
    BY <1>2, <1>5 DEF Owing
  <2>2. IsFiniteSet(Owing') /\ Cardinality(Owing') \in Nat /\ Cardinality(Owing') = Cardinality(Owing) - 1
    BY <1>1, <2>1, OneMemberLess
  <2> QED
    BY <1>1, <1>5, <2>2
<1> QED
  BY <1>3, <1>4, <1>5

\* A step for one delivery: its sender moves on to t and, if it saves the webhook, saves
\* a copy whose count it owed.
LEMMA DeliveryStep ==
    ASSUME WebhookInv, NEW d \in Deliveries,
           NEW t \in SenderStates, NEW q \in QueueStates, NEW x \in DeliveryRows, NEW p \in PostCounts,
           sender' = [sender EXCEPT ![d] = t], queued' = [queued EXCEPT ![d] = q],
           delivery' = [delivery EXCEPT ![d] = x], posts' = [posts EXCEPT ![d] = p],
           change' = change, off' = off,
           errors' \in Nat, errors' >= errors, blame' \in {blame, blame + 1},
           DeliveryFits(x, t, q, p, errors'),
           OwesFailure(t) => OwesFailure(sender[d]) \/ blame' = blame + 1,
           t.hook \in {Fresh, webhook, sender[d].hook},
           \/ webhook' = webhook
           \/ webhook' = [sender[d].hook EXCEPT !.failures = 0]
           \/ /\ webhook' = incrementFailureCount(sender[d].hook)
              /\ OwesFailure(sender[d]) /\ ~OwesFailure(t)
    PROVE  WebhookInv'
<1> DEFINE n == Cardinality(Owing)
           m == Cardinality(Owing)'
<1>1. /\ webhook \in Hook /\ change.hook \in Hook /\ sender \in [Deliveries -> SenderStates]
      /\ delivery \in [Deliveries -> DeliveryRows] /\ queued \in [Deliveries -> QueueStates]
      /\ posts \in [Deliveries -> PostCounts] /\ sender[d].hook \in Hook
      /\ blame \in Nat /\ errors \in Nat /\ off \in BOOLEAN /\ n \in Nat
      /\ Threshold \in Nat \ {0}
  BY WebhookFacts DEF SenderStates
<1>2. /\ IsFiniteSet(Owing') /\ m \in Nat
      /\ (OwesFailure(t) => OwesFailure(sender[d])) => m <= n
      /\ m <= n + 1
      /\ OwesFailure(sender[d]) /\ ~OwesFailure(t) => m + 1 = n
  BY OwingMoves
<1>3. m <= n \/ (m <= n + 1 /\ blame' = blame + 1)
  BY <1>2
<1> HIDE DEF n, m
<1>4. ASSUME NEW h \in Hook, FairCopy(h, n, blame, off) PROVE FairCopy(h, m, blame', off')
  BY <1>1, <1>2, <1>3, <1>4 DEF FairCopy, Hook
<1>5. /\ FairCopy(webhook, n, blame, off) /\ FairCopy(change.hook, n, blame, off)
      /\ \A e \in Deliveries : FairCopy(sender[e].hook, n, blame, off)
      /\ \A e \in Deliveries : DeliveryFits(delivery[e], sender[e], queued[e], posts[e], errors)
  BY DEF WebhookInv, n
<1>6. Fresh \in Hook /\ FairCopy(Fresh, n, blame, off)
  <2>1. Fresh \in Hook /\ Fresh.active /\ Fresh.failures = 0
    BY DEF Fresh, Hook
  <2>2. n <= blame
    BY <1>1, <1>5 DEF FairCopy, Hook
  <2> QED
    BY <1>1, <2>1, <2>2 DEF FairCopy
<1>7. webhook' \in Hook /\ FairCopy(webhook', m, blame', off')
  <2>1. CASE webhook' = webhook
    BY <1>1, <1>4, <1>5, <2>1
  <2>2. CASE webhook' = [sender[d].hook EXCEPT !.failures = 0]
    <3>1. webhook' \in Hook /\ webhook'.failures = 0 /\ webhook'.active = sender[d].hook.active
      BY <1>1, <2>2 DEF Hook
    <3>2. FairCopy(sender[d].hook, m, blame', off')
      BY <1>1, <1>4, <1>5
    <3> QED
      BY <1>1, <1>2, <3>1, <3>2 DEF FairCopy, Hook
  <2>3. CASE /\ webhook' = incrementFailureCount(sender[d].hook)
             /\ OwesFailure(sender[d]) /\ ~OwesFailure(t)
    <3>1. /\ webhook' \in Hook /\ webhook'.failures = sender[d].hook.failures + 1
          /\ webhook'.active \/ ~sender[d].hook.active \/ sender[d].hook.failures + 1 >= Threshold
          /\ sender[d].hook.failures \in Nat
      BY <1>1, <2>3 DEF Hook, incrementFailureCount
    <3>2. m + 1 = n
      BY <1>2, <2>3
    <3>3. FairCopy(sender[d].hook, n, blame, off)
      BY <1>5
    <3> QED
      BY <1>1, <1>2, <3>1, <3>2, <3>3 DEF FairCopy
  <2> QED
    BY <2>1, <2>2, <2>3
<1>8. ASSUME NEW e \in Deliveries
      PROVE  FairCopy(sender'[e].hook, m, blame', off')
  <2>1. sender'[e].hook \in {Fresh, webhook, sender[e].hook} /\ sender[e].hook \in Hook
    BY <1>1 DEF SenderStates
  <2> QED
    BY <1>1, <1>4, <1>5, <1>6, <2>1
<1>9. ASSUME NEW e \in Deliveries
      PROVE  DeliveryFits(delivery'[e], sender'[e], queued'[e], posts'[e], errors')
  <2>1. CASE e = d
    BY <1>1, <2>1
  <2>2. CASE e # d
    <3>1. /\ delivery'[e] = delivery[e] /\ sender'[e] = sender[e] /\ queued'[e] = queued[e]
          /\ posts'[e] = posts[e] /\ queued[e].attempts \in Nat
          /\ posts[e].sent \in Nat /\ posts[e].accepted \in Nat
      BY <1>1, <2>2 DEF QueueStates, PostCounts
    <3>2. DeliveryFits(delivery[e], sender[e], queued[e], posts[e], errors)
      BY <1>5
    <3> QED
      BY <1>1, <3>1, <3>2 DEF DeliveryFits
  <2> QED
    BY <2>1, <2>2
<1>10. WebhookTypeOK' /\ posts' \in [Deliveries -> PostCounts] /\ blame' \in Nat
  <2>1. /\ sender' \in [Deliveries -> SenderStates] /\ queued' \in [Deliveries -> QueueStates]
        /\ delivery' \in [Deliveries -> DeliveryRows] /\ posts' \in [Deliveries -> PostCounts]
        /\ blame' \in Nat
    BY <1>1
  <2> QED
    BY <1>7, <2>1 DEF WebhookInv, WebhookTypeOK, SenderStates, QueueStates, DeliveryRows
<1>11. FairCopy(change'.hook, m, blame', off')
  BY <1>1, <1>4, <1>5
<1> QED
  BY <1>1, <1>2, <1>7, <1>8, <1>9, <1>10, <1>11 DEF WebhookInv, m
LEMMA SenderFacts ==
    ASSUME WebhookInv, NEW d \in Deliveries
    PROVE  /\ sender[d] \in SenderStates /\ queued[d] \in QueueStates
           /\ delivery[d] \in DeliveryRows /\ posts[d] \in PostCounts
           /\ queued[d].attempts \in Nat /\ queued[d].attempts <= MAX_RETRIES
           /\ sender[d].attempts \in Nat /\ delivery[d].attempts \in Nat
           /\ posts[d].sent \in Nat /\ posts[d].accepted \in Nat
           /\ Waiting \in SenderStates /\ Waiting.at = "idle" /\ Waiting.hook = Fresh
           /\ ~OwesFailure(Waiting)
           /\ DeliveryFits(delivery[d], sender[d], queued[d], posts[d], errors)
<1>1. /\ sender[d] \in SenderStates /\ queued[d] \in QueueStates
      /\ delivery[d] \in DeliveryRows /\ posts[d] \in PostCounts
  BY WebhookFacts
<1>2. /\ Waiting \in SenderStates /\ Waiting.at = "idle" /\ Waiting.hook = Fresh
  BY DEF Waiting, SenderStates, Fresh, Hook
<1>3. ~OwesFailure(Waiting)
  BY <1>2 DEF OwesFailure
<1>4. DeliveryFits(delivery[d], sender[d], queued[d], posts[d], errors)
  BY DEF WebhookInv
<1>5. MAX_RETRIES \in Nat
  BY WebhookConstants
<1> QED
  BY <1>1, <1>2, <1>3, <1>4, <1>5 DEF SenderStates, QueueStates, DeliveryRows, PostCounts

LEMMA UnmovedRows ==
    ASSUME WebhookInv, NEW d \in Deliveries
    PROVE  /\ queued = [queued EXCEPT ![d] = queued[d]]
           /\ delivery = [delivery EXCEPT ![d] = delivery[d]]
           /\ posts = [posts EXCEPT ![d] = posts[d]]
           /\ sender = [sender EXCEPT ![d] = sender[d]]
BY WebhookFacts

LEMMA TriggerStep ==
    ASSUME WebhookInv, NEW d \in Deliveries, triggerEvent(d)
    PROVE  WebhookInv'
<1> DEFINE x == [delivery[d] EXCEPT !.status = "pending"]
<1>1. x \in DeliveryRows /\ x.status = "pending" /\ delivery' = [delivery EXCEPT ![d] = x]
  BY SenderFacts, WebhookFacts DEF triggerEvent, DeliveryRows
<1> HIDE DEF x
<1>2. DeliveryFits(delivery[d], sender[d], queued[d], posts[d], errors) /\ delivery[d].status = "none"
  BY SenderFacts DEF triggerEvent
<1>3. PICK q \in QueueStates :
        /\ queued' = [queued EXCEPT ![d] = q]
        /\ q.attempts = 0 /\ q.state \in {"none", "waiting"}
        /\ errors' \in Nat /\ errors' >= errors
  <2>1. CASE queued' = queued
    BY <1>2, <2>1, SenderFacts, UnmovedRows, WebhookFacts DEF triggerEvent, Error, DeliveryFits
  <2>2. CASE queued' = [queued EXCEPT ![d].state = "waiting"] /\ UNCHANGED errors
    <3> DEFINE q == [queued[d] EXCEPT !.state = "waiting"]
    <3>1. queued[d].attempts = 0
      BY <1>2 DEF DeliveryFits
    <3>2. /\ q \in QueueStates /\ q.state = "waiting" /\ q.attempts = 0
          /\ queued' = [queued EXCEPT ![d] = q]
      BY <2>2, <3>1, SenderFacts, WebhookFacts DEF QueueStates
    <3> HIDE DEF q
    <3>3. errors' \in Nat /\ errors' >= errors
      BY <2>2, WebhookFacts
    <3> QED
      BY <3>2, <3>3
  <2> QED
    BY <2>1, <2>2 DEF triggerEvent
<1>4. DeliveryFits(x, sender[d], q, posts[d], errors')
  BY <1>1, <1>2, <1>3, SenderFacts, WebhookFacts DEF DeliveryFits, MayPost
<1>5. /\ sender' = [sender EXCEPT ![d] = sender[d]] /\ posts' = [posts EXCEPT ![d] = posts[d]]
      /\ change' = change /\ off' = off /\ blame' = blame /\ webhook' = webhook
  BY UnmovedRows DEF triggerEvent
<1>6. sender[d] \in SenderStates /\ posts[d] \in PostCounts
  BY SenderFacts
<1> QED
  BY <1>1, <1>3, <1>4, <1>5, <1>6, DeliveryStep

LEMMA BeginStep ==
    ASSUME WebhookInv, NEW d \in Deliveries, Begin(d)
    PROVE  WebhookInv'
<1> DEFINE t == [sender[d] EXCEPT !.at = "count", !.attempts = delivery[d].attempts]
           q == [state |-> "active", attempts |-> queued[d].attempts + 1]
<1>1. DeliveryFits(delivery[d], sender[d], queued[d], posts[d], errors) /\ queued[d].state = "waiting"
  BY SenderFacts DEF Begin
<1>2. queued[d].attempts < MAX_RETRIES /\ sender[d].at = "idle"
  BY <1>1 DEF DeliveryFits
<1>3. /\ q \in QueueStates /\ q.state = "active" /\ q.attempts = queued[d].attempts + 1
      /\ queued' = [queued EXCEPT ![d] = q]
  BY <1>2, SenderFacts, WebhookFacts DEF Begin, QueueStates
<1>4. /\ t \in SenderStates /\ t.at = "count" /\ t.hook = sender[d].hook
      /\ sender' = [sender EXCEPT ![d] = t]
  BY SenderFacts, WebhookFacts DEF Begin, SenderStates
<1> HIDE DEF t, q
<1>5. DeliveryFits(delivery[d], t, q, posts[d], errors)
  BY <1>1, <1>2, <1>3, <1>4, SenderFacts, WebhookFacts DEF DeliveryFits, MayPost
<1>6. ~OwesFailure(t)
  BY <1>4 DEF OwesFailure
<1>7. /\ delivery' = [delivery EXCEPT ![d] = delivery[d]] /\ posts' = [posts EXCEPT ![d] = posts[d]]
      /\ change' = change /\ off' = off /\ blame' = blame /\ webhook' = webhook /\ errors' = errors
      /\ errors \in Nat
  BY UnmovedRows, WebhookFacts DEF Begin
<1>8. delivery[d] \in DeliveryRows /\ posts[d] \in PostCounts
  BY SenderFacts
<1>9. /\ errors' \in Nat /\ errors' >= errors /\ DeliveryFits(delivery[d], t, q, posts[d], errors')
      /\ blame' \in {blame, blame + 1} /\ t.hook \in {Fresh, webhook, sender[d].hook}
      /\ OwesFailure(t) => OwesFailure(sender[d]) \/ blame' = blame + 1
  BY <1>4, <1>5, <1>6, <1>7
<1> QED
  BY <1>9, <1>3, <1>4, <1>5, <1>6, <1>7, <1>8, DeliveryStep

LEMMA WebhookCountStep ==
    ASSUME WebhookInv, NEW d \in Deliveries, CountAttempt(d)
    PROVE  WebhookInv'
<1> DEFINE t == [sender[d] EXCEPT !.at = "post", !.attempts = @ + 1]
           x == [delivery[d] EXCEPT !.attempts = sender[d].attempts + 1]
<1>1. DeliveryFits(delivery[d], sender[d], queued[d], posts[d], errors) /\ sender[d].at = "count"
  BY SenderFacts DEF CountAttempt, On
<1>2. /\ x \in DeliveryRows /\ x.status = delivery[d].status
      /\ delivery' = [delivery EXCEPT ![d] = x]
  BY SenderFacts, WebhookFacts DEF CountAttempt, DeliveryRows
<1>3. /\ t \in SenderStates /\ t.at = "post" /\ t.hook = sender[d].hook
      /\ sender' = [sender EXCEPT ![d] = t]
  BY SenderFacts, WebhookFacts DEF CountAttempt, SenderStates
<1> HIDE DEF t, x
<1>4. DeliveryFits(x, t, queued[d], posts[d], errors)
  BY <1>1, <1>2, <1>3, SenderFacts, WebhookFacts DEF DeliveryFits, MayPost
<1>5. ~OwesFailure(t)
  BY <1>3 DEF OwesFailure
<1>6. /\ queued' = [queued EXCEPT ![d] = queued[d]] /\ posts' = [posts EXCEPT ![d] = posts[d]]
      /\ change' = change /\ off' = off /\ blame' = blame /\ webhook' = webhook /\ errors' = errors
      /\ errors \in Nat
  BY UnmovedRows, WebhookFacts DEF CountAttempt
<1>7. queued[d] \in QueueStates /\ posts[d] \in PostCounts
  BY SenderFacts
<1>8. /\ errors' \in Nat /\ errors' >= errors /\ DeliveryFits(x, t, queued[d], posts[d], errors')
      /\ blame' \in {blame, blame + 1} /\ t.hook \in {Fresh, webhook, sender[d].hook}
      /\ OwesFailure(t) => OwesFailure(sender[d]) \/ blame' = blame + 1
  BY <1>3, <1>4, <1>5, <1>6
<1> QED
  BY <1>8, <1>2, <1>3, <1>4, <1>5, <1>6, <1>7, DeliveryStep

LEMMA PostStep ==
    ASSUME WebhookInv, NEW d \in Deliveries, NEW answer \in {"2xx", "4xx", "5xx", "error"},
           Post(d, answer)
    PROVE  WebhookInv'
<1> DEFINE t == [sender[d] EXCEPT !.at = IF answer = "error" THEN "failed" ELSE "record",
                                  !.answer = answer]
           p == [sent |-> posts[d].sent + 1,
                 accepted |-> posts[d].accepted + (IF answer = "2xx" THEN 1 ELSE 0)]
<1>1. DeliveryFits(delivery[d], sender[d], queued[d], posts[d], errors) /\ sender[d].at = "post"
  BY SenderFacts DEF Post, On
<1>2. /\ p \in PostCounts /\ p.sent = posts[d].sent + 1
      /\ answer = "2xx" => p.accepted = posts[d].accepted + 1
      /\ answer # "2xx" => p.accepted = posts[d].accepted
      /\ posts' = [posts EXCEPT ![d] = p]
  BY SenderFacts, WebhookFacts DEF Post, PostCounts
<1>3. /\ t \in SenderStates /\ t.at = (IF answer = "error" THEN "failed" ELSE "record")
      /\ t.answer = answer /\ t.hook = sender[d].hook /\ t.attempts = sender[d].attempts
      /\ sender' = [sender EXCEPT ![d] = t]
  BY SenderFacts, WebhookFacts DEF Post, SenderStates
<1> HIDE DEF t, p
<1>4. DeliveryFits(delivery[d], t, queued[d], p, errors)
  BY <1>1, <1>2, <1>3, SenderFacts, WebhookFacts DEF DeliveryFits, MayPost
<1>5. OwesFailure(t) => blame' = blame + 1
  BY <1>3 DEF OwesFailure, Post
<1>6. /\ queued' = [queued EXCEPT ![d] = queued[d]] /\ delivery' = [delivery EXCEPT ![d] = delivery[d]]
      /\ change' = change /\ off' = off /\ blame' \in {blame, blame + 1}
      /\ webhook' = webhook /\ errors' = errors /\ errors \in Nat
  BY UnmovedRows, WebhookFacts DEF Post
<1>7. queued[d] \in QueueStates /\ delivery[d] \in DeliveryRows
  BY SenderFacts
<1>8. /\ errors' \in Nat /\ errors' >= errors /\ DeliveryFits(delivery[d], t, queued[d], p, errors')
      /\ blame' \in {blame, blame + 1} /\ t.hook \in {Fresh, webhook, sender[d].hook}
      /\ OwesFailure(t) => OwesFailure(sender[d]) \/ blame' = blame + 1
  BY <1>3, <1>4, <1>5, <1>6
<1> QED
  BY <1>8, <1>2, <1>3, <1>4, <1>5, <1>6, <1>7, DeliveryStep
LEMMA RecordStep ==
    ASSUME WebhookInv, NEW d \in Deliveries, Record(d)
    PROVE  WebhookInv'
<1> DEFINE t == [sender[d] EXCEPT !.at = "load"]
           x == [status |-> IF sender[d].answer = "2xx" THEN "success" ELSE "failed",
                 attempts |-> sender[d].attempts]
<1>1. DeliveryFits(delivery[d], sender[d], queued[d], posts[d], errors) /\ sender[d].at = "record"
  BY SenderFacts DEF Record, On
<1>2. /\ x \in DeliveryRows /\ delivery' = [delivery EXCEPT ![d] = x]
      /\ x.status = (IF sender[d].answer = "2xx" THEN "success" ELSE "failed")
  BY SenderFacts, WebhookFacts DEF Record, DeliveryRows
<1>3. /\ t \in SenderStates /\ t.at = "load" /\ t.answer = sender[d].answer
      /\ t.hook = sender[d].hook /\ t.attempts = sender[d].attempts
      /\ sender' = [sender EXCEPT ![d] = t]
  BY SenderFacts, WebhookFacts DEF Record, To, SenderStates
<1> HIDE DEF t, x
<1>4. DeliveryFits(x, t, queued[d], posts[d], errors)
  BY <1>1, <1>2, <1>3, SenderFacts, WebhookFacts DEF DeliveryFits, MayPost
<1>5. OwesFailure(t) => OwesFailure(sender[d])
  BY <1>1, <1>3 DEF OwesFailure
<1>6. /\ queued' = [queued EXCEPT ![d] = queued[d]] /\ posts' = [posts EXCEPT ![d] = posts[d]]
      /\ change' = change /\ off' = off /\ blame' = blame /\ webhook' = webhook /\ errors' = errors
      /\ errors \in Nat
  BY UnmovedRows, WebhookFacts DEF Record
<1>7. queued[d] \in QueueStates /\ posts[d] \in PostCounts
  BY SenderFacts
<1>8. /\ errors' \in Nat /\ errors' >= errors /\ DeliveryFits(x, t, queued[d], posts[d], errors')
      /\ blame' \in {blame, blame + 1} /\ t.hook \in {Fresh, webhook, sender[d].hook}
  BY <1>3, <1>4, <1>6
<1> QED
  BY <1>2, <1>3, <1>5, <1>6, <1>7, <1>8, DeliveryStep

LEMMA RecordErrorStep ==
    ASSUME WebhookInv, NEW d \in Deliveries, RecordError(d)
    PROVE  WebhookInv'
<1> DEFINE t == [sender[d] EXCEPT !.at = "reload"]
           x == [status |-> "failed", attempts |-> sender[d].attempts]
<1>1. DeliveryFits(delivery[d], sender[d], queued[d], posts[d], errors) /\ sender[d].at = "failed"
  BY SenderFacts DEF RecordError, On
<1>2. /\ x \in DeliveryRows /\ delivery' = [delivery EXCEPT ![d] = x]
      /\ x.status = "failed"
  BY SenderFacts, WebhookFacts DEF RecordError, DeliveryRows
<1>3. /\ t \in SenderStates /\ t.at = "reload" /\ t.answer = sender[d].answer
      /\ t.hook = sender[d].hook /\ t.attempts = sender[d].attempts
      /\ sender' = [sender EXCEPT ![d] = t]
  BY SenderFacts, WebhookFacts DEF RecordError, To, SenderStates
<1> HIDE DEF t, x
<1>4. DeliveryFits(x, t, queued[d], posts[d], errors)
  BY <1>1, <1>2, <1>3, SenderFacts, WebhookFacts DEF DeliveryFits, MayPost
<1>5. OwesFailure(t) => OwesFailure(sender[d])
  BY <1>1, <1>3 DEF OwesFailure
<1>6. /\ queued' = [queued EXCEPT ![d] = queued[d]] /\ posts' = [posts EXCEPT ![d] = posts[d]]
      /\ change' = change /\ off' = off /\ blame' = blame /\ webhook' = webhook /\ errors' = errors
      /\ errors \in Nat
  BY UnmovedRows, WebhookFacts DEF RecordError
<1>7. queued[d] \in QueueStates /\ posts[d] \in PostCounts
  BY SenderFacts
<1>8. /\ errors' \in Nat /\ errors' >= errors /\ DeliveryFits(x, t, queued[d], posts[d], errors')
      /\ blame' \in {blame, blame + 1} /\ t.hook \in {Fresh, webhook, sender[d].hook}
  BY <1>3, <1>4, <1>6
<1> QED
  BY <1>2, <1>3, <1>5, <1>6, <1>7, <1>8, DeliveryStep

\* The job ends, and the webhook is left alone or saved with the failure it owed.
LEMMA ReturnStep ==
    ASSUME WebhookInv, NEW d \in Deliveries, NEW thrown \in BOOLEAN, Return(d, thrown),
           delivery' = delivery, posts' = posts, change' = change, off' = off,
           errors' \in Nat, errors' >= errors, blame' \in {blame, blame + 1},
           sender[d].at # "idle",
           ~thrown => ~MayPost(sender[d], queued[d]) \/ sender[d].answer # "2xx",
           \/ webhook' = webhook
           \/ webhook' = [sender[d].hook EXCEPT !.failures = 0]
           \/ webhook' = incrementFailureCount(sender[d].hook) /\ OwesFailure(sender[d]),
           thrown => sender[d].at \notin {"record", "load", "stats"}
    PROVE  WebhookInv'
<1> DEFINE q == [queued[d] EXCEPT !.state =
                    IF thrown /\ queued[d].attempts < MAX_RETRIES THEN "waiting" ELSE "none"]
<1>1. DeliveryFits(delivery[d], sender[d], queued[d], posts[d], errors)
  BY SenderFacts
<1>2. /\ q \in QueueStates /\ q.attempts = queued[d].attempts
      /\ q.state = (IF thrown /\ queued[d].attempts < MAX_RETRIES THEN "waiting" ELSE "none")
      /\ queued' = [queued EXCEPT ![d] = q]
  BY SenderFacts, WebhookFacts DEF Return, QueueStates
<1>3. sender' = [sender EXCEPT ![d] = Waiting]
  BY DEF Return
<1> HIDE DEF q
<1>4. DeliveryFits(delivery[d], Waiting, q, posts[d], errors')
  BY <1>1, <1>2, SenderFacts, WebhookFacts DEF DeliveryFits, MayPost
<1>5. /\ delivery' = [delivery EXCEPT ![d] = delivery[d]] /\ posts' = [posts EXCEPT ![d] = posts[d]]
      /\ Waiting.hook \in {Fresh, webhook, sender[d].hook} /\ Waiting \in SenderStates
      /\ OwesFailure(Waiting) => OwesFailure(sender[d]) \/ blame' = blame + 1
      /\ delivery[d] \in DeliveryRows /\ posts[d] \in PostCounts
  BY UnmovedRows, SenderFacts
<1>6. \/ webhook' = webhook
      \/ webhook' = [sender[d].hook EXCEPT !.failures = 0]
      \/ /\ webhook' = incrementFailureCount(sender[d].hook)
         /\ OwesFailure(sender[d]) /\ ~OwesFailure(Waiting)
  BY SenderFacts
<1> QED
  BY <1>2, <1>3, <1>4, <1>5, <1>6, DeliveryStep

\* The sender reads the webhook, or something ends the request.
LEMMA SenderStep ==
    ASSUME WebhookInv, NEW d \in Deliveries, NEW t \in SenderStates,
           sender' = [sender EXCEPT ![d] = t], queued' = queued, delivery' = delivery, posts' = posts,
           change' = change, off' = off, webhook' = webhook,
           errors' \in Nat, errors' >= errors, blame' \in {blame, blame + 1},
           DeliveryFits(delivery[d], t, queued[d], posts[d], errors'),
           OwesFailure(t) => OwesFailure(sender[d]) \/ blame' = blame + 1,
           t.hook \in {Fresh, webhook, sender[d].hook}
    PROVE  WebhookInv'
<1> DEFINE x == delivery[d]
           q == queued[d]
           p == posts[d]
<1>1. /\ queued' = [queued EXCEPT ![d] = q] /\ delivery' = [delivery EXCEPT ![d] = x]
      /\ posts' = [posts EXCEPT ![d] = p]
      /\ q \in QueueStates /\ x \in DeliveryRows /\ p \in PostCounts
      /\ DeliveryFits(x, t, q, p, errors')
  BY UnmovedRows, SenderFacts
<1> HIDE DEF x, q, p
<1> QED
  BY <1>1, DeliveryStep

LEMMA WebhookLoadStep ==
    ASSUME WebhookInv, NEW d \in Deliveries, LoadWebhook(d)
    PROVE  WebhookInv'
<1>1. DeliveryFits(delivery[d], sender[d], queued[d], posts[d], errors) /\ sender[d].at = "load"
  BY SenderFacts DEF LoadWebhook, On
<1>2. /\ delivery' = delivery /\ posts' = posts /\ change' = change /\ off' = off /\ webhook' = webhook
      /\ errors' \in Nat /\ errors' >= errors /\ errors' = errors /\ blame' \in {blame, blame + 1}
  BY WebhookFacts DEF LoadWebhook
<1>3. CASE sender[d].answer = "4xx"
  <2>1. Return(d, FALSE) /\ sender[d].answer # "2xx" /\ sender[d].at # "idle"
    BY <1>1, <1>3 DEF LoadWebhook
  <2> QED
    BY <1>2, <2>1, ReturnStep
<1>4. CASE sender[d].answer # "4xx"
  <2> DEFINE t == [sender[d] EXCEPT !.at = "stats", !.hook = webhook]
  <2>1. /\ t \in SenderStates /\ t.at = "stats" /\ t.hook = webhook
        /\ t.answer = sender[d].answer /\ t.attempts = sender[d].attempts
        /\ sender' = [sender EXCEPT ![d] = t] /\ queued' = queued
    BY <1>4, SenderFacts, WebhookFacts DEF LoadWebhook, SenderStates
  <2> HIDE DEF t
  <2>2. DeliveryFits(delivery[d], t, queued[d], posts[d], errors')
    BY <1>1, <1>2, <1>4, <2>1, SenderFacts DEF DeliveryFits, MayPost
  <2>3. OwesFailure(t) => OwesFailure(sender[d])
    BY <1>1, <2>1 DEF OwesFailure
  <2> QED
    BY <1>2, <2>1, <2>2, <2>3, SenderStep
<1> QED
  BY <1>3, <1>4

LEMMA SaveStatsStep ==
    ASSUME WebhookInv, NEW d \in Deliveries, SaveStats(d)
    PROVE  WebhookInv'
<1>1. DeliveryFits(delivery[d], sender[d], queued[d], posts[d], errors) /\ sender[d].at = "stats"
  BY SenderFacts DEF SaveStats, On
<1>2. /\ delivery' = delivery /\ posts' = posts /\ change' = change /\ off' = off
      /\ errors' \in Nat /\ errors' >= errors /\ blame' \in {blame, blame + 1}
  BY WebhookFacts DEF SaveStats
<1>5. Return(d, FALSE) /\ sender[d].at # "idle"
  BY <1>1 DEF SaveStats
<1>3. \/ webhook' = [sender[d].hook EXCEPT !.failures = 0]
      \/ webhook' = incrementFailureCount(sender[d].hook) /\ OwesFailure(sender[d])
  BY <1>1 DEF SaveStats, DeliveryFits, OwesFailure
<1>4. ~MayPost(sender[d], queued[d]) \/ sender[d].answer # "2xx"
  BY <1>1 DEF MayPost
<1> QED
  BY <1>2, <1>3, <1>4, <1>5, ReturnStep

LEMMA ReloadStep ==
    ASSUME WebhookInv, NEW d \in Deliveries, ReloadWebhook(d)
    PROVE  WebhookInv'
<1>1. DeliveryFits(delivery[d], sender[d], queued[d], posts[d], errors) /\ sender[d].at = "reload"
  BY SenderFacts DEF ReloadWebhook, On
<1>2. /\ delivery' = delivery /\ posts' = posts /\ change' = change /\ off' = off /\ webhook' = webhook
      /\ errors' \in Nat /\ errors' >= errors /\ errors' = errors /\ blame' \in {blame, blame + 1}
  BY WebhookFacts DEF ReloadWebhook
<1>3. CASE ~LastAttempt(d)
  <2>1. Return(d, TRUE) /\ sender[d].at # "idle" /\ sender[d].at \notin {"record", "load", "stats"}
    BY <1>1, <1>3 DEF ReloadWebhook
  <2> QED
    BY <1>2, <2>1, ReturnStep
<1>4. CASE LastAttempt(d)
  <2> DEFINE t == [sender[d] EXCEPT !.at = "blame", !.hook = webhook]
  <2>1. /\ t \in SenderStates /\ t.at = "blame" /\ t.hook = webhook
        /\ t.answer = sender[d].answer /\ t.attempts = sender[d].attempts
        /\ sender' = [sender EXCEPT ![d] = t] /\ queued' = queued
    BY <1>4, SenderFacts, WebhookFacts DEF ReloadWebhook, SenderStates
  <2> HIDE DEF t
  <2>2. DeliveryFits(delivery[d], t, queued[d], posts[d], errors')
    BY <1>1, <1>2, <1>4, <2>1, SenderFacts DEF DeliveryFits, MayPost, LastAttempt
  <2>3. OwesFailure(t) => OwesFailure(sender[d])
    BY <1>1, <2>1 DEF OwesFailure
  <2> QED
    BY <1>2, <2>1, <2>2, <2>3, SenderStep
<1> QED
  BY <1>3, <1>4

LEMMA BlameStep ==
    ASSUME WebhookInv, NEW d \in Deliveries, BlameWebhook(d)
    PROVE  WebhookInv'
<1>1. DeliveryFits(delivery[d], sender[d], queued[d], posts[d], errors) /\ sender[d].at = "blame"
  BY SenderFacts DEF BlameWebhook, On
<1>2. /\ delivery' = delivery /\ posts' = posts /\ change' = change /\ off' = off
      /\ errors' \in Nat /\ errors' >= errors /\ blame' \in {blame, blame + 1}
  BY WebhookFacts DEF BlameWebhook
<1>5. Return(d, TRUE) /\ sender[d].at # "idle" /\ sender[d].at \notin {"record", "load", "stats"}
  BY <1>1 DEF BlameWebhook
<1>3. webhook' = incrementFailureCount(sender[d].hook) /\ OwesFailure(sender[d])
  BY <1>1 DEF BlameWebhook, DeliveryFits, OwesFailure
<1> QED
  BY <1>2, <1>3, <1>5, ReturnStep

LEMMA ThrowStep ==
    ASSUME WebhookInv, NEW d \in Deliveries, StatementThrows(d)
    PROVE  WebhookInv'
<1>1. DeliveryFits(delivery[d], sender[d], queued[d], posts[d], errors) /\ sender[d].at # "idle"
  BY SenderFacts DEF StatementThrows, On
<1>2. /\ delivery' = delivery /\ posts' = posts /\ change' = change /\ off' = off /\ webhook' = webhook
      /\ errors' \in Nat /\ errors' >= errors /\ errors' = errors + 1 /\ errors \in Nat
      /\ blame' \in {blame, blame + 1} /\ blame' = blame + 1
  BY WebhookFacts DEF StatementThrows, Error
<1>3. CASE sender[d].at \notin {"record", "load", "stats"}
  <2>1. Return(d, TRUE)
    BY <1>3 DEF StatementThrows
  <2> QED
    BY <1>1, <1>2, <1>3, <2>1, ReturnStep
<1>4. CASE sender[d].at \in {"record", "load", "stats"}
  <2> DEFINE t == [sender[d] EXCEPT !.at = "failed", !.answer = "error"]
  <2>1. /\ t \in SenderStates /\ t.at = "failed" /\ t.answer = "error" /\ t.hook = sender[d].hook
        /\ sender' = [sender EXCEPT ![d] = t] /\ queued' = queued
    BY <1>4, SenderFacts, WebhookFacts DEF StatementThrows, SenderStates
  <2> HIDE DEF t
  <2>2. DeliveryFits(delivery[d], t, queued[d], posts[d], errors')
    BY <1>1, <1>2, <1>4, <2>1, SenderFacts DEF DeliveryFits, MayPost
  <2> QED
    BY <1>2, <2>1, <2>2, SenderStep
<1> QED
  BY <1>3, <1>4

LEMMA WebhookCrashStep ==
    ASSUME WebhookInv, NEW d \in Deliveries, CrashSender(d)
    PROVE  WebhookInv'
<1> DEFINE q == [state |-> "waiting", attempts |-> queued[d].attempts - 1]
<1>1. DeliveryFits(delivery[d], sender[d], queued[d], posts[d], errors) /\ sender[d].at # "idle"
  BY SenderFacts DEF CrashSender, On
<1>2. queued[d].state = "active" /\ queued[d].attempts >= 1
  BY <1>1 DEF DeliveryFits
<1>3. /\ q \in QueueStates /\ q.state = "waiting" /\ q.attempts = queued[d].attempts - 1
      /\ queued' = [queued EXCEPT ![d] = q]
  BY <1>2, SenderFacts, WebhookFacts DEF CrashSender, QueueStates
<1> HIDE DEF q
<1>4. /\ delivery' = [delivery EXCEPT ![d] = delivery[d]] /\ posts' = [posts EXCEPT ![d] = posts[d]]
      /\ change' = change /\ off' = off /\ webhook' = webhook
      /\ errors' \in Nat /\ errors' >= errors /\ errors' = errors + 1 /\ errors \in Nat
      /\ blame' \in {blame, blame + 1} /\ sender' = [sender EXCEPT ![d] = Waiting]
  BY UnmovedRows, WebhookFacts DEF CrashSender, Error
<1>5. DeliveryFits(delivery[d], Waiting, q, posts[d], errors')
  BY <1>1, <1>2, <1>3, <1>4, SenderFacts, WebhookFacts DEF DeliveryFits, MayPost
<1>6. /\ Waiting.hook \in {Fresh, webhook, sender[d].hook} /\ Waiting \in SenderStates
      /\ OwesFailure(Waiting) => OwesFailure(sender[d]) \/ blame' = blame + 1
      /\ delivery[d] \in DeliveryRows /\ posts[d] \in PostCounts
  BY SenderFacts
<1> QED
  BY <1>3, <1>4, <1>5, <1>6, DeliveryStep
\* The owner's calls, and steps of nobody: no delivery moves.
LEMMA WebhookOwnerStep ==
    ASSUME WebhookInv, delivery' = delivery, queued' = queued, sender' = sender, posts' = posts,
           blame' = blame, errors' = errors, off' \in BOOLEAN, off => off',
           webhook' \in Hook, change' \in [at : {"idle", "save"}, hook : Hook, active : BOOLEAN],
           FairCopy(webhook', Cardinality(Owing), blame, off'),
           FairCopy(change'.hook, Cardinality(Owing), blame, off')
    PROVE  WebhookInv'
<1>1. Owing' = Owing
  BY DEF Owing, OwesFailure
<1>2. \A d \in Deliveries : FairCopy(sender[d].hook, Cardinality(Owing), blame, off')
  BY DEF WebhookInv, FairCopy
<1>3. \A d \in Deliveries : DeliveryFits(delivery[d], sender[d], queued[d], posts[d], errors)
  BY DEF WebhookInv
<1>4. WebhookTypeOK'
  BY DEF WebhookInv, WebhookTypeOK
<1> QED
  BY <1>1, <1>2, <1>3, <1>4 DEF WebhookInv

LEMMA UpdateStep ==
    ASSUME WebhookInv, NEW active \in BOOLEAN, update(active)
    PROVE  WebhookInv'
<1>1. /\ change' = [at |-> "save", hook |-> webhook, active |-> active]
      /\ webhook \in Hook /\ webhook' = webhook /\ off' = off /\ off \in BOOLEAN
  BY WebhookFacts DEF update
<1>2. change' \in [at : {"idle", "save"}, hook : Hook, active : BOOLEAN] /\ change'.hook = webhook
  BY <1>1
<1>3. FairCopy(webhook, Cardinality(Owing), blame, off)
  BY DEF WebhookInv
<1>4. /\ delivery' = delivery /\ queued' = queued /\ sender' = sender /\ posts' = posts
      /\ blame' = blame /\ errors' = errors
  BY DEF update
<1> QED
  BY <1>1, <1>2, <1>3, <1>4, WebhookOwnerStep

LEMMA SaveUpdateStep ==
    ASSUME WebhookInv, SaveUpdate
    PROVE  WebhookInv'
<1>1. /\ change \in [at : {"idle", "save"}, hook : Hook, active : BOOLEAN] /\ off \in BOOLEAN
      /\ change.hook \in Hook /\ change.active \in BOOLEAN
  BY DEF WebhookInv, WebhookTypeOK
<1>2. /\ webhook' \in Hook /\ webhook'.active = change.active
      /\ webhook'.failures = change.hook.failures
  BY <1>1 DEF SaveUpdate, Hook
<1>3. off' = (off \/ (change.hook.active /\ ~change.active)) /\ change' = Quiet
  BY DEF SaveUpdate
<1>4. off' \in BOOLEAN /\ (off => off')
  BY <1>3, <1>1, Zenon
<1>5. FairCopy(change.hook, Cardinality(Owing), blame, off) /\ Cardinality(Owing) \in Nat /\ blame \in Nat
  BY WebhookFacts DEF WebhookInv
<1>6. change.active \/ off' \/ blame >= Threshold
  BY <1>3, <1>5, Zenon DEF FairCopy
<1>7. FairCopy(webhook', Cardinality(Owing), blame, off')
  BY <1>2, <1>5, <1>6 DEF FairCopy
<1>8. Quiet \in [at : {"idle", "save"}, hook : Hook, active : BOOLEAN] /\ Quiet.hook = Fresh
  BY DEF Quiet, Fresh, Hook
<1>9. FairCopy(Fresh, Cardinality(Owing), blame, off')
  <2>1. Cardinality(Owing) <= blame
    BY <1>1, <1>5 DEF FairCopy, Hook
  <2> QED
    BY <1>5, <2>1 DEF FairCopy, Fresh
<1>10. /\ delivery' = delivery /\ queued' = queued /\ sender' = sender /\ posts' = posts
       /\ blame' = blame /\ errors' = errors
  BY DEF SaveUpdate
<1> QED
  BY <1>2, <1>3, <1>4, <1>7, <1>8, <1>9, <1>10, WebhookOwnerStep

LEMMA WebhookStepInv == WebhookInv /\ [WebhookNext]_webhookVars => WebhookInv'
<1> SUFFICES ASSUME WebhookInv, [WebhookNext]_webhookVars PROVE WebhookInv'
  OBVIOUS
<1>1. ASSUME NEW d \in Deliveries,
             \/ triggerEvent(d) \/ Begin(d) \/ CountAttempt(d) \/ Record(d) \/ LoadWebhook(d)
             \/ SaveStats(d) \/ RecordError(d) \/ ReloadWebhook(d) \/ BlameWebhook(d)
             \/ StatementThrows(d) \/ CrashSender(d)
      PROVE  WebhookInv'
  BY <1>1, TriggerStep, BeginStep, WebhookCountStep, RecordStep, WebhookLoadStep, SaveStatsStep,
     RecordErrorStep,
     ReloadStep, BlameStep, ThrowStep, WebhookCrashStep
<1>2. ASSUME NEW d \in Deliveries, NEW answer \in {"2xx", "4xx", "5xx", "error"}, Post(d, answer)
      PROVE  WebhookInv'
  BY <1>2, PostStep
<1>3. ASSUME NEW active \in BOOLEAN, update(active) PROVE WebhookInv'
  BY <1>3, UpdateStep
<1>4. CASE SaveUpdate
  BY <1>4, SaveUpdateStep
<1>5. CASE UNCHANGED webhookVars
  <2>1. /\ delivery' = delivery /\ queued' = queued /\ sender' = sender /\ posts' = posts
        /\ blame' = blame /\ errors' = errors /\ off' = off /\ webhook' = webhook /\ change' = change
    BY <1>5 DEF webhookVars
  <2>2. /\ webhook \in Hook /\ off \in BOOLEAN
        /\ change \in [at : {"idle", "save"}, hook : Hook, active : BOOLEAN]
        /\ FairCopy(webhook, Cardinality(Owing), blame, off)
        /\ FairCopy(change.hook, Cardinality(Owing), blame, off)
    BY DEF WebhookInv, WebhookTypeOK
  <2> QED
    BY <2>1, <2>2, WebhookOwnerStep
<1> QED
  BY <1>1, <1>2, <1>3, <1>4, <1>5 DEF WebhookNext

\* A webhook its owner left on is deactivated only after Threshold failures it is to
\* blame for, and what the receiver accepted is sent again only after a fault.
THEOREM WebhooksJudged == WebhookSpec => []WebhookJudgedFairly
<1>1. ASSUME WebhookInv PROVE WebhookJudgedFairly
  <2>1. /\ FairCopy(webhook, Cardinality(Owing), blame, off) /\ Cardinality(Owing) \in Nat
        /\ webhook \in Hook /\ blame \in Nat /\ errors \in Nat /\ MAX_RETRIES \in Nat
    BY <1>1, WebhookFacts DEF WebhookInv
  <2>2. webhook.failures <= blame
    BY <2>1 DEF FairCopy, Hook
  <2>3. ~webhook.active /\ ~off => blame >= Threshold
    BY <2>1 DEF FairCopy
  <2>4. ASSUME NEW d \in Deliveries
        PROVE  /\ posts[d].accepted <= 1 + errors /\ posts[d].sent <= MAX_RETRIES + errors
               /\ delivery[d].status = "success" => posts[d].accepted > 0
    BY <1>1, <2>1, SenderFacts DEF DeliveryFits
  <2> QED
    BY <2>2, <2>3, <2>4 DEF WebhookJudgedFairly
<1>2. WebhookSpec => []WebhookInv
  BY WebhookInitInv, WebhookStepInv, PTL DEF WebhookSpec
<1> QED
  BY <1>1, <1>2, PTL

-----------------------------------------------------------------------------
(* Exports *)

ExportQueue == [state : {"none", "waiting", "active", "failed"}, attempts : 0..MaxRetries]
RunStates == [at : {"none", "start", "check", "progress", "store", "complete", "email", "fail"},
              stage : Stages, ends : {"failed", "cancelled"}, doomed : BOOLEAN]
UseStates == [at : {"idle", "add", "queued", "refused", "remove", "flag", "cancel", "reset",
                    "delete", "expire", "missing"}, read : Export]

\* What the row, the file a run has just stored and the calls know of a key.
KeysFit ==
    /\ export.key <= uploads
    /\ export.status = "completed" => export.key # NoFile
    /\ export.key # NoFile => export.key \in files \/ export.past
    /\ run.at = "complete" => uploads # NoFile /\ uploads \in files /\ export.key < uploads
    /\ \A c \in ExportCalls :
         /\ use[c].read.key <= uploads
         /\ run.at = "complete" => use[c].read.key < uploads
         /\ use[c].at = "delete" => /\ use[c].read.key # NoFile
                                    /\ use[c].read.key = export.key => export.past

\* A cancellation left a mark in the row or took the job out of the queue, where only a
\* retry can put one.
Stopped == export.flag \/ qjob.state = "none"
CancelsHold ==
    /\ run.at # "none" <=> qjob.state = "active"
    /\ clear # {} \/ acked => \A c \in ExportCalls : use[c].at # "add"
    /\ acked => Stopped
    /\ \A c \in clear : use[c].at = "cancel" => Stopped
    /\ run.doomed => export.flag /\ run.at \in {"start", "check", "fail"}

ExportRows ==
    /\ ExportTypeOK
    /\ uploads \in Nat /\ clear \subseteq ExportCalls /\ acked \in BOOLEAN
    /\ qjob.state = "waiting" => qjob.attempts < MaxRetries

\* A cancellation that was confirmed stands, and a file is stored before its key is.
ExportInv == ExportRows /\ KeysFit /\ CancelsHold

LEMMA ExportFacts ==
    ASSUME ExportInv
    PROVE  /\ export \in Export /\ qjob \in ExportQueue /\ run \in RunStates
           /\ use \in [ExportCalls -> UseStates] /\ uploads \in Nat /\ files \subseteq 1..uploads
           /\ clear \subseteq ExportCalls /\ acked \in BOOLEAN
           /\ qjob.state = "waiting" => qjob.attempts < MaxRetries
           /\ NewExport \in Export /\ NoRun \in RunStates /\ NoCall \in UseStates
           /\ KeysFit /\ CancelsHold
<1>1. NewExport \in Export /\ NoRun \in RunStates
  BY DEF NewExport, Export, ExportStatus, NoFile, NoRun, RunStates, Stages
<1>2. NoCall \in UseStates
  BY <1>1 DEF NoCall, UseStates
<1> QED
  BY <1>1, <1>2 DEF ExportInv, ExportRows, ExportTypeOK, ExportQueue, RunStates, UseStates

LEMMA RowsStep ==
    ASSUME ExportInv, ExportNext
    PROVE  ExportRows'
<1>1. /\ export \in Export /\ qjob \in ExportQueue /\ run \in RunStates
      /\ use \in [ExportCalls -> UseStates] /\ uploads \in Nat /\ files \subseteq 1..uploads
      /\ clear \subseteq ExportCalls /\ acked \in BOOLEAN
      /\ qjob.state = "waiting" => qjob.attempts < MaxRetries
      /\ NewExport \in Export /\ NoRun \in RunStates /\ NoCall \in UseStates
  BY ExportFacts
<1>2. CASE processQueuedExport
  <2>1. qjob' \in ExportQueue /\ (qjob'.state = "waiting" => qjob'.attempts < MaxRetries)
    BY <1>1, <1>2, ExportConstants DEF processQueuedExport, ExportQueue
  <2>2. run' \in RunStates
    BY <1>1, <1>2 DEF processQueuedExport, RunStates, Stages
  <2>3. UNCHANGED <<export, use, files, uploads, clear, acked>>
    BY <1>2 DEF processQueuedExport
  <2> QED
    BY <1>1, <2>1, <2>2, <2>3 DEF ExportRows, ExportTypeOK, ExportQueue, RunStates, UseStates
<1>3. CASE StartRun
  <2>1. export' \in Export
    BY <1>1, <1>3 DEF StartRun, Export, ExportStatus
  <2>2. run' \in RunStates
    BY <1>1, <1>3 DEF StartRun, RunStates, Stages
  <2>3. UNCHANGED <<qjob, use, files, uploads, clear, acked>>
    BY <1>3 DEF StartRun
  <2> QED
    BY <1>1, <2>1, <2>2, <2>3 DEF ExportRows, ExportTypeOK, ExportQueue, RunStates, UseStates
<1>4. CASE assertNotCancelled
  <2>1. run' \in RunStates
    BY <1>1, <1>4 DEF assertNotCancelled, Cancelled, RunStates, Stages
  <2>2. UNCHANGED <<export, qjob, use, files, uploads, clear, acked>>
    BY <1>4 DEF assertNotCancelled
  <2> QED
    BY <1>1, <2>1, <2>2 DEF ExportRows, ExportTypeOK, ExportQueue, RunStates, UseStates
<1>5. CASE updateJobProgress
  <2>1. export' \in Export
    BY <1>1, <1>5 DEF updateJobProgress, Export, ExportStatus
  <2>4. run.stage # 3 => run.stage + 1 \in Stages
    BY <1>1 DEF RunStates, Stages
  <2>5. run' = [run EXCEPT !.at = "store"] \/ run' = [run EXCEPT !.at = "check", !.stage = run.stage + 1]
    BY <1>5 DEF updateJobProgress
  <2>2. run' \in RunStates
    BY <1>1, <1>5, <2>4, <2>5 DEF updateJobProgress, RunStates
  <2>3. UNCHANGED <<qjob, use, files, uploads, clear, acked>>
    BY <1>5 DEF updateJobProgress
  <2> QED
    BY <1>1, <2>1, <2>2, <2>3 DEF ExportRows, ExportTypeOK, ExportQueue, RunStates, UseStates
<1>6. CASE StoreFile
  <2>1. uploads' \in Nat /\ files' \subseteq 1..uploads'
    BY <1>1, <1>6 DEF StoreFile
  <2>2. run' \in RunStates
    BY <1>1, <1>6 DEF StoreFile, RunStates, Stages
  <2>3. UNCHANGED <<export, qjob, use, clear, acked>>
    BY <1>6 DEF StoreFile
  <2> QED
    BY <1>1, <2>1, <2>2, <2>3 DEF ExportRows, ExportTypeOK, ExportQueue, RunStates, UseStates
<1>7. CASE CompleteExport
  <2>1. export' \in Export
    BY <1>1, <1>7 DEF CompleteExport, Export, ExportStatus
  <2>2. run' \in RunStates
    BY <1>1, <1>7 DEF CompleteExport, RunStates, Stages
  <2>3. UNCHANGED <<qjob, use, files, uploads, clear, acked>>
    BY <1>7 DEF CompleteExport
  <2> QED
    BY <1>1, <2>1, <2>2, <2>3 DEF ExportRows, ExportTypeOK, ExportQueue, RunStates, UseStates
<1>8. CASE sendExportEmail
  <2>1. qjob' \in ExportQueue /\ (qjob'.state = "waiting" => qjob'.attempts < MaxRetries)
    BY <1>1, <1>8, ExportConstants DEF sendExportEmail, ExportQueue
  <2>2. run' \in RunStates
    BY <1>1, <1>8 DEF sendExportEmail, RunStates, Stages
  <2>3. UNCHANGED <<export, use, files, uploads, clear, acked>>
    BY <1>8 DEF sendExportEmail
  <2> QED
    BY <1>1, <2>1, <2>2, <2>3 DEF ExportRows, ExportTypeOK, ExportQueue, RunStates, UseStates
<1>9. CASE StageFails
  <2>1. run' \in RunStates
    BY <1>1, <1>9 DEF StageFails, Outage, RunStates, Stages
  <2>2. UNCHANGED <<export, qjob, use, files, uploads, clear, acked>>
    BY <1>9 DEF StageFails
  <2> QED
    BY <1>1, <2>1, <2>2 DEF ExportRows, ExportTypeOK, ExportQueue, RunStates, UseStates
<1>10. CASE failJob
  <2>5. run.ends \in ExportStatus
    BY <1>1 DEF RunStates, ExportStatus
  <2>1. export' \in Export
    BY <1>1, <1>10, <2>5 DEF failJob, Export
  <2>2. qjob' \in ExportQueue /\ (qjob'.state = "waiting" => qjob'.attempts < MaxRetries)
    BY <1>1, <1>10, ExportConstants DEF failJob, Again, ExportQueue
  <2>3. run' \in RunStates
    BY <1>1, <1>10 DEF failJob, Again, RunStates, Stages
  <2>4. UNCHANGED <<use, files, uploads, clear, acked>>
    BY <1>10 DEF failJob
  <2> QED
    BY <1>1, <2>1, <2>2, <2>3, <2>4 DEF ExportRows, ExportTypeOK, ExportQueue, RunStates,
       UseStates
<1>11. CASE CrashExports
  <2>1. run' \in RunStates
    BY <1>1, <1>11 DEF CrashExports, Outage, Again, RunStates, Stages
  <2>2. qjob' \in ExportQueue /\ (qjob'.state = "waiting" => qjob'.attempts < MaxRetries)
    BY <1>1, <1>11, ExportConstants DEF CrashExports, Outage, Again, ExportQueue
  <2>3. use' \in [ExportCalls -> UseStates]
    BY <1>1, <1>11 DEF CrashExports, Outage, Again, UseStates
  <2>4. UNCHANGED <<export, files, uploads, clear, acked>>
    BY <1>11 DEF CrashExports
  <2> QED
    BY <1>1, <2>1, <2>2, <2>3, <2>4 DEF ExportRows, ExportTypeOK, ExportQueue, RunStates,
       UseStates
<1>12. CASE PassExpiry
  <2>1. export' \in Export
    BY <1>1, <1>12 DEF PassExpiry, Export, ExportStatus
  <2>2. UNCHANGED <<qjob, run, use, files, uploads, clear, acked>>
    BY <1>12 DEF PassExpiry
  <2> QED
    BY <1>1, <2>1, <2>2 DEF ExportRows, ExportTypeOK, ExportQueue, RunStates, UseStates
<1>13. ASSUME NEW c \in ExportCalls, enqueueExportJob(c) PROVE ExportRows'
  <2>1. qjob' \in ExportQueue /\ (qjob'.state = "waiting" => qjob'.attempts < MaxRetries)
    BY <1>1, <1>13, ExportConstants DEF enqueueExportJob, InUse, Outage, Use, ExportQueue
  <2>2. use' \in [ExportCalls -> UseStates]
    BY <1>1, <1>13 DEF enqueueExportJob, InUse, Outage, Use, UseStates
  <2>3. UNCHANGED <<export, run, files, uploads, clear, acked>>
    BY <1>13 DEF enqueueExportJob
  <2> QED
    BY <1>1, <2>1, <2>2, <2>3 DEF ExportRows, ExportTypeOK, ExportQueue, RunStates, UseStates
<1>14. ASSUME NEW c \in ExportCalls, MarkQueued(c) PROVE ExportRows'
  <2>1. export' \in Export
    BY <1>1, <1>14 DEF MarkQueued, InUse, Leave, Export, ExportStatus
  <2>2. use' \in [ExportCalls -> UseStates]
    BY <1>1, <1>14 DEF MarkQueued, InUse, Leave, UseStates
  <2>3. UNCHANGED <<qjob, run, files, uploads, clear, acked>>
    BY <1>14 DEF MarkQueued
  <2> QED
    BY <1>1, <2>1, <2>2, <2>3 DEF ExportRows, ExportTypeOK, ExportQueue, RunStates, UseStates
<1>15. ASSUME NEW c \in ExportCalls, MarkRefused(c) PROVE ExportRows'
  <2>1. export' \in Export
    BY <1>1, <1>15 DEF MarkRefused, InUse, Leave, Export, ExportStatus
  <2>2. use' \in [ExportCalls -> UseStates]
    BY <1>1, <1>15 DEF MarkRefused, InUse, Leave, UseStates
  <2>3. UNCHANGED <<qjob, run, files, uploads, clear, acked>>
    BY <1>15 DEF MarkRefused
  <2> QED
    BY <1>1, <2>1, <2>2, <2>3 DEF ExportRows, ExportTypeOK, ExportQueue, RunStates, UseStates
<1>16. ASSUME NEW c \in ExportCalls, cancelExport(c) PROVE ExportRows'
  <2>1. use' \in [ExportCalls -> UseStates]
    BY <1>1, <1>16 DEF cancelExport, Called, InUse, UseStates
  <2>2. clear' \subseteq ExportCalls /\ acked' \in BOOLEAN
    BY <1>1, <1>16 DEF cancelExport, Called, InUse
  <2>3. UNCHANGED <<export, qjob, run, files, uploads>>
    BY <1>16 DEF cancelExport, Called
  <2> QED
    BY <1>1, <2>1, <2>2, <2>3 DEF ExportRows, ExportTypeOK, ExportQueue, RunStates, UseStates
<1>17. ASSUME NEW c \in ExportCalls, RemoveQueued(c) PROVE ExportRows'
  <2>1. qjob' \in ExportQueue /\ (qjob'.state = "waiting" => qjob'.attempts < MaxRetries)
    BY <1>1, <1>17, ExportConstants DEF RemoveQueued, InUse, Leave, Use, ExportQueue
  <2>2. use' \in [ExportCalls -> UseStates]
    BY <1>1, <1>17 DEF RemoveQueued, InUse, Leave, Use, UseStates
  <2>3. UNCHANGED <<export, run, files, uploads, clear, acked>>
    BY <1>17 DEF RemoveQueued
  <2> QED
    BY <1>1, <2>1, <2>2, <2>3 DEF ExportRows, ExportTypeOK, ExportQueue, RunStates, UseStates
<1>18. ASSUME NEW c \in ExportCalls, RequestCancellation(c) PROVE ExportRows'
  <2>1. export' \in Export
    BY <1>1, <1>18 DEF RequestCancellation, InUse, Use, Export, ExportStatus
  <2>2. use' \in [ExportCalls -> UseStates]
    BY <1>1, <1>18 DEF RequestCancellation, InUse, Use, UseStates
  <2>3. UNCHANGED <<qjob, run, files, uploads, clear, acked>>
    BY <1>18 DEF RequestCancellation
  <2> QED
    BY <1>1, <2>1, <2>2, <2>3 DEF ExportRows, ExportTypeOK, ExportQueue, RunStates, UseStates
<1>19. ASSUME NEW c \in ExportCalls, MarkCancelled(c) PROVE ExportRows'
  <2>1. export' \in Export
    BY <1>1, <1>19 DEF MarkCancelled, InUse, Leave, Export, ExportStatus
  <2>2. use' \in [ExportCalls -> UseStates]
    BY <1>1, <1>19 DEF MarkCancelled, InUse, Leave, UseStates
  <2>3. clear' \subseteq ExportCalls /\ acked' \in BOOLEAN
    BY <1>1, <1>19 DEF MarkCancelled, InUse, Leave
  <2>4. UNCHANGED <<qjob, run, files, uploads>>
    BY <1>19 DEF MarkCancelled
  <2> QED
    BY <1>1, <2>1, <2>2, <2>3, <2>4 DEF ExportRows, ExportTypeOK, ExportQueue, RunStates,
       UseStates
<1>20. ASSUME NEW c \in ExportCalls, retryExport(c) PROVE ExportRows'
  <2>1. use' \in [ExportCalls -> UseStates]
    BY <1>1, <1>20 DEF retryExport, Called, InUse, UseStates
  <2>2. UNCHANGED <<export, qjob, run, files, uploads, clear, acked>>
    BY <1>20 DEF retryExport, Called
  <2> QED
    BY <1>1, <2>1, <2>2 DEF ExportRows, ExportTypeOK, ExportQueue, RunStates, UseStates
<1>21. ASSUME NEW c \in ExportCalls, ResetExport(c) PROVE ExportRows'
  <2>1. export' \in Export
    BY <1>1, <1>21 DEF ResetExport, InUse, Use, Export, ExportStatus
  <2>2. run' \in RunStates
    BY <1>1, <1>21 DEF ResetExport, InUse, Use, RunStates, Stages
  <2>3. use' \in [ExportCalls -> UseStates]
    BY <1>1, <1>21 DEF ResetExport, InUse, Use, UseStates
  <2>4. clear' \subseteq ExportCalls /\ acked' \in BOOLEAN
    BY <1>1, <1>21 DEF ResetExport, InUse, Use
  <2>5. UNCHANGED <<qjob, files, uploads>>
    BY <1>21 DEF ResetExport
  <2> QED
    BY <1>1, <2>1, <2>2, <2>3, <2>4, <2>5 DEF ExportRows, ExportTypeOK, ExportQueue, RunStates,
       UseStates
<1>22. ASSUME NEW c \in ExportCalls, expireJob(c) PROVE ExportRows'
  <2>1. use' \in [ExportCalls -> UseStates]
    BY <1>1, <1>22 DEF expireJob, Called, InUse, UseStates
  <2>2. UNCHANGED <<export, qjob, run, files, uploads, clear, acked>>
    BY <1>22 DEF expireJob, Called
  <2> QED
    BY <1>1, <2>1, <2>2 DEF ExportRows, ExportTypeOK, ExportQueue, RunStates, UseStates
<1>23. ASSUME NEW c \in ExportCalls, DeleteFile(c) PROVE ExportRows'
  <2>1. uploads' \in Nat /\ files' \subseteq 1..uploads'
    BY <1>1, <1>23 DEF DeleteFile, InUse, Use
  <2>2. use' \in [ExportCalls -> UseStates]
    BY <1>1, <1>23 DEF DeleteFile, InUse, Use, UseStates
  <2>3. UNCHANGED <<export, qjob, run, clear, acked>>
    BY <1>23 DEF DeleteFile
  <2> QED
    BY <1>1, <2>1, <2>2, <2>3 DEF ExportRows, ExportTypeOK, ExportQueue, RunStates, UseStates
<1>24. ASSUME NEW c \in ExportCalls, MarkExpired(c) PROVE ExportRows'
  <2>1. export' \in Export
    BY <1>1, <1>24 DEF MarkExpired, InUse, Leave, NoFile, Export, ExportStatus
  <2>2. use' \in [ExportCalls -> UseStates]
    BY <1>1, <1>24 DEF MarkExpired, InUse, Leave, NoFile, UseStates
  <2>3. UNCHANGED <<qjob, run, files, uploads, clear, acked>>
    BY <1>24 DEF MarkExpired
  <2> QED
    BY <1>1, <2>1, <2>2, <2>3 DEF ExportRows, ExportTypeOK, ExportQueue, RunStates, UseStates
<1>25. ASSUME NEW c \in ExportCalls, downloadExport(c) PROVE ExportRows'
  <2>1. use' \in [ExportCalls -> UseStates]
    BY <1>1, <1>25 DEF downloadExport, Called, InUse, UseStates
  <2>2. UNCHANGED <<export, qjob, run, files, uploads, clear, acked>>
    BY <1>25 DEF downloadExport, Called
  <2> QED
    BY <1>1, <2>1, <2>2 DEF ExportRows, ExportTypeOK, ExportQueue, RunStates, UseStates
<1>26. ASSUME NEW c \in ExportCalls, Download(c) PROVE ExportRows'
  <2>1. export' \in Export
    BY <1>1, <1>26 DEF Download, InUse, Leave, Export, ExportStatus
  <2>2. use' \in [ExportCalls -> UseStates]
    BY <1>1, <1>26 DEF Download, InUse, Leave, UseStates
  <2>3. UNCHANGED <<qjob, run, files, uploads, clear, acked>>
    BY <1>26 DEF Download
  <2> QED
    BY <1>1, <2>1, <2>2, <2>3 DEF ExportRows, ExportTypeOK, ExportQueue, RunStates, UseStates
<1> QED
  BY <1>2, <1>3, <1>4, <1>5, <1>6, <1>7, <1>8, <1>9, <1>10, <1>11, <1>12, <1>13, <1>14, <1>15,
     <1>16, <1>17, <1>18, <1>19, <1>20, <1>21, <1>22, <1>23, <1>24, <1>25, <1>26, Zenon DEF
     ExportNext

LEMMA KeysStep ==
    ASSUME ExportInv, ExportNext
    PROVE  KeysFit'
<1>1. CASE processQueuedExport
  BY <1>1, ExportFacts DEF processQueuedExport, NoRun, KeysFit, Export, RunStates, UseStates,
     NoFile, NoCall, NewExport
<1>2. CASE StartRun
  BY <1>2, ExportFacts DEF StartRun, KeysFit, Export, RunStates, UseStates, NoFile, NoCall,
     NewExport
<1>3. CASE assertNotCancelled
  BY <1>3, ExportFacts DEF assertNotCancelled, Cancelled, KeysFit, Export, RunStates, UseStates,
     NoFile, NoCall, NewExport
<1>4. CASE updateJobProgress
  BY <1>4, ExportFacts DEF updateJobProgress, KeysFit, Export, RunStates, UseStates, NoFile,
     NoCall, NewExport
<1>5. CASE StoreFile
  BY <1>5, ExportFacts DEF StoreFile, KeysFit, Export, RunStates, UseStates, NoFile, NoCall,
     NewExport
<1>6. CASE CompleteExport
  BY <1>6, ExportFacts DEF CompleteExport, KeysFit, Export, RunStates, UseStates, NoFile, NoCall,
     NewExport
<1>7. CASE sendExportEmail
  BY <1>7, ExportFacts DEF sendExportEmail, NoRun, KeysFit, Export, RunStates, UseStates, NoFile,
     NoCall, NewExport
<1>8. CASE StageFails
  BY <1>8, ExportFacts DEF StageFails, Outage, KeysFit, Export, RunStates, UseStates, NoFile,
     NoCall, NewExport
<1>9. CASE failJob
  BY <1>9, ExportFacts DEF failJob, Again, NoRun, KeysFit, Export, RunStates, UseStates, NoFile,
     NoCall, NewExport
<1>10. CASE CrashExports
  BY <1>10, ExportFacts DEF CrashExports, Outage, Again, NoRun, KeysFit, Export, RunStates,
     UseStates, NoFile, NoCall, NewExport
<1>11. CASE PassExpiry
  BY <1>11, ExportFacts DEF PassExpiry, KeysFit, Export, RunStates, UseStates, NoFile, NoCall,
     NewExport
<1>12. ASSUME NEW c \in ExportCalls, enqueueExportJob(c) PROVE KeysFit'
  BY <1>12, ExportFacts DEF enqueueExportJob, InUse, Outage, Use, KeysFit, Export, RunStates,
     UseStates, NoFile, NoCall, NewExport
<1>13. ASSUME NEW c \in ExportCalls, MarkQueued(c) PROVE KeysFit'
  BY <1>13, ExportFacts DEF MarkQueued, InUse, Leave, KeysFit, Export, RunStates, UseStates,
     NoFile, NoCall, NewExport
<1>14. ASSUME NEW c \in ExportCalls, MarkRefused(c) PROVE KeysFit'
  BY <1>14, ExportFacts DEF MarkRefused, InUse, Leave, KeysFit, Export, RunStates, UseStates,
     NoFile, NoCall, NewExport
<1>15. ASSUME NEW c \in ExportCalls, cancelExport(c) PROVE KeysFit'
  BY <1>15, ExportFacts DEF cancelExport, Called, InUse, KeysFit, Export, RunStates, UseStates,
     NoFile, NoCall, NewExport
<1>16. ASSUME NEW c \in ExportCalls, RemoveQueued(c) PROVE KeysFit'
  BY <1>16, ExportFacts DEF RemoveQueued, InUse, Leave, Use, KeysFit, Export, RunStates,
     UseStates, NoFile, NoCall, NewExport
<1>17. ASSUME NEW c \in ExportCalls, RequestCancellation(c) PROVE KeysFit'
  BY <1>17, ExportFacts DEF RequestCancellation, InUse, Use, KeysFit, Export, RunStates,
     UseStates, NoFile, NoCall, NewExport
<1>18. ASSUME NEW c \in ExportCalls, MarkCancelled(c) PROVE KeysFit'
  BY <1>18, ExportFacts DEF MarkCancelled, InUse, Leave, KeysFit, Export, RunStates, UseStates,
     NoFile, NoCall, NewExport
<1>19. ASSUME NEW c \in ExportCalls, retryExport(c) PROVE KeysFit'
  BY <1>19, ExportFacts DEF retryExport, Called, InUse, KeysFit, Export, RunStates, UseStates,
     NoFile, NoCall, NewExport
<1>20. ASSUME NEW c \in ExportCalls, ResetExport(c) PROVE KeysFit'
  BY <1>20, ExportFacts DEF ResetExport, InUse, Use, NewExport, KeysFit, Export, RunStates,
     UseStates, NoFile, NoCall
<1>21. ASSUME NEW c \in ExportCalls, expireJob(c) PROVE KeysFit'
  BY <1>21, ExportFacts DEF expireJob, Called, InUse, KeysFit, Export, RunStates, UseStates,
     NoFile, NoCall, NewExport
<1>22. ASSUME NEW c \in ExportCalls, DeleteFile(c) PROVE KeysFit'
  BY <1>22, ExportFacts DEF DeleteFile, InUse, Use, KeysFit, Export, RunStates, UseStates,
     NoFile, NoCall, NewExport
<1>23. ASSUME NEW c \in ExportCalls, MarkExpired(c) PROVE KeysFit'
  BY <1>23, ExportFacts DEF MarkExpired, InUse, Leave, NoFile, KeysFit, Export, RunStates,
     UseStates, NoCall, NewExport
<1>24. ASSUME NEW c \in ExportCalls, downloadExport(c) PROVE KeysFit'
  BY <1>24, ExportFacts DEF downloadExport, Called, InUse, KeysFit, Export, RunStates, UseStates,
     NoFile, NoCall, NewExport
<1>25. ASSUME NEW c \in ExportCalls, Download(c) PROVE KeysFit'
  BY <1>25, ExportFacts DEF Download, InUse, Leave, KeysFit, Export, RunStates, UseStates,
     NoFile, NoCall, NewExport
<1> QED
  BY <1>1, <1>2, <1>3, <1>4, <1>5, <1>6, <1>7, <1>8, <1>9, <1>10, <1>11, <1>12, <1>13, <1>14,
     <1>15, <1>16, <1>17, <1>18, <1>19, <1>20, <1>21, <1>22, <1>23, <1>24, <1>25, Zenon DEF
     ExportNext

LEMMA CancelsStep ==
    ASSUME ExportInv, ExportNext
    PROVE  CancelsHold'
<1>1. CASE processQueuedExport
  BY <1>1, ExportFacts DEF processQueuedExport, NoRun, CancelsHold, Stopped, Export, RunStates,
     UseStates, ExportQueue, NoCall
<1>2. CASE StartRun
  BY <1>2, ExportFacts DEF StartRun, CancelsHold, Stopped, Export, RunStates, UseStates,
     ExportQueue, NoCall
<1>3. CASE assertNotCancelled
  BY <1>3, ExportFacts DEF assertNotCancelled, Cancelled, CancelsHold, Stopped, Export,
     RunStates, UseStates, ExportQueue, NoCall
<1>4. CASE updateJobProgress
  BY <1>4, ExportFacts DEF updateJobProgress, CancelsHold, Stopped, Export, RunStates, UseStates,
     ExportQueue, NoCall
<1>5. CASE StoreFile
  BY <1>5, ExportFacts DEF StoreFile, CancelsHold, Stopped, Export, RunStates, UseStates,
     ExportQueue, NoCall
<1>6. CASE CompleteExport
  BY <1>6, ExportFacts DEF CompleteExport, CancelsHold, Stopped, Export, RunStates, UseStates,
     ExportQueue, NoCall
<1>7. CASE sendExportEmail
  BY <1>7, ExportFacts DEF sendExportEmail, NoRun, CancelsHold, Stopped, Export, RunStates,
     UseStates, ExportQueue, NoCall
<1>8. CASE StageFails
  BY <1>8, ExportFacts DEF StageFails, Outage, CancelsHold, Stopped, Export, RunStates,
     UseStates, ExportQueue, NoCall
<1>9. CASE failJob
  BY <1>9, ExportFacts DEF failJob, Again, NoRun, CancelsHold, Stopped, Export, RunStates,
     UseStates, ExportQueue, NoCall
<1>10. CASE CrashExports
  BY <1>10, ExportFacts DEF CrashExports, Outage, Again, NoRun, CancelsHold, Stopped, Export,
     RunStates, UseStates, ExportQueue, NoCall
<1>11. CASE PassExpiry
  BY <1>11, ExportFacts DEF PassExpiry, CancelsHold, Stopped, Export, RunStates, UseStates,
     ExportQueue, NoCall
<1>12. ASSUME NEW c \in ExportCalls, enqueueExportJob(c) PROVE CancelsHold'
  BY <1>12, ExportFacts DEF enqueueExportJob, InUse, Outage, Use, CancelsHold, Stopped, Export,
     RunStates, UseStates, ExportQueue, NoCall
<1>13. ASSUME NEW c \in ExportCalls, MarkQueued(c) PROVE CancelsHold'
  BY <1>13, ExportFacts DEF MarkQueued, InUse, Leave, CancelsHold, Stopped, Export, RunStates,
     UseStates, ExportQueue, NoCall
<1>14. ASSUME NEW c \in ExportCalls, MarkRefused(c) PROVE CancelsHold'
  BY <1>14, ExportFacts DEF MarkRefused, InUse, Leave, CancelsHold, Stopped, Export, RunStates,
     UseStates, ExportQueue, NoCall
<1>15. ASSUME NEW c \in ExportCalls, cancelExport(c) PROVE CancelsHold'
  BY <1>15, ExportFacts DEF cancelExport, Called, InUse, CancelsHold, Stopped, Export, RunStates,
     UseStates, ExportQueue, NoCall
<1>16. ASSUME NEW c \in ExportCalls, RemoveQueued(c) PROVE CancelsHold'
  <2>1. CASE qjob.state = "active"
    BY <1>16, <2>1, ExportFacts DEF RemoveQueued, InUse, Leave, CancelsHold, Stopped, NoCall
  <2>2. CASE qjob.state # "active"
    <3>1. /\ use' = [use EXCEPT ![c].at = "cancel"] /\ qjob'.state = "none"
          /\ UNCHANGED <<export, run, clear, acked>>
      BY <1>16, <2>2 DEF RemoveQueued, Use
    <3>2. \A b \in ExportCalls : use'[b].at = "add" => use[b].at = "add"
      BY <3>1, ExportFacts DEF UseStates
    <3>3. Stopped'
      BY <3>1 DEF Stopped
    <3> QED
      BY <2>2, <3>1, <3>2, <3>3, ExportFacts DEF CancelsHold
  <2> QED
    BY <2>1, <2>2
<1>17. ASSUME NEW c \in ExportCalls, RequestCancellation(c) PROVE CancelsHold'
  BY <1>17, ExportFacts DEF RequestCancellation, InUse, Use, CancelsHold, Stopped, Export,
     RunStates, UseStates, ExportQueue, NoCall
<1>18. ASSUME NEW c \in ExportCalls, MarkCancelled(c) PROVE CancelsHold'
  BY <1>18, ExportFacts DEF MarkCancelled, InUse, Leave, CancelsHold, Stopped, Export, RunStates,
     UseStates, ExportQueue, NoCall
<1>19. ASSUME NEW c \in ExportCalls, retryExport(c) PROVE CancelsHold'
  BY <1>19, ExportFacts DEF retryExport, Called, InUse, CancelsHold, Stopped, Export, RunStates,
     UseStates, ExportQueue, NoCall
<1>20. ASSUME NEW c \in ExportCalls, ResetExport(c) PROVE CancelsHold'
  BY <1>20, ExportFacts DEF ResetExport, InUse, Use, NewExport, CancelsHold, Stopped, Export,
     RunStates, UseStates, ExportQueue, NoCall
<1>21. ASSUME NEW c \in ExportCalls, expireJob(c) PROVE CancelsHold'
  BY <1>21, ExportFacts DEF expireJob, Called, InUse, CancelsHold, Stopped, Export, RunStates,
     UseStates, ExportQueue, NoCall
<1>22. ASSUME NEW c \in ExportCalls, DeleteFile(c) PROVE CancelsHold'
  BY <1>22, ExportFacts DEF DeleteFile, InUse, Use, CancelsHold, Stopped, Export, RunStates,
     UseStates, ExportQueue, NoCall
<1>23. ASSUME NEW c \in ExportCalls, MarkExpired(c) PROVE CancelsHold'
  BY <1>23, ExportFacts DEF MarkExpired, InUse, Leave, NoFile, CancelsHold, Stopped, Export,
     RunStates, UseStates, ExportQueue, NoCall
<1>24. ASSUME NEW c \in ExportCalls, downloadExport(c) PROVE CancelsHold'
  BY <1>24, ExportFacts DEF downloadExport, Called, InUse, CancelsHold, Stopped, Export,
     RunStates, UseStates, ExportQueue, NoCall
<1>25. ASSUME NEW c \in ExportCalls, Download(c) PROVE CancelsHold'
  BY <1>25, ExportFacts DEF Download, InUse, Leave, CancelsHold, Stopped, Export, RunStates,
     UseStates, ExportQueue, NoCall
<1> QED
  BY <1>1, <1>2, <1>3, <1>4, <1>5, <1>6, <1>7, <1>8, <1>9, <1>10, <1>11, <1>12, <1>13, <1>14,
     <1>15, <1>16, <1>17, <1>18, <1>19, <1>20, <1>21, <1>22, <1>23, <1>24, <1>25, Zenon DEF
     ExportNext

LEMMA ExportInitInv == ExportInit => ExportInv
<1> SUFFICES ASSUME ExportInit PROVE ExportInv
  OBVIOUS
<1>1. /\ NewExport \in Export /\ NewExport.key = NoFile /\ NewExport.status = "pending"
      /\ NoRun \in RunStates /\ NoRun.at = "none" /\ ~NoRun.doomed
      /\ NoCall.at = "idle" /\ NoCall.read = NewExport
  BY DEF NewExport, Export, ExportStatus, NoFile, NoRun, RunStates, Stages, NoCall
<1>2. NoCall \in UseStates /\ [NoCall EXCEPT !.at = "add"] \in UseStates
  BY <1>1 DEF NoCall, UseStates
<1>3. use \in [ExportCalls -> UseStates]
      /\ \A c \in ExportCalls : use[c].read = NewExport /\ use[c].at \in {"idle", "add"}
  BY <1>1, <1>2 DEF ExportInit, UseStates, NoCall
<1>4. /\ export = NewExport /\ files = {} /\ uploads = 0 /\ run = NoRun
      /\ clear = {} /\ ~acked /\ acked \in BOOLEAN
  BY DEF ExportInit
<1>5. qjob \in ExportQueue /\ qjob.state = "none"
  BY ExportConstants DEF ExportInit, ExportQueue
<1>6. ExportRows
  BY <1>1, <1>3, <1>4, <1>5 DEF ExportRows, ExportTypeOK, UseStates, RunStates, ExportQueue
<1>7. KeysFit
  BY <1>1, <1>3, <1>4 DEF KeysFit, NoFile
<1>8. CancelsHold
  BY <1>1, <1>3, <1>4, <1>5 DEF CancelsHold
<1> QED
  BY <1>6, <1>7, <1>8 DEF ExportInv

LEMMA ExportStepInv == ExportInv /\ [ExportNext]_exportVars => ExportInv'
<1>1. ASSUME ExportInv, ExportNext PROVE ExportInv'
  BY <1>1, RowsStep, KeysStep, CancelsStep DEF ExportInv
<1>2. ASSUME ExportInv, UNCHANGED exportVars PROVE ExportInv'
  BY <1>2 DEF ExportInv, ExportRows, ExportTypeOK, KeysFit, CancelsHold, Stopped, exportVars
<1> QED
  BY <1>1, <1>2

\* An export that says COMPLETED names a file that is there until it expires, and a run
\* that starts after a cancellation was confirmed never gets as far as a file.
THEOREM ExportsComplete == ExportSpec => []CompletedHasFile
<1>1. ExportInv => CompletedHasFile
  BY DEF ExportInv, KeysFit, CancelsHold, CompletedHasFile
<1> QED
  BY <1>1, ExportInitInv, ExportStepInv, PTL DEF ExportSpec

-----------------------------------------------------------------------------
(* Proposals *)

CallRows == [at : Steps, voter : Voters \cup {Unvoted}, side : Sides, now : 0..LastHour,
             read : Proposal, seen : SUBSET Voters, executes : BOOLEAN]

\* The votes among those of a list.
VotedIn(b)        == {v \in Voters : b[v] # Unvoted}
CastIn(b, s, vs)  == {v \in vs : b[v] = s}

\* A copy of the row counts at most the votes that were there when it was read.
TallyFits(r, b, vs) == \A s \in Sides : r.tally[s] <= Cardinality(CastIn(b, s, vs))

\* A copy that may be executed has met the quorum, with votes for it and its timelock.
Carried(r) ==
    r.status \in {"queued", "executed"} =>
        Quorate(r) /\ r.tally["for"] >= 1 /\ r.eta >= VotingEnd + Delay

\* A call holds a copy of the row, and a vote it has stored is not in that copy.
CallFits(q, b, h, quorum) ==
    /\ q.seen \subseteq VotedIn(b) /\ q.now <= h
    /\ TallyFits(q.read, b, q.seen) /\ Carried(q.read)
    /\ q.at # "idle" => q.read.quorum = quorum
    /\ q.at \in {"check", "activate", "vote-typed", "find", "store", "tally"} => q.voter \in Voters
    /\ q.at = "tally" => q.voter \notin q.seen /\ b[q.voter] = q.side
    /\ q.at \in {"act", "done"} => q.read.status = "queued" /\ q.now >= q.read.eta

\* What executing the proposal took.
WasCarried(b, h, quorum) ==
    /\ Cardinality(VotedIn(b)) * 100 >= TotalPower * quorum
    /\ \E v \in Voters : b[v] = "for"
    /\ h >= VotingEnd + Delay

\* Copies of the row are older than the row, and votes are never withdrawn: what was
\* enough when a handler looked at it is enough when it writes.
GovernanceInv ==
    /\ GovernanceTypeOK /\ executed \in BOOLEAN
    /\ IsFiniteSet(Voted)
    /\ TallyFits(proposal, ballot, Voted) /\ Carried(proposal)
    /\ \A c \in Callers : CallFits(request[c], ballot, hour, proposal.quorum)
    /\ executed => WasCarried(ballot, hour, proposal.quorum)

LEMMA GovernanceFacts ==
    ASSUME GovernanceInv
    PROVE  /\ proposal \in Proposal /\ ballot \in [Voters -> Sides \cup {Unvoted}]
           /\ request \in [Callers -> CallRows] /\ hour \in 0..LastHour /\ executed \in BOOLEAN
           /\ IsFiniteSet(Voted) /\ Voted = VotedIn(ballot)
           /\ TallyFits(proposal, ballot, Voted) /\ Carried(proposal)
           /\ \A c \in Callers : CallFits(request[c], ballot, hour, proposal.quorum)
           /\ executed => WasCarried(ballot, hour, proposal.quorum)
           /\ TotalPower \in Nat /\ LastHour \in Nat /\ VotingEnd \in Nat /\ Delay \in Nat
           /\ Quorums \subseteq 1..100 /\ Unvoted \notin Sides
BY GovernanceConstants DEF GovernanceInv, GovernanceTypeOK, CallRows, Voted, VotedIn

LEMMA FewerVotes ==
    ASSUME NEW b, NEW vs, NEW ws, IsFiniteSet(ws), vs \subseteq ws, NEW s
    PROVE  /\ IsFiniteSet(CastIn(b, s, ws)) /\ CastIn(b, s, vs) \subseteq CastIn(b, s, ws)
           /\ Cardinality(CastIn(b, s, vs)) \in Nat /\ Cardinality(CastIn(b, s, ws)) \in Nat
           /\ Cardinality(CastIn(b, s, vs)) <= Cardinality(CastIn(b, s, ws))
<1>1. CastIn(b, s, ws) \subseteq ws /\ CastIn(b, s, vs) \subseteq CastIn(b, s, ws)
  BY DEF CastIn
<1>2. IsFiniteSet(CastIn(b, s, ws))
  BY <1>1, FS_Subset
<1> QED
  BY <1>1, <1>2, FS_Subset, FS_CardinalityType

\* A copy stays right as votes are added.
LEMMA TallyStays ==
    ASSUME NEW r \in Proposal, NEW b, NEW vs, NEW ws, IsFiniteSet(ws), vs \subseteq ws,
           TallyFits(r, b, vs)
    PROVE  TallyFits(r, b, ws)
<1> SUFFICES ASSUME NEW s \in Sides PROVE r.tally[s] <= Cardinality(CastIn(b, s, ws))
  BY DEF TallyFits
<1>1. r.tally[s] \in Nat /\ r.tally[s] <= Cardinality(CastIn(b, s, vs))
  BY DEF TallyFits, Proposal
<1>2. /\ Cardinality(CastIn(b, s, vs)) \in Nat /\ Cardinality(CastIn(b, s, ws)) \in Nat
      /\ Cardinality(CastIn(b, s, vs)) <= Cardinality(CastIn(b, s, ws))
  BY FewerVotes
<1> QED
  BY <1>1, <1>2

LEMMA SavedFits ==
    ASSUME GovernanceInv, NEW c \in Callers
    PROVE  TallyFits(request[c].read, ballot, Voted)
<1>1. /\ request[c].read \in Proposal /\ request[c].seen \subseteq Voted /\ IsFiniteSet(Voted)
      /\ TallyFits(request[c].read, ballot, request[c].seen)
  BY GovernanceFacts DEF CallRows, CallFits
<1> QED
  BY <1>1, TallyStays

LEMMA IdleFits ==
    ASSUME GovernanceInv, NEW quorum
    PROVE  Idle \in CallRows /\ Idle.at = "idle" /\ CallFits(Idle, ballot, hour, quorum)
<1> DEFINE r == [status |-> "pending", tally |-> [s \in Sides |-> 0], eta |-> 0,
                 quorum |-> CHOOSE q \in Quorums : TRUE]
<1>1. (CHOOSE q \in Quorums : TRUE) \in Quorums
  BY GovernanceFacts DEF Proposal
<1>2. /\ r \in Proposal /\ r.status = "pending" /\ r.tally = [s \in Sides |-> 0]
  BY <1>1, GovernanceFacts DEF Proposal, ProposalStatus, Times
<1> HIDE DEF r
<1>3. /\ Idle.at = "idle" /\ Idle.voter = Unvoted /\ Idle.read = r /\ Idle.seen = {} /\ Idle.now = 0
      /\ Idle.side = "for" /\ Idle.executes = FALSE
  BY DEF Idle, r
<1>4. Idle \in CallRows
  BY <1>2, GovernanceFacts DEF Idle, r, CallRows, Steps, Sides
<1>5. TallyFits(r, ballot, {})
  <2> SUFFICES ASSUME NEW s \in Sides PROVE r.tally[s] <= Cardinality(CastIn(ballot, s, {}))
    BY DEF TallyFits
  <2>1. CastIn(ballot, s, {}) = {} /\ r.tally[s] = 0
    BY <1>2 DEF CastIn
  <2> QED
    BY <2>1, FS_EmptySet
<1>6. Carried(r)
  BY <1>2 DEF Carried
<1> QED
  BY <1>3, <1>4, <1>5, <1>6, GovernanceFacts DEF CallFits

\* One call moves on, and may save the row and execute the actions; no vote is added.
LEMMA GovernanceCallStep ==
    ASSUME GovernanceInv, NEW c \in Callers, NEW q \in CallRows,
           request' = [request EXCEPT ![c] = q], ballot' = ballot, hour' = hour,
           proposal' \in Proposal, proposal'.quorum = proposal.quorum,
           TallyFits(proposal', ballot, Voted), Carried(proposal'),
           CallFits(q, ballot, hour, proposal.quorum),
           executed' \in BOOLEAN, executed' => executed \/ WasCarried(ballot, hour, proposal.quorum)
    PROVE  GovernanceInv'
<1>1. Voted' = Voted
  BY DEF Voted
<1>2. request' \in [Callers -> CallRows]
  BY GovernanceFacts
<1>3. ASSUME NEW d \in Callers PROVE CallFits(request'[d], ballot', hour', proposal'.quorum)
  <2>1. request'[d] = q \/ request'[d] = request[d]
    BY GovernanceFacts
  <2> QED
    BY <2>1, GovernanceFacts
<1>4. executed' => WasCarried(ballot', hour', proposal'.quorum)
  BY GovernanceFacts
<1>5. GovernanceTypeOK'
  BY <1>2, GovernanceFacts DEF GovernanceTypeOK, CallRows
<1>6. TallyFits(proposal', ballot', Voted') /\ Carried(proposal') /\ IsFiniteSet(Voted')
  BY <1>1, GovernanceFacts
<1> QED
  BY <1>3, <1>4, <1>5, <1>6 DEF GovernanceInv, Carried, Quorate, SumOfVotes
LEMMA CallMoves ==
    ASSUME GovernanceInv, NEW c \in Callers, NEW q \in CallRows,
           request' = [request EXCEPT ![c] = q],
           UNCHANGED <<proposal, ballot, hour, executed>>,
           CallFits(q, ballot, hour, proposal.quorum)
    PROVE  GovernanceInv'
<1>1. /\ ballot' = ballot /\ hour' = hour /\ proposal' = proposal /\ executed' = executed
  OBVIOUS
<1>2. /\ proposal' \in Proposal /\ proposal'.quorum = proposal.quorum
      /\ TallyFits(proposal', ballot, Voted) /\ Carried(proposal')
      /\ executed' \in BOOLEAN
  BY <1>1, GovernanceFacts
<1>3. executed' => executed \/ WasCarried(ballot, hour, proposal.quorum)
  BY <1>1
<1> HIDE DEF GovernanceInv
<1> QED
  BY <1>1, <1>2, <1>3, GovernanceCallStep

LEMMA CallSaves ==
    ASSUME GovernanceInv, NEW c \in Callers, NEW q \in CallRows, NEW saved \in Proposal,
           Save(c, saved, request' = [request EXCEPT ![c] = q]),
           UNCHANGED <<ballot, hour, executed>>,
           CallFits(q, ballot, hour, proposal.quorum),
           saved.quorum = proposal.quorum, TallyFits(saved, ballot, Voted), Carried(saved)
    PROVE  GovernanceInv'
<1>1. CASE proposal' = saved /\ request' = [request EXCEPT ![c] = q]
  <2>1. /\ ballot' = ballot /\ hour' = hour /\ executed' = executed
    OBVIOUS
  <2>2. /\ proposal' \in Proposal /\ proposal'.quorum = proposal.quorum
        /\ TallyFits(proposal', ballot, Voted) /\ Carried(proposal')
        /\ request' = [request EXCEPT ![c] = q]
    BY <1>1
  <2>3. executed' \in BOOLEAN /\ (executed' => executed \/ WasCarried(ballot, hour, proposal.quorum))
    BY <2>1, GovernanceFacts
  <2> QED
    BY <2>1, <2>2, <2>3, GovernanceCallStep
<1>2. CASE Done(c) /\ UNCHANGED proposal
  <2>1. Idle \in CallRows /\ CallFits(Idle, ballot, hour, proposal.quorum)
    BY IdleFits
  <2>2. request' = [request EXCEPT ![c] = Idle] /\ UNCHANGED <<proposal, ballot, hour, executed>>
    BY <1>2 DEF Done
  <2> QED
    BY <2>1, <2>2, CallMoves
<1> QED
  BY <1>1, <1>2 DEF Save

LEMMA CallEnds ==
    ASSUME GovernanceInv, NEW c \in Callers, Done(c),
           UNCHANGED <<proposal, ballot, hour, executed>>
    PROVE  GovernanceInv'
<1>1. Idle \in CallRows /\ CallFits(Idle, ballot, hour, proposal.quorum)
  BY IdleFits
<1>2. request' = [request EXCEPT ![c] = Idle]
  BY DEF Done
<1> QED
  BY <1>1, <1>2, CallMoves

LEMMA RequestFacts ==
    ASSUME GovernanceInv, NEW c \in Callers
    PROVE  /\ request[c] \in CallRows /\ request[c].read \in Proposal
           /\ request[c].seen \subseteq Voted
           /\ CallFits(request[c], ballot, hour, proposal.quorum)
BY GovernanceFacts DEF CallRows, CallFits

LEMMA PlaceFits ==
    ASSUME GovernanceInv, NEW c \in Callers, NEW place \in Steps, request[c].at # "idle",
           place \in {"check", "activate", "vote-typed", "find", "store", "tally"} =>
             request[c].voter \in Voters,
           place = "tally" => /\ request[c].voter \notin request[c].seen
                              /\ ballot[request[c].voter] = request[c].side,
           place \in {"act", "done"} => /\ request[c].read.status = "queued"
                                        /\ request[c].now >= request[c].read.eta
    PROVE  /\ [request[c] EXCEPT !.at = place] \in CallRows
           /\ CallFits([request[c] EXCEPT !.at = place], ballot, hour, proposal.quorum)
<1> DEFINE q == [request[c] EXCEPT !.at = place]
<1>1. q \in CallRows
  BY RequestFacts DEF CallRows
<1>2. /\ q.at = place /\ q.voter = request[c].voter /\ q.side = request[c].side
      /\ q.now = request[c].now /\ q.read = request[c].read /\ q.seen = request[c].seen
  BY RequestFacts DEF CallRows
<1> HIDE DEF q
<1>3. CallFits(q, ballot, hour, proposal.quorum)
  BY <1>2, RequestFacts DEF CallFits
<1> QED
  BY <1>1, <1>3 DEF q

LEMMA CallGoes ==
    ASSUME GovernanceInv, NEW c \in Callers, NEW place \in Steps \ {"tally", "act", "done"},
           request[c].at # "idle", Move(c, place),
           place \in {"check", "activate", "vote-typed", "find", "store"} => request[c].voter \in Voters,
           UNCHANGED <<proposal, ballot, hour, executed>>
    PROVE  GovernanceInv'
<1>1. /\ [request[c] EXCEPT !.at = place] \in CallRows
      /\ CallFits([request[c] EXCEPT !.at = place], ballot, hour, proposal.quorum)
  BY PlaceFits
<1>2. request' = [request EXCEPT ![c] = [request[c] EXCEPT !.at = place]]
  BY GovernanceFacts DEF Move
<1> QED
  BY <1>1, <1>2, CallMoves
LEMMA GovernanceLoadStep ==
    ASSUME GovernanceInv, NEW c \in Callers, NEW kind \in Steps \ {"idle", "tally", "act", "done"},
           NEW voter \in Voters \cup {Unvoted}, NEW s \in Sides, Load(c, kind, voter, s),
           kind \in {"check", "activate", "vote-typed", "find", "store"} => voter \in Voters
    PROVE  GovernanceInv'
<1> DEFINE q == [Idle EXCEPT !.at = kind, !.voter = voter, !.side = s, !.read = proposal,
                             !.seen = Voted]
<1>1. Idle \in CallRows /\ CallFits(Idle, ballot, hour, proposal.quorum)
  BY IdleFits
<1>2. proposal \in Proposal /\ Voted \in SUBSET Voters
  BY GovernanceFacts DEF VotedIn
<1>3. /\ q \in CallRows /\ q.at = kind /\ q.voter = voter /\ q.read = proposal /\ q.seen = Voted
      /\ q.now = Idle.now
  BY <1>1, <1>2 DEF CallRows
<1> HIDE DEF q
<1>4. CallFits(q, ballot, hour, proposal.quorum)
  BY <1>1, <1>3, GovernanceFacts DEF CallFits
<1>5. request' = [request EXCEPT ![c] = q] /\ UNCHANGED <<proposal, ballot, hour, executed>>
  BY DEF Load, q
<1> QED
  BY <1>3, <1>4, <1>5, CallMoves

LEMMA VoteStep ==
    ASSUME GovernanceInv, NEW c \in Callers, vote(c)
    PROVE  GovernanceInv'
<1> DEFINE r == request[c].read
<1>1. UNCHANGED <<proposal, ballot, hour, executed>> /\ request[c].at = "check"
  BY DEF vote, InRequest
<1>2. CASE ~(hour \in VotingStart..VotingEnd /\ r.status \in {"active", "pending"})
  <2>1. Done(c)
    BY <1>2 DEF vote
  <2> QED
    BY <1>1, <2>1, CallEnds
<1>3. CASE hour \in VotingStart..VotingEnd /\ r.status \in {"active", "pending"}
  <2> DEFINE saved == [r EXCEPT !.status = "active"]
             place == IF r.status = "pending" THEN "activate" ELSE "find"
             q == [request[c] EXCEPT !.at = place, !.read = saved]
  <2>1. /\ saved \in Proposal /\ saved.status = "active" /\ saved.tally = r.tally /\ saved.quorum = r.quorum
    BY RequestFacts DEF Proposal, ProposalStatus
  <2>2. /\ place \in Steps /\ place \in {"activate", "find"}
    BY DEF Steps
  <2> HIDE DEF saved, place
  <2>3. /\ q \in CallRows /\ q.at = place /\ q.read = saved /\ q.voter = request[c].voter
        /\ q.seen = request[c].seen /\ q.now = request[c].now
    BY <2>1, <2>2, RequestFacts DEF CallRows
  <2>4. request' = [request EXCEPT ![c] = q]
    <3>1. request' = [request EXCEPT ![c].at = place, ![c].read.status = "active"]
      BY <1>3 DEF vote, place
    <3>2. request' = [request EXCEPT ![c] = [request[c] EXCEPT !.at = place, !.read.status = "active"]]
      BY <3>1, GovernanceFacts
    <3>3. [request[c] EXCEPT !.at = place, !.read.status = "active"] = q
      BY RequestFacts DEF CallRows, saved
    <3> QED
      BY <3>2, <3>3
  <2> HIDE DEF q
  <2>5. TallyFits(saved, ballot, request[c].seen) /\ Carried(saved)
    BY <2>1, RequestFacts DEF CallFits, TallyFits, Carried
  <2>6. CallFits(q, ballot, hour, proposal.quorum)
    BY <1>1, <2>1, <2>2, <2>3, <2>5, RequestFacts DEF CallFits
  <2> QED
    BY <1>1, <2>3, <2>4, <2>6, CallMoves
<1> QED
  BY <1>2, <1>3

LEMMA SaveActiveStep ==
    ASSUME GovernanceInv, NEW c \in Callers, SaveActive(c)
    PROVE  GovernanceInv'
<1> DEFINE q == [request[c] EXCEPT !.at = "find"]
<1>1. UNCHANGED <<ballot, hour, executed>> /\ request[c].at = "activate"
  BY DEF SaveActive, InRequest
<1>2. q \in CallRows /\ CallFits(q, ballot, hour, proposal.quorum)
  BY <1>1, PlaceFits, RequestFacts DEF CallFits, Steps
<1>3. Save(c, request[c].read, request' = [request EXCEPT ![c] = q])
  BY GovernanceFacts DEF SaveActive, Save, Move
<1>4. /\ request[c].read \in Proposal /\ request[c].read.quorum = proposal.quorum
      /\ Carried(request[c].read) /\ TallyFits(request[c].read, ballot, Voted)
  BY <1>1, RequestFacts, SavedFits DEF CallFits
<1> HIDE DEF q
<1> QED
  BY <1>1, <1>2, <1>3, <1>4, CallSaves

LEMMA TypedStep ==
    ASSUME GovernanceInv, NEW c \in Callers, voteWithType(c) \/ FindVote(c)
    PROVE  GovernanceInv'
<1>1. /\ UNCHANGED <<proposal, ballot, hour, executed>>
      /\ request[c].at \in {"vote-typed", "find"}
      /\ Done(c) \/ Move(c, "find") \/ Move(c, "store")
  BY DEF voteWithType, FindVote, InRequest
<1>2. request[c].voter \in Voters
  BY <1>1, RequestFacts DEF CallFits
<1>3. CASE Done(c)
  BY <1>1, <1>3, CallEnds
<1>4. CASE Move(c, "find")
  BY <1>1, <1>2, <1>4, CallGoes DEF Steps
<1>5. CASE Move(c, "store")
  BY <1>1, <1>2, <1>5, CallGoes DEF Steps
<1> QED
  BY <1>1, <1>3, <1>4, <1>5

\* A vote is stored: every copy leaves it out, and it is one more than every copy counts.
LEMMA StoreStep ==
    ASSUME GovernanceInv, NEW c \in Callers, StoreVote(c)
    PROVE  GovernanceInv'
<1> DEFINE v == request[c].voter
           s == request[c].side
<1>1. UNCHANGED <<proposal, hour, executed>> /\ request[c].at = "store"
  BY DEF StoreVote, InRequest
<1>2. v \in Voters /\ s \in Sides
  BY <1>1, RequestFacts DEF CallFits, CallRows
<1>3. CASE v \in Voted
  BY <1>1, <1>3, CallEnds DEF StoreVote
<1>4. CASE v \notin Voted
  <2>1. ballot' = [ballot EXCEPT ![v] = s] /\ Move(c, "tally")
    BY <1>4 DEF StoreVote
  <2>2. Voted' = Voted \cup {v} /\ Voted' = VotedIn(ballot')
    BY <1>2, <2>1, GovernanceFacts DEF Voted, VotedIn
  <2>3. IsFiniteSet(Voted')
    BY <2>2, GovernanceFacts, FS_AddElement
  <2>4. ASSUME NEW vs \in SUBSET Voted, NEW side PROVE CastIn(ballot', side, vs) = CastIn(ballot, side, vs)
    BY <1>2, <1>4, <2>1, GovernanceFacts DEF CastIn, Voted
  <2>5. ASSUME NEW vs \in SUBSET Voted, NEW r \in Proposal, TallyFits(r, ballot, vs)
        PROVE  TallyFits(r, ballot', vs)
    BY <2>4, <2>5 DEF TallyFits
  <2>6. TallyFits(proposal, ballot', Voted')
    <3>1. TallyFits(proposal, ballot', Voted) /\ proposal \in Proposal
      BY <2>5, GovernanceFacts
    <3> QED
      BY <2>2, <2>3, <3>1, TallyStays
  <2>7. ASSUME NEW d \in Callers PROVE CallFits(request'[d], ballot', hour, proposal.quorum)
    <3>1. /\ request'[d].seen = request[d].seen /\ request'[d].now = request[d].now
          /\ request'[d].read = request[d].read /\ request'[d].voter = request[d].voter
          /\ request'[d].side = request[d].side
          /\ d # c => request'[d].at = request[d].at
          /\ d = c => request'[d].at = "tally"
      BY <2>1, GovernanceFacts DEF Move, CallRows
    <3>2. /\ request[d].seen \subseteq Voted /\ request[d].read \in Proposal
          /\ CallFits(request[d], ballot, hour, proposal.quorum)
      BY RequestFacts
    <3>3. TallyFits(request[d].read, ballot', request[d].seen)
      BY <2>5, <3>2 DEF CallFits
    <3>4. request[d].seen \subseteq VotedIn(ballot')
      BY <2>2, <3>2
    <3>5. CASE d = c
      <4>1. ballot'[v] = s /\ v \notin request[d].seen
        BY <1>2, <1>4, <2>1, <3>2, GovernanceFacts
      <4> QED
        BY <1>1, <1>2, <3>1, <3>2, <3>3, <3>4, <3>5, <4>1 DEF CallFits
    <3>6. CASE d # c
      <4>1. request[d].at = "tally" => ballot'[request[d].voter] = request[d].side
        <5> SUFFICES ASSUME request[d].at = "tally" PROVE ballot'[request[d].voter] = request[d].side
          OBVIOUS
        <5>1. /\ request[d].voter \in Voters /\ ballot[request[d].voter] = request[d].side
              /\ request[d].side \in Sides
          BY <3>2, RequestFacts DEF CallFits, CallRows
        <5>2. request[d].voter \in Voted
          BY <5>1, GovernanceFacts DEF Voted
        <5> QED
          BY <1>2, <1>4, <2>1, <5>1, <5>2, GovernanceFacts
      <4> QED
        BY <3>1, <3>2, <3>3, <3>4, <3>6, <4>1 DEF CallFits
    <3> QED
      BY <3>5, <3>6
  <2>8. executed => WasCarried(ballot', hour, proposal.quorum)
    <3> SUFFICES ASSUME executed PROVE WasCarried(ballot', hour, proposal.quorum)
      OBVIOUS
    <3>1. /\ WasCarried(ballot, hour, proposal.quorum) /\ TotalPower \in Nat /\ proposal.quorum \in Nat
      BY GovernanceFacts DEF Proposal
    <3>2. /\ Cardinality(VotedIn(ballot')) = Cardinality(VotedIn(ballot)) + 1
          /\ Cardinality(VotedIn(ballot)) \in Nat
      <4>1. IsFiniteSet(Voted) /\ Voted = VotedIn(ballot)
        BY GovernanceFacts
      <4>2. Cardinality(Voted \cup {v}) = Cardinality(Voted) + 1 /\ Cardinality(Voted) \in Nat
        BY <1>4, <4>1, FS_AddElement, FS_CardinalityType
      <4> QED
        BY <2>2, <4>1, <4>2
    <3>3. \E w \in Voters : ballot'[w] = "for"
      <4>1. PICK w \in Voters : ballot[w] = "for"
        BY <3>1 DEF WasCarried
      <4>2. w \in Voted
        BY <4>1, GovernanceFacts DEF Voted, Sides
      <4> QED
        BY <1>2, <1>4, <2>1, <4>1, <4>2, GovernanceFacts
    <3> QED
      BY <3>1, <3>2, <3>3 DEF WasCarried
  <2>9. GovernanceTypeOK'
    <3>1. ballot' \in [Voters -> Sides \cup {Unvoted}]
      BY <1>2, <2>1, GovernanceFacts
    <3>2. request' \in [Callers -> CallRows]
      BY <2>1, GovernanceFacts DEF Move, CallRows, Steps
    <3> QED
      BY <1>1, <3>1, <3>2, GovernanceFacts DEF GovernanceTypeOK, CallRows
  <2> QED
    BY <1>1, <2>3, <2>6, <2>7, <2>8, <2>9, GovernanceFacts DEF GovernanceInv, Carried, Quorate,
       SumOfVotes
<1> QED
  BY <1>3, <1>4

LEMMA TallyStep ==
    ASSUME GovernanceInv, NEW c \in Callers, Tally(c)
    PROVE  GovernanceInv'
<1> DEFINE r == request[c].read
           v == request[c].voter
           t == request[c].side
           saved == [r EXCEPT !.tally[t] = @ + 1]
<1>1. UNCHANGED <<ballot, hour, executed>> /\ request[c].at = "tally" /\ Save(c, saved, Done(c))
  BY DEF Tally, InRequest
<1>2. /\ r \in Proposal /\ t \in Sides /\ v \in Voters /\ v \notin request[c].seen /\ ballot[v] = t
      /\ request[c].seen \subseteq Voted /\ TallyFits(r, ballot, request[c].seen)
      /\ Carried(r) /\ r.quorum = proposal.quorum
  BY <1>1, RequestFacts DEF CallFits, CallRows
<1>3. /\ saved \in Proposal /\ saved.status = r.status /\ saved.quorum = r.quorum /\ saved.eta = r.eta
      /\ \A s \in Sides : saved.tally[s] = IF s = t THEN r.tally[s] + 1 ELSE r.tally[s]
      /\ \A s \in Sides : r.tally[s] \in Nat
  BY <1>2 DEF Proposal
<1> HIDE DEF saved
<1>4. TallyFits(saved, ballot, Voted)
  <2> SUFFICES ASSUME NEW s \in Sides PROVE saved.tally[s] <= Cardinality(CastIn(ballot, s, Voted))
    BY DEF TallyFits
  <2>1. /\ Cardinality(CastIn(ballot, s, request[c].seen)) \in Nat
        /\ Cardinality(CastIn(ballot, s, Voted)) \in Nat
        /\ Cardinality(CastIn(ballot, s, request[c].seen)) <= Cardinality(CastIn(ballot, s, Voted))
        /\ r.tally[s] <= Cardinality(CastIn(ballot, s, request[c].seen))
    BY <1>2, GovernanceFacts, FewerVotes DEF TallyFits
  <2>2. CASE s # t
    BY <1>3, <2>1, <2>2
  <2>3. CASE s = t
    <3> DEFINE C == CastIn(ballot, s, request[c].seen)
               E == CastIn(ballot, s, Voted)
    <3>1. /\ C \cup {v} \subseteq E /\ v \notin C
      BY <1>2, <2>3, GovernanceFacts DEF CastIn, Voted
    <3>2. IsFiniteSet(E) /\ IsFiniteSet(C)
      BY <1>2, GovernanceFacts, FewerVotes, FS_Subset
    <3>3. Cardinality(C \cup {v}) = Cardinality(C) + 1 /\ Cardinality(C \cup {v}) <= Cardinality(E)
      BY <3>1, <3>2, FS_AddElement, FS_Subset
    <3> QED
      BY <1>3, <2>1, <2>3, <3>3
  <2> QED
    BY <2>2, <2>3
<1>5. Carried(saved)
  <2> SUFFICES ASSUME saved.status \in {"queued", "executed"}
               PROVE  Quorate(saved) /\ saved.tally["for"] >= 1 /\ saved.eta >= VotingEnd + Delay
    BY DEF Carried
  <2>1. Quorate(r) /\ r.tally["for"] >= 1 /\ r.eta >= VotingEnd + Delay
    BY <1>2, <1>3 DEF Carried
  <2>2. /\ saved.tally["for"] >= r.tally["for"] /\ saved.tally["against"] >= r.tally["against"]
        /\ saved.tally["abstain"] >= r.tally["abstain"]
        /\ \A s \in Sides : r.tally[s] \in Nat /\ saved.tally[s] \in Nat
    BY <1>3 DEF Sides, Proposal
  <2>3. SumOfVotes(saved) >= SumOfVotes(r) /\ SumOfVotes(saved) \in Nat /\ SumOfVotes(r) \in Nat
    BY <2>2 DEF SumOfVotes, Sides
  <2>4. Quorate(saved)
    <3> DEFINE need == TotalPower * r.quorum
    <3>1. need \in Nat
      BY <1>2, GovernanceFacts DEF Proposal
    <3>2. SumOfVotes(r) * 100 >= need
      BY <2>1 DEF Quorate
    <3>3. Quorate(saved) <=> SumOfVotes(saved) * 100 >= need
      BY <1>3 DEF Quorate
    <3> HIDE DEF need
    <3> QED
      BY <2>3, <3>1, <3>2, <3>3
  <2> QED
    BY <1>3, <2>1, <2>2, <2>4 DEF Sides
<1>6. Idle \in CallRows /\ CallFits(Idle, ballot, hour, proposal.quorum)
  BY IdleFits
<1>7. Save(c, saved, request' = [request EXCEPT ![c] = Idle])
  BY <1>1 DEF Save, Done
<1> QED
  BY <1>1, <1>2, <1>3, <1>4, <1>5, <1>6, <1>7, CallSaves
LEMMA TwoCamps ==
    ASSUME NEW A, NEW B, IsFiniteSet(A), IsFiniteSet(B), A \cap B = {}
    PROVE  /\ IsFiniteSet(A \cup B) /\ Cardinality(A) \in Nat /\ Cardinality(B) \in Nat
           /\ Cardinality(A \cup B) = Cardinality(A) + Cardinality(B)
<1>1. IsFiniteSet(A \cup B) /\ Cardinality(A \cup B) = Cardinality(A) + Cardinality(B) - Cardinality(A \cap B)
  BY FS_Union
<1>2. Cardinality(A \cap B) = 0
  BY FS_EmptySet
<1> QED
  BY <1>1, <1>2, FS_CardinalityType

\* A copy counts no more votes than there are.
LEMMA Turnout ==
    ASSUME GovernanceInv, NEW r \in Proposal, TallyFits(r, ballot, Voted)
    PROVE  SumOfVotes(r) \in Nat /\ Cardinality(Voted) \in Nat /\ SumOfVotes(r) <= Cardinality(Voted)
<1> DEFINE F == CastIn(ballot, "for", Voted)
           A == CastIn(ballot, "against", Voted)
           B == CastIn(ballot, "abstain", Voted)
<1>1. IsFiniteSet(F) /\ IsFiniteSet(A) /\ IsFiniteSet(B)
  BY GovernanceFacts, FewerVotes
<1>2. F \cap A = {} /\ (F \cup A) \cap B = {}
  BY DEF CastIn
<1>3. Voted = (F \cup A) \cup B
  <2>1. ASSUME NEW v \in Voted PROVE v \in (F \cup A) \cup B
    BY <2>1, GovernanceFacts DEF Voted, CastIn, Sides
  <2> QED
    BY <2>1 DEF CastIn
<1>4. /\ r.tally["for"] <= Cardinality(F) /\ r.tally["against"] <= Cardinality(A)
      /\ r.tally["abstain"] <= Cardinality(B)
      /\ r.tally["for"] \in Nat /\ r.tally["against"] \in Nat /\ r.tally["abstain"] \in Nat
  BY DEF TallyFits, Sides, Proposal
<1> HIDE DEF F, A, B
<1>5. /\ IsFiniteSet(F \cup A) /\ Cardinality(F \cup A) = Cardinality(F) + Cardinality(A)
      /\ Cardinality(F) \in Nat /\ Cardinality(A) \in Nat
  BY <1>1, <1>2, TwoCamps
<1>6. Cardinality(Voted) = Cardinality(F \cup A) + Cardinality(B) /\ Cardinality(B) \in Nat
  BY <1>1, <1>2, <1>3, <1>5, TwoCamps
<1> QED
  BY <1>4, <1>5, <1>6 DEF SumOfVotes

LEMMA ExecuteStep ==
    ASSUME GovernanceInv, NEW c \in Callers, executeProposal(c)
    PROVE  GovernanceInv'
<1>1. UNCHANGED <<proposal, ballot, hour, executed>> /\ request[c].at = "execute"
  BY DEF executeProposal, InRequest
<1>2. CASE hour < VotingEnd
  BY <1>1, <1>2, CallEnds DEF executeProposal
<1>3. CASE ~(hour < VotingEnd)
  <2> DEFINE place == IF request[c].read.status = "active" THEN "finalize" ELSE "reload"
             q == [request[c] EXCEPT !.at = place, !.now = hour, !.executes = TRUE]
  <2>1. place \in {"finalize", "reload"} /\ place \in Steps
    BY DEF Steps
  <2> HIDE DEF place
  <2>2. /\ q \in CallRows /\ q.at = place /\ q.read = request[c].read /\ q.seen = request[c].seen
        /\ q.now = hour
    BY <2>1, RequestFacts, GovernanceFacts DEF CallRows
  <2>3. request' = [request EXCEPT ![c] = q]
    BY <1>3, GovernanceFacts DEF executeProposal, place
  <2> HIDE DEF q
  <2>4. CallFits(q, ballot, hour, proposal.quorum)
    BY <1>1, <2>1, <2>2, RequestFacts, GovernanceFacts DEF CallFits
  <2> QED
    BY <1>1, <2>2, <2>3, <2>4, CallMoves
<1> QED
  BY <1>2, <1>3

\* The call reads the row again.
LEMMA RereadFits ==
    ASSUME GovernanceInv, NEW c \in Callers, NEW place \in {"decide", "act"},
           place = "act" => proposal.status = "queued" /\ request[c].now >= proposal.eta
    PROVE  LET q == [request[c] EXCEPT !.at = place, !.read = proposal, !.seen = Voted]
           IN  q \in CallRows /\ CallFits(q, ballot, hour, proposal.quorum)
<1> DEFINE q == [request[c] EXCEPT !.at = place, !.read = proposal, !.seen = Voted]
<1>1. place \in Steps /\ Voted \subseteq Voters
  BY DEF Steps, Voted
<1>2. /\ q \in CallRows /\ q.at = place /\ q.read = proposal /\ q.seen = Voted
      /\ q.now = request[c].now
  BY <1>1, RequestFacts, GovernanceFacts DEF CallRows
<1> HIDE DEF q
<1>3. CallFits(q, ballot, hour, proposal.quorum)
  BY <1>2, RequestFacts, GovernanceFacts DEF CallFits
<1> QED
  BY <1>2, <1>3 DEF q

LEMMA RereadStep ==
    ASSUME GovernanceInv, NEW c \in Callers, LoadToFinalize(c) \/ ReloadToExecute(c)
    PROVE  GovernanceInv'
<1>1. UNCHANGED <<proposal, ballot, hour, executed>>
  BY DEF LoadToFinalize, ReloadToExecute
<1>2. CASE Done(c)
  BY <1>1, <1>2, CallEnds
<1>3. ASSUME NEW place \in {"decide", "act"},
             place = "act" => proposal.status = "queued" /\ request[c].now >= proposal.eta,
             request' = [request EXCEPT ![c].at = place, ![c].read = proposal, ![c].seen = Voted]
      PROVE  GovernanceInv'
  <2> DEFINE q == [request[c] EXCEPT !.at = place, !.read = proposal, !.seen = Voted]
  <2>1. q \in CallRows /\ CallFits(q, ballot, hour, proposal.quorum)
    BY <1>3, RereadFits
  <2>2. request' = [request EXCEPT ![c] = q]
    BY <1>3, GovernanceFacts
  <2> HIDE DEF q
  <2> QED
    BY <1>1, <2>1, <2>2, CallMoves
<1> QED
  BY <1>2, <1>3 DEF LoadToFinalize, ReloadToExecute

\* What finalizing makes of a copy that counts votes.
LEMMA OutcomeFits ==
    ASSUME GovernanceInv, NEW r \in Proposal, TallyFits(r, ballot, Voted), hour >= VotingEnd
    PROVE  /\ Outcome(r) \in Proposal /\ Outcome(r).quorum = r.quorum
           /\ TallyFits(Outcome(r), ballot, Voted) /\ Carried(Outcome(r))
<1>1. hour + Delay \in Times /\ hour \in Nat /\ Delay \in Nat /\ VotingEnd \in Nat
  BY GovernanceFacts DEF Times
<1>2. /\ Outcome(r) \in Proposal /\ Outcome(r).quorum = r.quorum /\ Outcome(r).tally = r.tally
      /\ \/ Outcome(r).status = "defeated"
         \/ /\ Quorate(r) /\ r.tally["for"] > r.tally["against"]
            /\ Outcome(r).eta = hour + Delay
  BY <1>1 DEF Outcome, Proposal, ProposalStatus
<1>3. r.tally["for"] \in Nat /\ r.tally["against"] \in Nat
  BY DEF Proposal, Sides
<1>4. Quorate(r) => Quorate(Outcome(r))
  BY <1>2 DEF Quorate, SumOfVotes
<1>5. Carried(Outcome(r))
  BY <1>1, <1>2, <1>3, <1>4 DEF Carried
<1> QED
  BY <1>2, <1>5 DEF TallyFits

LEMMA FinalizeStep ==
    ASSUME GovernanceInv, NEW c \in Callers, finalizeProposal(c)
    PROVE  GovernanceInv'
<1>1. UNCHANGED <<ballot, hour, executed>> /\ request[c].at = "decide"
  BY DEF finalizeProposal, InRequest
<1>2. CASE hour < VotingEnd
  <2>1. Done(c) /\ UNCHANGED proposal
    BY <1>2 DEF finalizeProposal
  <2> QED
    BY <1>1, <2>1, CallEnds
<1>3. CASE ~(hour < VotingEnd)
  <2> DEFINE saved == Outcome(request[c].read)
             q == IF request[c].executes THEN [request[c] EXCEPT !.at = "reload"] ELSE Idle
  <2>1. /\ request[c].read \in Proposal /\ TallyFits(request[c].read, ballot, Voted)
        /\ request[c].read.quorum = proposal.quorum /\ hour >= VotingEnd
    BY <1>1, <1>3, RequestFacts, SavedFits, GovernanceFacts DEF CallFits
  <2>2. /\ saved \in Proposal /\ saved.quorum = proposal.quorum
        /\ TallyFits(saved, ballot, Voted) /\ Carried(saved)
    BY <2>1, OutcomeFits
  <2>3. q \in CallRows /\ CallFits(q, ballot, hour, proposal.quorum)
    BY <1>1, PlaceFits, IdleFits DEF Steps
  <2>4. Save(c, saved, request' = [request EXCEPT ![c] = q])
    BY <1>3, GovernanceFacts DEF finalizeProposal, Save, Move, Done
  <2> HIDE DEF saved, q
  <2> QED
    BY <1>1, <2>2, <2>3, <2>4, CallSaves
<1> QED
  BY <1>2, <1>3

\* A call that executes holds a copy that was carried, and its time has come.
LEMMA ActionsStep ==
    ASSUME GovernanceInv, NEW c \in Callers, ExecuteActions(c)
    PROVE  GovernanceInv'
<1> DEFINE r == request[c].read
           q == [request[c] EXCEPT !.at = "done"]
<1>1. /\ ballot' = ballot /\ hour' = hour /\ proposal' = proposal /\ executed' = TRUE
      /\ request[c].at = "act"
  BY DEF ExecuteActions, InRequest
<1>2. /\ r \in Proposal /\ r.status = "queued" /\ request[c].now >= r.eta /\ request[c].now <= hour
      /\ r.quorum = proposal.quorum /\ Carried(r) /\ request[c].now \in Nat /\ hour \in Nat
      /\ r.eta \in Nat
  BY <1>1, RequestFacts, GovernanceFacts DEF CallFits, CallRows, Proposal, Times
<1>3. q \in CallRows /\ CallFits(q, ballot, hour, proposal.quorum)
  BY <1>1, <1>2, PlaceFits DEF Steps
<1>4. request' = [request EXCEPT ![c] = q]
  BY GovernanceFacts DEF ExecuteActions, Move
<1>5. Quorate(r) /\ r.tally["for"] >= 1 /\ r.eta >= VotingEnd + Delay
  BY <1>2 DEF Carried
<1>6. TallyFits(r, ballot, Voted)
  BY SavedFits
<1>7. SumOfVotes(r) \in Nat /\ Cardinality(Voted) \in Nat /\ SumOfVotes(r) <= Cardinality(Voted)
  BY <1>2, <1>6, Turnout
<1>8. Cardinality(VotedIn(ballot)) * 100 >= TotalPower * proposal.quorum
  <2> DEFINE need == TotalPower * proposal.quorum
  <2>1. need \in Nat
    BY GovernanceFacts DEF Proposal
  <2>2. SumOfVotes(r) * 100 >= need
    BY <1>2, <1>5 DEF Quorate
  <2>3. Voted = VotedIn(ballot)
    BY GovernanceFacts
  <2> HIDE DEF need
  <2>4. Cardinality(Voted) * 100 >= need
    BY <1>7, <2>1, <2>2
  <2> QED
    BY <2>3, <2>4 DEF need
<1>9. \E v \in Voters : ballot[v] = "for"
  <2>1. Cardinality(CastIn(ballot, "for", Voted)) \in Nat
        /\ r.tally["for"] <= Cardinality(CastIn(ballot, "for", Voted))
        /\ r.tally["for"] \in Nat
    BY <1>2, <1>6, FewerVotes, GovernanceFacts DEF TallyFits, Sides, Proposal
  <2>2. Cardinality(CastIn(ballot, "for", Voted)) # 0
    BY <1>5, <2>1
  <2>3. CastIn(ballot, "for", Voted) # {}
    BY <2>2, FS_EmptySet
  <2> QED
    BY <2>3 DEF CastIn, Voted
<1>10. hour >= VotingEnd + Delay
  BY <1>2, <1>5, GovernanceFacts
<1>11. WasCarried(ballot, hour, proposal.quorum)
  BY <1>8, <1>9, <1>10 DEF WasCarried
<1>12. proposal \in Proposal /\ TallyFits(proposal, ballot, Voted) /\ Carried(proposal)
  BY GovernanceFacts
<1> HIDE DEF q
<1> QED
  BY <1>1, <1>3, <1>4, <1>11, <1>12, GovernanceCallStep

LEMMA CloseStep ==
    ASSUME GovernanceInv, NEW c \in Callers, SaveExecuted(c) \/ vetoProposal(c)
    PROVE  GovernanceInv'
<1> DEFINE r == request[c].read
<1>1. UNCHANGED <<ballot, hour, executed>> /\ request[c].at \in {"done", "veto"}
  BY DEF SaveExecuted, vetoProposal, InRequest
<1>2. /\ r \in Proposal /\ TallyFits(r, ballot, Voted) /\ r.quorum = proposal.quorum
      /\ request[c].at = "done" => r.status = "queued" /\ Carried(r)
  BY <1>1, RequestFacts, SavedFits DEF CallFits
<1>3. CASE Done(c) /\ UNCHANGED proposal
  BY <1>1, <1>3, CallEnds
<1>4. ASSUME NEW status \in {"executed", "vetoed"}, status = "executed" => request[c].at = "done",
             Save(c, [r EXCEPT !.status = status], Done(c))
      PROVE  GovernanceInv'
  <2> DEFINE saved == [r EXCEPT !.status = status]
  <2>1. /\ saved \in Proposal /\ saved.status = status /\ saved.tally = r.tally /\ saved.quorum = r.quorum
        /\ saved.eta = r.eta
    BY <1>2 DEF Proposal, ProposalStatus
  <2>2. Save(c, saved, request' = [request EXCEPT ![c] = Idle])
    BY <1>4 DEF Save, Done
  <2> HIDE DEF saved
  <2>3. TallyFits(saved, ballot, Voted)
    BY <1>2, <2>1 DEF TallyFits
  <2>4. Carried(saved)
    BY <1>2, <1>4, <2>1 DEF Carried, Quorate, SumOfVotes
  <2>5. Idle \in CallRows /\ CallFits(Idle, ballot, hour, proposal.quorum)
    BY IdleFits
  <2>6. saved.quorum = proposal.quorum
    BY <1>2, <2>1
  <2> QED
    BY <1>1, <2>1, <2>2, <2>3, <2>4, <2>5, <2>6, CallSaves
<1>5. CASE SaveExecuted(c)
  <2>1. Save(c, [r EXCEPT !.status = "executed"], Done(c)) /\ request[c].at = "done"
    BY <1>5 DEF SaveExecuted, InRequest
  <2> QED
    BY <1>4, <2>1
<1>6. CASE vetoProposal(c)
  <2>1. (Done(c) /\ UNCHANGED proposal) \/ Save(c, [r EXCEPT !.status = "vetoed"], Done(c))
    BY <1>6 DEF vetoProposal
  <2> QED
    BY <1>3, <1>4, <2>1
<1> QED
  BY <1>5, <1>6

LEMMA HourStep ==
    ASSUME GovernanceInv, NextHour
    PROVE  GovernanceInv'
<1>1. /\ hour' = hour + 1 /\ hour' \in 0..LastHour
      /\ proposal' = proposal /\ ballot' = ballot /\ request' = request /\ executed' = executed
  BY GovernanceFacts DEF NextHour
<1>2. Voted' = Voted
  BY <1>1 DEF Voted
<1>3. ASSUME NEW c \in Callers PROVE CallFits(request[c], ballot, hour + 1, proposal.quorum)
  <2>1. CallFits(request[c], ballot, hour, proposal.quorum) /\ request[c].now \in Nat /\ hour \in Nat
    BY RequestFacts, GovernanceFacts DEF CallRows
  <2> QED
    BY <2>1 DEF CallFits
<1>4. executed => WasCarried(ballot, hour + 1, proposal.quorum)
  BY GovernanceFacts DEF WasCarried
<1>5. GovernanceTypeOK'
  BY <1>1, GovernanceFacts DEF GovernanceTypeOK, CallRows
<1> QED
  BY <1>1, <1>2, <1>3, <1>4, <1>5, GovernanceFacts DEF GovernanceInv, Carried, Quorate, SumOfVotes

LEMMA GovernanceStepInv == GovernanceInv /\ [GovernanceNext]_governanceVars => GovernanceInv'
<1> SUFFICES ASSUME GovernanceInv, [GovernanceNext]_governanceVars PROVE GovernanceInv'
  OBVIOUS
<1>1. ASSUME NEW c \in Callers, NEW v \in Voters, NEW s \in Sides,
             Load(c, "check", v, s) \/ Load(c, "vote-typed", v, s)
      PROVE  GovernanceInv'
  BY <1>1, GovernanceLoadStep DEF Steps
<1>2. ASSUME NEW c \in Callers, NEW kind \in {"execute", "finalize", "veto"}, Load(c, kind, Unvoted, "for")
      PROVE  GovernanceInv'
  BY <1>2, GovernanceLoadStep DEF Steps, Sides
<1>3. ASSUME NEW c \in Callers,
             \/ vote(c) \/ SaveActive(c) \/ voteWithType(c) \/ FindVote(c) \/ StoreVote(c) \/ Tally(c)
             \/ executeProposal(c) \/ LoadToFinalize(c) \/ finalizeProposal(c) \/ ReloadToExecute(c)
             \/ ExecuteActions(c) \/ SaveExecuted(c) \/ vetoProposal(c)
      PROVE  GovernanceInv'
  BY <1>3, VoteStep, SaveActiveStep, TypedStep, StoreStep, TallyStep, ExecuteStep, RereadStep,
     FinalizeStep, ActionsStep, CloseStep
<1>4. CASE NextHour
  BY <1>4, HourStep
<1>5. CASE UNCHANGED governanceVars
  <2>1. /\ proposal' = proposal /\ ballot' = ballot /\ request' = request /\ hour' = hour
        /\ executed' = executed
    BY <1>5 DEF governanceVars
  <2>2. Voted' = Voted
    BY <2>1 DEF Voted
  <2>3. GovernanceTypeOK'
    BY <2>1, GovernanceFacts DEF GovernanceTypeOK, CallRows
  <2> QED
    BY <2>1, <2>2, <2>3, GovernanceFacts DEF GovernanceInv, Carried, Quorate, SumOfVotes
<1>6. \A s \in {"for", "against"} : s \in Sides
  BY DEF Sides
<1> QED
  BY <1>1, <1>2, <1>3, <1>4, <1>5, <1>6 DEF GovernanceNext

LEMMA GovernanceInitInv == GovernanceInit => GovernanceInv
<1> SUFFICES ASSUME GovernanceInit PROVE GovernanceInv
  OBVIOUS
<1> DEFINE none == [s \in Sides |-> 0]
<1>1. /\ proposal \in Proposal /\ proposal.status = "pending" /\ proposal.tally = none
      /\ proposal.quorum \in Quorums
  BY GovernanceConstants DEF GovernanceInit, Proposal, ProposalStatus, Times
<1>2. /\ ballot = [v \in Voters |-> Unvoted] /\ hour = 0 /\ executed = FALSE
      /\ request = [c \in Callers |-> Idle]
  BY DEF GovernanceInit
<1>3. Voted = {} /\ VotedIn(ballot) = {}
  BY <1>2 DEF Voted, VotedIn
<1>4. ASSUME NEW r \in Proposal, r.tally = none PROVE TallyFits(r, ballot, {})
  <2> SUFFICES ASSUME NEW s \in Sides PROVE r.tally[s] <= Cardinality(CastIn(ballot, s, {}))
    BY DEF TallyFits
  <2>1. CastIn(ballot, s, {}) = {} /\ r.tally[s] = 0
    BY <1>4 DEF CastIn
  <2> QED
    BY <2>1, FS_EmptySet
<1>5. /\ Idle.at = "idle" /\ Idle.voter = Unvoted /\ Idle.seen = {} /\ Idle.now = 0
      /\ Idle.side = "for" /\ Idle.executes = FALSE /\ Idle.read.tally = none
      /\ Idle.read.status = "pending"
  BY DEF Idle
<1>6. Idle.read \in Proposal
  <2>1. (CHOOSE q \in Quorums : TRUE) \in Quorums
    BY <1>1
  <2> QED
    BY <2>1, GovernanceConstants DEF Idle, Proposal, ProposalStatus, Times
<1>7. Idle \in CallRows
  BY <1>6, GovernanceConstants DEF Idle, CallRows, Steps, Sides
<1>8. CallFits(Idle, ballot, hour, proposal.quorum)
  BY <1>2, <1>3, <1>4, <1>5, <1>6 DEF CallFits, Carried
<1>9. GovernanceTypeOK
  BY <1>1, <1>2, <1>7, GovernanceConstants DEF GovernanceTypeOK, CallRows
<1> QED
  BY <1>1, <1>2, <1>3, <1>4, <1>8, <1>9, FS_EmptySet DEF GovernanceInv, Carried

\* No vote is counted that nobody cast, no voter counts twice, and what is executed was
\* carried and its timelock had passed.
THEOREM ExecutionsCarried == GovernanceSpec => []ExecutedWasCarried
<1>1. ASSUME GovernanceInv PROVE ExecutedWasCarried
  <2>1. \A s \in Sides : proposal.tally[s] <= Cardinality({v \in Voters : ballot[v] = s})
    <3> SUFFICES ASSUME NEW s \in Sides
                 PROVE  proposal.tally[s] <= Cardinality({v \in Voters : ballot[v] = s})
      OBVIOUS
    <3>1. CastIn(ballot, s, Voted) = {v \in Voters : ballot[v] = s}
      BY <1>1, GovernanceFacts DEF CastIn, Voted
    <3> QED
      BY <1>1, <3>1, GovernanceFacts DEF TallyFits
  <2>2. Voted = VotedIn(ballot)
    BY <1>1, GovernanceFacts
  <2> QED
    BY <1>1, <2>1, <2>2, GovernanceFacts DEF ExecutedWasCarried, WasCarried
<1> QED
  BY <1>1, GovernanceInitInv, GovernanceStepInv, PTL DEF GovernanceSpec

-----------------------------------------------------------------------------
(* Batches *)

LaneStates == [at : {"idle", "start", "create", "complete", "fail", "count", "save", "dead"},
               op : Ops, seen : BatchStatus, failing : BOOLEAN]
OpRows     == [status : OpStatus, retries : Nat]
BatchQueue == [state : {"none", "waiting", "active", "finished"}, run : 0..MaxRuns, attempts : Nat]
AdminStates == [at : {"idle", "reset", "queue", "remove", "drop", "close"}, found : SUBSET Ops, calls : Nat]

\* What may still create a split for operation i: a lane that carries it or is about to
\* declare it failed, and the list of a run; and its row, which a retry makes pending.
Carries(s, i) == s.op = i /\ s.at \in {"start", "create", "fail"}
Carriers(i)   == {x \in Runs \X Lanes : Carries(lane[x], i)}
Lists(i)      == {r \in Runs : i \in todo[r]}
Claims(i)     == made[i] + Cardinality(Carriers(i)) + Cardinality(Lists(i))
ComesBack(i)  == op[i].status = "failed" \/ (admin.at = "reset" /\ i \in admin.found)

\* The active run has the operation on its list: only a fault starts another run before
\* this one marks it started.
Claimed(i) ==
    /\ job.state = "active"
    /\ \A l \in Lanes : lane[<<job.run, l>>].at # "dead"
    /\ \/ i \in todo[job.run]
       \/ \E l \in Lanes : lane[<<job.run, l>>].op = i /\ lane[<<job.run, l>>].at = "start"

One(b) == IF b THEN 1 ELSE 0

\* A pending operation is one more claim, its next run's, until that run has listed it.
SplitsBounded(i) ==
    /\ IsFiniteSet(Carriers(i))
    /\ op[i].status = "pending" => Claims(i) <= faults + One(Claimed(i))
    /\ op[i].status # "pending" => Claims(i) + One(ComesBack(i)) <= 1 + faults
    /\ admin.at = "reset" /\ i \in admin.found => op[i].status # "pending"

\* Who says an operation is completed knows its split.
AllMade == \A i \in Ops : made[i] > 0
WorkDone ==
    /\ batch = "completed" => AllMade
    /\ \A x \in Runs \X Lanes :
         /\ lane[x].seen = "completed" => AllMade
         /\ lane[x].at = "complete" => made[lane[x].op] > 0
    /\ \A i \in Ops : op[i].status = "completed" => made[i] > 0

BatchRows ==
    /\ batch \in BatchStatus /\ op \in [Ops -> OpRows] /\ job \in BatchQueue
    /\ todo \in [Runs -> SUBSET Ops] /\ lane \in [Runs \X Lanes -> LaneStates]
    /\ admin \in AdminStates /\ made \in [Ops -> Nat] /\ faults \in Nat
    /\ \A r \in Runs : r > job.run => todo[r] = {} /\ \A l \in Lanes : lane[<<r, l>>].at = "idle"
    /\ job.state = "active" => job.run \in Runs

\* The claims on an operation change hands, from its row to the list of a run to a lane
\* to its split, and only a fault doubles one: why nobody makes a split twice.
BatchInv == BatchRows /\ WorkDone /\ \A i \in Ops : SplitsBounded(i)

LEMMA BatchFacts ==
    ASSUME BatchInv
    PROVE  /\ batch \in BatchStatus /\ op \in [Ops -> OpRows] /\ job \in BatchQueue
           /\ todo \in [Runs -> SUBSET Ops] /\ lane \in [Runs \X Lanes -> LaneStates]
           /\ admin \in AdminStates /\ made \in [Ops -> Nat] /\ faults \in Nat
           /\ \A r \in Runs : r > job.run => todo[r] = {} /\ \A l \in Lanes : lane[<<r, l>>].at = "idle"
           /\ job.state = "active" => job.run \in Runs
           /\ WorkDone /\ \A i \in Ops : SplitsBounded(i)
           /\ NumOps \in Nat \ {0} /\ MaxRuns \in Nat /\ Free \in LaneStates
           /\ Free.at = "idle" /\ Free.seen = "pending"
<1>1. 1 \in Ops /\ NumOps \in Nat \ {0} /\ MaxRuns \in Nat
  BY BatchConstants DEF Ops
<1>2. Free \in LaneStates /\ Free.at = "idle" /\ Free.seen = "pending"
  BY <1>1 DEF Free, LaneStates, BatchStatus
<1> QED
  BY <1>1, <1>2 DEF BatchInv, BatchRows

\* The claims of the runs that list an operation.
LEMMA ListsFinite ==
    ASSUME BatchInv, NEW i \in Ops
    PROVE  /\ IsFiniteSet(Lists(i)) /\ Cardinality(Lists(i)) \in Nat
           /\ IsFiniteSet(Carriers(i)) /\ Cardinality(Carriers(i)) \in Nat
           /\ made[i] \in Nat /\ Claims(i) \in Nat /\ Claims(i) >= made[i]
<1>1. IsFiniteSet(Runs) /\ Lists(i) \subseteq Runs
  BY BatchFacts, FS_Interval DEF Runs, Lists
<1>2. IsFiniteSet(Lists(i)) /\ Cardinality(Lists(i)) \in Nat
  BY <1>1, FS_Subset, FS_CardinalityType
<1>3. IsFiniteSet(Carriers(i)) /\ Cardinality(Carriers(i)) \in Nat
  BY BatchFacts, FS_CardinalityType DEF SplitsBounded
<1>4. made[i] \in Nat
  BY BatchFacts
<1> QED
  BY <1>2, <1>3, <1>4 DEF Claims

LEMMA CarriersMove ==
    ASSUME BatchInv, NEW i \in Ops, NEW x \in Runs \X Lanes, NEW t \in LaneStates,
           lane' = [lane EXCEPT ![x] = t]
    PROVE  /\ IsFiniteSet(Carriers(i)') /\ Cardinality(Carriers(i)') \in Nat
           /\ Cardinality(Carriers(i)') + One(Carries(lane[x], i))
              = Cardinality(Carriers(i)) + One(Carries(t, i))
<1>1. lane \in [Runs \X Lanes -> LaneStates] /\ IsFiniteSet(Carriers(i)) /\ Cardinality(Carriers(i)) \in Nat
  BY BatchFacts, ListsFinite
<1>2. /\ lane'[x] = t /\ \A y \in Runs \X Lanes : y # x => lane'[y] = lane[y]
      /\ Carriers(i)' = {y \in Runs \X Lanes : Carries(lane'[y], i)}
  BY <1>1 DEF Carriers, Carries
<1>3. CASE Carries(t, i) <=> Carries(lane[x], i)
  <2>1. Carriers(i)' = Carriers(i)
    BY <1>2, <1>3 DEF Carriers
  <2> QED
    BY <1>1, <1>3, <2>1 DEF One
<1>4. CASE Carries(t, i) /\ ~Carries(lane[x], i)
  <2>1. Carriers(i)' = Carriers(i) \cup {x} /\ x \notin Carriers(i)
    BY <1>2, <1>4 DEF Carriers
  <2>2. IsFiniteSet(Carriers(i)') /\ Cardinality(Carriers(i)') = Cardinality(Carriers(i)) + 1
    BY <1>1, <2>1, OneMemberMore
  <2> QED
    BY <1>1, <1>4, <2>2 DEF One
<1>5. CASE ~Carries(t, i) /\ Carries(lane[x], i)
  <2>1. Carriers(i)' = Carriers(i) \ {x} /\ x \in Carriers(i)
    BY <1>2, <1>5 DEF Carriers
  <2>2. /\ IsFiniteSet(Carriers(i)') /\ Cardinality(Carriers(i)') \in Nat
        /\ Cardinality(Carriers(i)') = Cardinality(Carriers(i)) - 1
    BY <1>1, <2>1, OneMemberLess
  <2> QED
    BY <1>1, <1>5, <2>2 DEF One
<1> QED
  BY <1>3, <1>4, <1>5

\* A step of one lane that lists nothing: how the claims on an operation change.
LEMMA LaneClaims ==
    ASSUME BatchInv, NEW i \in Ops, NEW x \in Runs \X Lanes, NEW t \in LaneStates,
           lane' = [lane EXCEPT ![x] = t], todo' = todo, made'[i] \in Nat
    PROVE  /\ IsFiniteSet(Carriers(i)') /\ Claims(i)' \in Nat
           /\ (Carries(t, i) <=> Carries(lane[x], i)) => Claims(i)' + made[i] = Claims(i) + made'[i]
           /\ Carries(t, i) /\ ~Carries(lane[x], i) => Claims(i)' + made[i] = Claims(i) + made'[i] + 1
           /\ ~Carries(t, i) /\ Carries(lane[x], i) => Claims(i)' + made[i] + 1 = Claims(i) + made'[i]
<1>1. /\ IsFiniteSet(Carriers(i)') /\ Cardinality(Carriers(i)') \in Nat
      /\ Cardinality(Carriers(i)') + One(Carries(lane[x], i)) = Cardinality(Carriers(i)) + One(Carries(t, i))
  BY CarriersMove
<1>2. Lists(i)' = Lists(i)
  BY DEF Lists
<1>3. Claims(i)' = made'[i] + Cardinality(Carriers(i)') + Cardinality(Lists(i))
  BY <1>2 DEF Claims
<1>4. Claims(i) = made[i] + Cardinality(Carriers(i)) + Cardinality(Lists(i))
  BY DEF Claims
<1>5. /\ Cardinality(Lists(i)) \in Nat /\ Cardinality(Carriers(i)) \in Nat /\ made[i] \in Nat
  BY ListsFinite
<1> QED
  BY <1>1, <1>3, <1>4, <1>5 DEF One

\* The active run's claim survives a step of a lane that neither dies nor was to mark the
\* operation started.
LEMMA ClaimStays ==
    ASSUME BatchInv, NEW i \in Ops, NEW x \in Runs \X Lanes, NEW t \in LaneStates,
           lane' = [lane EXCEPT ![x] = t], todo' = todo, job' = job,
           t.at # "dead" \/ lane[x].at = "dead", ~(lane[x].at = "start" /\ lane[x].op = i), Claimed(i)
    PROVE  Claimed(i)'
<1>1. lane \in [Runs \X Lanes -> LaneStates] /\ job.run \in Runs
  BY BatchFacts DEF Claimed
<1>2. ASSUME NEW l \in Lanes PROVE lane'[<<job.run, l>>].at # "dead"
  BY <1>1, <1>2 DEF Claimed
<1>3. ASSUME NEW l \in Lanes, lane[<<job.run, l>>].op = i, lane[<<job.run, l>>].at = "start"
      PROVE  lane'[<<job.run, l>>].op = i /\ lane'[<<job.run, l>>].at = "start"
  BY <1>1, <1>3
<1> QED
  BY <1>1, <1>2, <1>3 DEF Claimed

\* Splits are only ever added: what was made stays made.
LEMMA WorkStays ==
    ASSUME BatchInv, made' \in [Ops -> Nat], \A i \in Ops : made'[i] >= made[i],
           batch' = "completed" => batch = "completed" \/ AllMade,
           \A y \in Runs \X Lanes :
              /\ lane'[y].seen = "completed" => lane[y].seen = "completed" \/ AllMade
              /\ lane'[y].at = "complete" => made'[lane'[y].op] > 0,
           \A i \in Ops : op'[i].status = "completed" => op[i].status = "completed" \/ made'[i] > 0
    PROVE  WorkDone'
<1>1. made \in [Ops -> Nat] /\ WorkDone
  BY BatchFacts
<1>2. AllMade => AllMade'
  BY <1>1 DEF AllMade
<1>3. \A i \in Ops : made[i] > 0 => made'[i] > 0
  BY <1>1
<1> QED
  BY <1>1, <1>2, <1>3 DEF WorkDone

\* A step of a lane that has work.
LEMMA LaneStep ==
    ASSUME BatchInv, NEW x \in Runs \X Lanes, NEW t \in LaneStates,
           lane' = [lane EXCEPT ![x] = t], lane[x].at # "idle",
           todo' = todo, job' = job, admin' = admin,
           batch' \in BatchStatus, op' \in [Ops -> OpRows], made' \in [Ops -> Nat], faults' \in Nat,
           \A i \in Ops : made'[i] >= made[i],
           batch' = "completed" => batch = "completed" \/ lane[x].seen = "completed",
           t.seen = "completed" => lane[x].seen = "completed" \/ AllMade,
           t.at = "complete" => made'[t.op] > 0,
           \A i \in Ops : op'[i].status = "completed" => op[i].status = "completed" \/ made'[i] > 0,
           \A i \in Ops : SplitsBounded(i)'
    PROVE  BatchInv'
<1>1. /\ lane \in [Runs \X Lanes -> LaneStates] /\ made \in [Ops -> Nat] /\ WorkDone
      /\ \A r \in Runs : r > job.run => todo[r] = {} /\ \A l \in Lanes : lane[<<r, l>>].at = "idle"
  BY BatchFacts
<1>2. PICK r \in Runs, l \in Lanes : x = <<r, l>>
  OBVIOUS
<1>3. ~(r > job.run)
  BY <1>1, <1>2
<1>4. lane' \in [Runs \X Lanes -> LaneStates]
  BY <1>1
<1>5. \A s \in Runs : s > job'.run => todo'[s] = {} /\ \A k \in Lanes : lane'[<<s, k>>].at = "idle"
  BY <1>1, <1>2, <1>3
<1>6. BatchRows'
  BY <1>4, <1>5, BatchFacts DEF BatchRows
<1>7. WorkDone'
  <2>1. \A y \in Runs \X Lanes :
              /\ lane'[y].seen = "completed" => lane[y].seen = "completed" \/ AllMade
              /\ lane'[y].at = "complete" => made'[lane'[y].op] > 0
    <3> SUFFICES ASSUME NEW y \in Runs \X Lanes
                 PROVE  /\ lane'[y].seen = "completed" => lane[y].seen = "completed" \/ AllMade
                        /\ lane'[y].at = "complete" => made'[lane'[y].op] > 0
      OBVIOUS
    <3>1. CASE y = x
      BY <1>1, <3>1
    <3>2. CASE y # x
      <4>1. lane'[y] = lane[y] /\ lane[y].op \in Ops
        BY <1>1, <3>2 DEF LaneStates
      <4>2. lane[y].at = "complete" => made[lane[y].op] > 0
        BY <1>1 DEF WorkDone
      <4> QED
        BY <1>1, <4>1, <4>2
    <3> QED
      BY <3>1, <3>2
  <2>2. batch' = "completed" => batch = "completed" \/ AllMade
    BY <1>1 DEF WorkDone
  <2> QED
    BY <2>1, <2>2, WorkStays
<1> QED
  BY <1>6, <1>7 DEF BatchInv

LEMMA LaneFacts ==
    ASSUME BatchInv, NEW x \in Runs \X Lanes
    PROVE  /\ lane[x] \in LaneStates /\ lane[x].op \in Ops /\ op[lane[x].op] \in OpRows
           /\ op[lane[x].op].retries \in Nat
BY BatchFacts DEF LaneStates, OpRows

\* A step that leaves an operation's row alone and adds no claim to it.
LEMMA BoundStays ==
    ASSUME BatchInv, NEW i \in Ops, IsFiniteSet(Carriers(i)'), Claims(i)' \in Nat,
           Claims(i)' <= Claims(i), op'[i].status = op[i].status, admin' = admin, faults' = faults,
           Claimed(i) => Claimed(i)'
    PROVE  SplitsBounded(i)'
<1>1. SplitsBounded(i) /\ faults \in Nat /\ Claims(i) \in Nat
  BY BatchFacts, ListsFinite
<1>2. ComesBack(i)' <=> ComesBack(i)
  BY DEF ComesBack
<1> QED
  BY <1>1, <1>2 DEF SplitsBounded, One

LEMMA StartedStep ==
    ASSUME BatchInv, NEW x \in Runs \X Lanes, markOperationStarted(x)
    PROVE  BatchInv'
<1> DEFINE t == [lane[x] EXCEPT !.at = "create"]
           j == lane[x].op
<1>1. /\ lane[x].at = "start" /\ op' = [op EXCEPT ![j].status = "processing"]
      /\ batch' = batch /\ job' = job /\ todo' = todo /\ admin' = admin /\ made' = made /\ faults' = faults
  BY DEF markOperationStarted, SetOp
<1>2. /\ t \in LaneStates /\ t.at = "create" /\ t.op = j /\ t.seen = lane[x].seen
      /\ lane' = [lane EXCEPT ![x] = t]
  BY LaneFacts, BatchFacts DEF markOperationStarted, Goto, LaneStates
<1>3. op' \in [Ops -> OpRows] /\ \A i \in Ops : op'[i].status = IF i = j THEN "processing" ELSE op[i].status
  BY <1>1, LaneFacts, BatchFacts DEF OpRows, OpStatus
<1> HIDE DEF t
<1>4. ASSUME NEW i \in Ops PROVE SplitsBounded(i)'
  <2>1. SplitsBounded(i) /\ faults \in Nat
    BY BatchFacts
  <2>2. made'[i] \in Nat /\ made'[i] = made[i] /\ Claims(i) \in Nat
    BY <1>1, ListsFinite
  <2>3. Carries(t, i) <=> Carries(lane[x], i)
    BY <1>1, <1>2 DEF Carries
  <2>4. IsFiniteSet(Carriers(i)') /\ Claims(i)' = Claims(i)
    <3>1. todo' = todo /\ lane' = [lane EXCEPT ![x] = t] /\ t \in LaneStates
      BY <1>1, <1>2
    <3>2. IsFiniteSet(Carriers(i)') /\ Claims(i)' \in Nat /\ Claims(i)' + made[i] = Claims(i) + made'[i]
      BY <2>2, <2>3, <3>1, LaneClaims
    <3>3. made[i] \in Nat
      BY ListsFinite
    <3> QED
      BY <2>2, <3>2, <3>3
  <2>5. CASE i = j
    BY <1>1, <1>3, <2>1, <2>2, <2>4, <2>5 DEF SplitsBounded, ComesBack, One
  <2>6. CASE i # j
    <3>1. Claimed(i) => Claimed(i)'
      BY <1>1, <1>2, <2>6, ClaimStays
    <3>2. op'[i].status = op[i].status
      BY <1>3, <2>6
    <3> QED
      BY <1>1, <2>2, <2>4, <3>1, <3>2, BoundStays
  <2> QED
    BY <2>5, <2>6
<1>5. /\ batch' \in BatchStatus /\ made' \in [Ops -> Nat] /\ faults' \in Nat
      /\ \A i \in Ops : made'[i] >= made[i]
  BY <1>1, BatchFacts
<1>6. \A i \in Ops : op'[i].status = "completed" => op[i].status = "completed"
  BY <1>3
<1> QED
  BY <1>1, <1>2, <1>3, <1>4, <1>5, <1>6, LaneStep

LEMMA CreateStep ==
    ASSUME BatchInv, NEW x \in Runs \X Lanes, CreateSplit(x)
    PROVE  BatchInv'
<1> DEFINE j == lane[x].op
<1>1. /\ lane[x].at = "create" /\ op' = op /\ j \in Ops
      /\ batch' = batch /\ job' = job /\ todo' = todo /\ admin' = admin /\ faults' = faults
  BY LaneFacts DEF CreateSplit
<1>2. PICK t \in LaneStates :
        /\ lane' = [lane EXCEPT ![x] = t] /\ t.op = j /\ t.seen = lane[x].seen
        /\ \/ t.at = "complete" /\ made' = [made EXCEPT ![j] = @ + 1]
           \/ t.at = "fail" /\ made' = made
  <2>1. ASSUME NEW place \in {"complete", "fail"}, Goto(x, place)
        PROVE  LET t == [lane[x] EXCEPT !.at = place]
               IN  /\ t \in LaneStates /\ lane' = [lane EXCEPT ![x] = t] /\ t.op = j
                   /\ t.seen = lane[x].seen /\ t.at = place
    BY <2>1, LaneFacts, BatchFacts DEF Goto, LaneStates
  <2>2. CASE Goto(x, "complete") /\ made' = [made EXCEPT ![j] = @ + 1]
    BY <2>1, <2>2
  <2>3. CASE Goto(x, "fail") /\ made' = made
    BY <2>1, <2>3
  <2> QED
    BY <2>2, <2>3 DEF CreateSplit
<1>3. /\ made' \in [Ops -> Nat] /\ \A i \in Ops : made'[i] >= made[i] /\ (i # j => made'[i] = made[i])
      /\ t.at = "complete" => made'[j] = made[j] + 1 /\ made'[j] > 0
      /\ t.at # "complete" => made'[j] = made[j]
  BY <1>1, <1>2, BatchFacts
<1>4. ASSUME NEW i \in Ops PROVE SplitsBounded(i)'
  <2>1. /\ made'[i] \in Nat /\ made[i] \in Nat /\ Claims(i) \in Nat
    BY <1>3, ListsFinite
  <2>2. /\ i = j => Carries(lane[x], i)
        /\ i # j => ~Carries(lane[x], i) /\ ~Carries(t, i)
        /\ i = j => (Carries(t, i) <=> t.at # "complete")
    BY <1>1, <1>2 DEF Carries
  <2>3. todo' = todo /\ lane' = [lane EXCEPT ![x] = t] /\ t \in LaneStates
    BY <1>1, <1>2
  <2>4. /\ IsFiniteSet(Carriers(i)') /\ Claims(i)' \in Nat
        /\ (Carries(t, i) <=> Carries(lane[x], i)) => Claims(i)' + made[i] = Claims(i) + made'[i]
        /\ ~Carries(t, i) /\ Carries(lane[x], i) => Claims(i)' + made[i] + 1 = Claims(i) + made'[i]
    BY <2>1, <2>3, LaneClaims
  <2>5. Claims(i)' = Claims(i)
    BY <1>1, <1>3, <2>1, <2>2, <2>4
  <2>6. Claimed(i) => Claimed(i)'
    BY <1>1, <1>2, ClaimStays
  <2> QED
    BY <1>1, <2>1, <2>4, <2>5, <2>6, BoundStays
<1>5. batch' \in BatchStatus /\ op' \in [Ops -> OpRows] /\ faults' \in Nat
  BY <1>1, BatchFacts
<1> QED
  BY <1>1, <1>2, <1>3, <1>4, <1>5, LaneStep

LEMMA CompletedStep ==
    ASSUME BatchInv, NEW x \in Runs \X Lanes, markOperationCompleted(x)
    PROVE  BatchInv'
<1> DEFINE t == [lane[x] EXCEPT !.at = "count"]
           j == lane[x].op
<1>1. /\ lane[x].at = "complete" /\ op' = [op EXCEPT ![j].status = "completed"]
      /\ batch' = batch /\ job' = job /\ todo' = todo /\ admin' = admin /\ made' = made /\ faults' = faults
  BY DEF markOperationCompleted, SetOp
<1>2. /\ t \in LaneStates /\ t.at = "count" /\ t.op = j /\ t.seen = lane[x].seen
      /\ lane' = [lane EXCEPT ![x] = t]
  BY LaneFacts, BatchFacts DEF markOperationCompleted, Goto, LaneStates
<1>3. op' \in [Ops -> OpRows] /\ \A i \in Ops : op'[i].status = IF i = j THEN "completed" ELSE op[i].status
  BY <1>1, LaneFacts, BatchFacts DEF OpRows, OpStatus
<1> HIDE DEF t
<1>4. ASSUME NEW i \in Ops PROVE SplitsBounded(i)'
  <2>1. SplitsBounded(i) /\ faults \in Nat
    BY BatchFacts
  <2>2. made'[i] \in Nat /\ made'[i] = made[i] /\ Claims(i) \in Nat
    BY <1>1, ListsFinite
  <2>3. Carries(t, i) <=> Carries(lane[x], i)
    BY <1>1, <1>2 DEF Carries
  <2>4. todo' = todo /\ lane' = [lane EXCEPT ![x] = t] /\ t \in LaneStates
    BY <1>1, <1>2
  <2>5. IsFiniteSet(Carriers(i)') /\ Claims(i)' \in Nat /\ Claims(i)' + made[i] = Claims(i) + made'[i]
    BY <2>2, <2>3, <2>4, LaneClaims
  <2>6. Claims(i)' = Claims(i)
    BY <2>2, <2>5
  <2>7. CASE i = j
    BY <1>1, <1>3, <2>1, <2>2, <2>5, <2>6, <2>7 DEF SplitsBounded, ComesBack, One
  <2>8. CASE i # j
    <3>1. Claimed(i) => Claimed(i)'
      BY <1>1, <1>2, <2>8, ClaimStays
    <3>2. op'[i].status = op[i].status
      BY <1>3, <2>8
    <3> QED
      BY <1>1, <2>2, <2>5, <2>6, <3>1, <3>2, BoundStays
  <2> QED
    BY <2>7, <2>8
<1>5. /\ batch' \in BatchStatus /\ made' \in [Ops -> Nat] /\ faults' \in Nat
      /\ \A i \in Ops : made'[i] >= made[i]
  BY <1>1, BatchFacts
<1>6. \A i \in Ops : op'[i].status = "completed" => op[i].status = "completed" \/ made'[i] > 0
  <2>1. made'[j] > 0
    BY <1>1, BatchFacts DEF WorkDone
  <2> QED
    BY <1>3, <2>1
<1> QED
  BY <1>1, <1>2, <1>3, <1>4, <1>5, <1>6, LaneStep

LEMMA FailedStep ==
    ASSUME BatchInv, NEW x \in Runs \X Lanes, markOperationFailed(x)
    PROVE  BatchInv'
<1> DEFINE t == [lane[x] EXCEPT !.at = "count", !.failing = TRUE]
           j == lane[x].op
           n == op[j].retries + 1
           entry == [status |-> IF n < RetryAttempts THEN "retrying" ELSE "failed", retries |-> n]
<1>1. /\ lane[x].at = "fail" /\ op' = [op EXCEPT ![j] = entry]
      /\ batch' = batch /\ job' = job /\ todo' = todo /\ admin' = admin /\ made' = made /\ faults' = faults
  BY DEF markOperationFailed
<1>2. /\ t \in LaneStates /\ t.at = "count" /\ t.op = j /\ t.seen = lane[x].seen
      /\ lane' = [lane EXCEPT ![x] = t]
  BY LaneFacts, BatchFacts DEF markOperationFailed, LaneStates
<1>3. entry \in OpRows /\ entry.status \in {"retrying", "failed"}
  BY LaneFacts DEF OpRows, OpStatus
<1> HIDE DEF t, entry
<1>4. /\ op' \in [Ops -> OpRows] /\ op'[j].status \in {"retrying", "failed"}
      /\ \A i \in Ops : i # j => op'[i] = op[i]
  BY <1>1, <1>3, LaneFacts, BatchFacts
<1>5. ASSUME NEW i \in Ops PROVE SplitsBounded(i)'
  <2>1. SplitsBounded(i) /\ faults \in Nat
    BY BatchFacts
  <2>2. made'[i] \in Nat /\ made'[i] = made[i] /\ Claims(i) \in Nat
    BY <1>1, ListsFinite
  <2>3. ~Carries(t, i) /\ (Carries(lane[x], i) <=> i = j)
    BY <1>1, <1>2 DEF Carries
  <2>4. todo' = todo /\ lane' = [lane EXCEPT ![x] = t] /\ t \in LaneStates
    BY <1>1, <1>2
  <2>5. /\ IsFiniteSet(Carriers(i)') /\ Claims(i)' \in Nat
        /\ (Carries(t, i) <=> Carries(lane[x], i)) => Claims(i)' + made[i] = Claims(i) + made'[i]
        /\ ~Carries(t, i) /\ Carries(lane[x], i) => Claims(i)' + made[i] + 1 = Claims(i) + made'[i]
    BY <2>2, <2>4, LaneClaims
  <2>6. /\ i = j => Claims(i)' + 1 = Claims(i)
        /\ i # j => Claims(i)' = Claims(i)
    BY <2>2, <2>3, <2>5
  <2>7. CASE i = j
    <3>1. op'[i].status # "pending"
      BY <1>4, <2>7
    <3>2. Claims(i) <= 1 + faults
      BY <2>1, <2>2 DEF SplitsBounded, One
    <3>3. Claims(i)' + One(ComesBack(i)') <= 1 + faults'
      BY <1>1, <2>1, <2>2, <2>5, <2>6, <2>7, <3>2 DEF One
    <3> QED
      BY <2>5, <3>1, <3>3 DEF SplitsBounded
  <2>8. CASE i # j
    <3>1. Claimed(i) => Claimed(i)'
      BY <1>1, <1>2, <2>8, ClaimStays
    <3>2. op'[i].status = op[i].status
      BY <1>4, <2>8
    <3> QED
      BY <1>1, <2>2, <2>5, <2>6, <2>8, <3>1, <3>2, BoundStays
  <2> QED
    BY <2>7, <2>8
<1>6. /\ batch' \in BatchStatus /\ made' \in [Ops -> Nat] /\ faults' \in Nat
      /\ \A i \in Ops : made'[i] >= made[i]
  BY <1>1, BatchFacts
<1>7. \A i \in Ops : op'[i].status = "completed" => op[i].status = "completed" \/ made'[i] > 0
  BY <1>4
<1> QED
  BY <1>1, <1>2, <1>4, <1>5, <1>6, <1>7, LaneStep

LEMMA CountedRight ==
    ASSUME BatchInv
    PROVE  Counted \in BatchStatus /\ (Counted = "completed" => AllMade)
<1>1. IsFiniteSet(Ops) /\ Cardinality(Ops) = NumOps
  BY BatchConstants, FS_Interval DEF Ops
<1>2. /\ IsFiniteSet(With("completed")) /\ With("completed") \subseteq Ops
      /\ Cardinality(With("completed")) = NumOps => With("completed") = Ops
  BY <1>1, FS_Subset DEF With
<1>3. Cardinality(With("completed")) \in Nat
  BY <1>2, FS_CardinalityType
<1>4. batch \in BatchStatus /\ (batch = "completed" => AllMade)
  BY BatchFacts DEF WorkDone
<1>5. CASE /\ Cardinality(With("completed")) + Cardinality(With("failed")) = NumOps
           /\ With("failed") = {}
  <2>1. Cardinality(With("failed")) = 0
    BY <1>5, FS_EmptySet
  <2>2. With("completed") = Ops
    BY <1>2, <1>3, <1>5, <2>1
  <2>3. AllMade
    BY <2>2, BatchFacts DEF With, WorkDone, AllMade
  <2>4. Counted = "completed"
    BY <1>5 DEF Counted
  <2> QED
    BY <2>3, <2>4 DEF BatchStatus
<1>6. CASE ~(/\ Cardinality(With("completed")) + Cardinality(With("failed")) = NumOps
             /\ With("failed") = {})
  <2>1. Counted \in {"failed", "partial", "processing", batch}
    BY <1>6 DEF Counted
  <2> QED
    BY <1>4, <2>1 DEF BatchStatus
<1> QED
  BY <1>5, <1>6

LEMMA BatchCountStep ==
    ASSUME BatchInv, NEW x \in Runs \X Lanes, updateProgress(x) \/ SaveProgress(x)
    PROVE  BatchInv'
<1>1. /\ lane[x].at \in {"count", "save"} /\ op' = op
      /\ job' = job /\ todo' = todo /\ admin' = admin /\ made' = made /\ faults' = faults
  BY DEF updateProgress, SaveProgress
<1>2. PICK t \in LaneStates :
        /\ lane' = [lane EXCEPT ![x] = t] /\ t.at \in {"save", "idle"}
        /\ t.seen = "completed" => AllMade
  <2>1. CASE updateProgress(x)
    <3> DEFINE t == [lane[x] EXCEPT !.at = "save", !.seen = Counted]
    <3>1. /\ t \in LaneStates /\ t.at = "save" /\ t.seen = Counted
          /\ lane' = [lane EXCEPT ![x] = t]
      BY <2>1, LaneFacts, BatchFacts, CountedRight DEF updateProgress, LaneStates
    <3> HIDE DEF t
    <3> QED
      BY <3>1, CountedRight
  <2>2. CASE SaveProgress(x)
    BY <2>2, BatchFacts DEF SaveProgress
  <2> QED
    BY <2>1, <2>2
<1>3. /\ batch' \in BatchStatus
      /\ batch' = "completed" => batch = "completed" \/ lane[x].seen = "completed"
  BY LaneFacts, BatchFacts DEF updateProgress, SaveProgress, LaneStates
<1>4. ASSUME NEW i \in Ops PROVE SplitsBounded(i)'
  <2>1. made'[i] \in Nat /\ made'[i] = made[i] /\ Claims(i) \in Nat
    BY <1>1, ListsFinite
  <2>2. ~Carries(t, i) /\ ~Carries(lane[x], i)
    BY <1>1, <1>2 DEF Carries
  <2>3. todo' = todo /\ lane' = [lane EXCEPT ![x] = t] /\ t \in LaneStates
    BY <1>1, <1>2
  <2>4. IsFiniteSet(Carriers(i)') /\ Claims(i)' \in Nat /\ Claims(i)' + made[i] = Claims(i) + made'[i]
    BY <2>1, <2>2, <2>3, LaneClaims
  <2>5. Claims(i)' = Claims(i)
    BY <2>1, <2>4
  <2>6. Claimed(i) => Claimed(i)'
    BY <1>1, <1>2, ClaimStays
  <2> QED
    BY <1>1, <2>1, <2>4, <2>5, <2>6, BoundStays
<1>5. /\ op' \in [Ops -> OpRows] /\ made' \in [Ops -> Nat] /\ faults' \in Nat
      /\ \A i \in Ops : made'[i] >= made[i]
  BY <1>1, BatchFacts
<1> QED
  BY <1>1, <1>2, <1>3, <1>4, <1>5, LaneStep

LEMMA FailsStep ==
    ASSUME BatchInv, NEW x \in Runs \X Lanes, StatementFails(x)
    PROVE  BatchInv'
<1> DEFINE place == IF lane[x].failing \/ lane[x].at = "fail" THEN "dead" ELSE "fail"
           t == [lane[x] EXCEPT !.at = place]
<1>1. /\ lane[x].at \in {"start", "complete", "fail", "count", "save"} /\ op' = op
      /\ batch' = batch /\ job' = job /\ todo' = todo /\ admin' = admin /\ made' = made
      /\ faults' = faults + 1 /\ faults' \in Nat /\ faults \in Nat
  BY BatchFacts DEF StatementFails, Fault
<1>2. place \in {"dead", "fail"} /\ (lane[x].at = "fail" => place = "dead")
  OBVIOUS
<1> HIDE DEF place
<1>3. /\ t \in LaneStates /\ t.at = place /\ t.op = lane[x].op /\ t.seen = lane[x].seen
      /\ lane' = [lane EXCEPT ![x] = t]
  BY <1>2, LaneFacts, BatchFacts DEF StatementFails, Goto, LaneStates, place
<1> HIDE DEF t
<1>4. ASSUME NEW i \in Ops PROVE SplitsBounded(i)'
  <2>1. SplitsBounded(i) /\ made'[i] \in Nat /\ made'[i] = made[i] /\ Claims(i) \in Nat
    BY <1>1, ListsFinite, BatchFacts
  <2>2. todo' = todo /\ lane' = [lane EXCEPT ![x] = t] /\ t \in LaneStates
    BY <1>1, <1>3
  <2>3. /\ IsFiniteSet(Carriers(i)') /\ Claims(i)' \in Nat
        /\ (Carries(t, i) <=> Carries(lane[x], i)) => Claims(i)' + made[i] = Claims(i) + made'[i]
        /\ Carries(t, i) /\ ~Carries(lane[x], i) => Claims(i)' + made[i] = Claims(i) + made'[i] + 1
        /\ ~Carries(t, i) /\ Carries(lane[x], i) => Claims(i)' + made[i] + 1 = Claims(i) + made'[i]
    BY <2>1, <2>2, LaneClaims
  <2>4. Claims(i)' <= Claims(i) + 1 /\ (~Carries(t, i) \/ Carries(lane[x], i) => Claims(i)' <= Claims(i))
    BY <2>1, <2>3
  <2>5. CASE Carries(t, i) /\ ~Carries(lane[x], i)
    <3>1. ~(lane[x].at = "start" /\ lane[x].op = i) /\ t.at # "dead"
      BY <1>3, <2>5 DEF Carries
    <3>2. Claimed(i) => Claimed(i)'
      BY <1>1, <1>3, <3>1, ClaimStays
    <3>3. ComesBack(i)' <=> ComesBack(i)
      BY <1>1 DEF ComesBack
    <3> QED
      BY <1>1, <2>1, <2>3, <2>4, <3>2, <3>3 DEF SplitsBounded, One
  <2>6. CASE ~Carries(t, i) \/ Carries(lane[x], i)
    <3>1. ComesBack(i)' <=> ComesBack(i)
      BY <1>1 DEF ComesBack
    <3> QED
      BY <1>1, <2>1, <2>3, <2>4, <2>6, <3>1 DEF SplitsBounded, One
  <2> QED
    BY <2>5, <2>6
<1>5. /\ batch' \in BatchStatus /\ op' \in [Ops -> OpRows] /\ made' \in [Ops -> Nat]
      /\ \A i \in Ops : made'[i] >= made[i]
  BY <1>1, BatchFacts
<1>6. t.at # "complete"
  BY <1>2, <1>3
<1>7. lane[x].at # "idle"
  BY <1>1
<1> QED
  BY <1>1, <1>3, <1>4, <1>5, <1>6, <1>7, LaneStep

\* A lane takes the first operation of its run's list: the claim moves to the lane.
LEMMA ShiftStep ==
    ASSUME BatchInv, NEW x \in Runs \X Lanes, Shift(x)
    PROVE  BatchInv'
<1> DEFINE r == x[1]
           left == todo[r]
           i0 == CHOOSE i \in left : \A j \in left : i <= j
           t == [Free EXCEPT !.at = "start", !.op = i0]
<1>1. /\ lane[x].at = "idle" /\ left # {} /\ todo' = [todo EXCEPT ![r] = left \ {i0}]
      /\ lane' = [lane EXCEPT ![x] = t]
      /\ batch' = batch /\ op' = op /\ job' = job /\ admin' = admin /\ made' = made /\ faults' = faults
  BY DEF Shift
<1>2. r \in Runs /\ left \in SUBSET Ops /\ Ops \subseteq Nat
  BY BatchFacts DEF Ops
<1>3. i0 \in left /\ i0 \in Ops
  <2>1. \E i \in left : \A j \in left : i <= j
    BY <1>1, <1>2, LeastNat
  <2> QED
    BY <1>2, <2>1
<1> HIDE DEF i0
<1>4. t \in LaneStates /\ t.at = "start" /\ t.op = i0 /\ t.seen = "pending"
  BY <1>3, BatchFacts DEF LaneStates
<1> HIDE DEF t
<1>5. ~(r > job.run)
  BY <1>1, <1>2, BatchFacts
<1>6. todo' \in [Runs -> SUBSET Ops] /\ lane' \in [Runs \X Lanes -> LaneStates]
  BY <1>1, <1>2, <1>4, BatchFacts
<1>7. \A s \in Runs : s > job.run => todo'[s] = {} /\ \A l \in Lanes : lane'[<<s, l>>].at = "idle"
  <2> SUFFICES ASSUME NEW s \in Runs, s > job.run, NEW l \in Lanes
               PROVE  todo'[s] = {} /\ (\A k \in Lanes : lane'[<<s, k>>].at = "idle")
    BY BatchFacts, <1>1, <1>5
  <2>1. s # r /\ todo[s] = {} /\ \A k \in Lanes : lane[<<s, k>>].at = "idle"
    BY <1>5, BatchFacts
  <2>2. ASSUME NEW k \in Lanes PROVE lane'[<<s, k>>] = lane[<<s, k>>]
    <3>1. <<s, k>> # x
      BY <2>1
    <3> QED
      BY <1>1, <3>1, BatchFacts
  <2> QED
    BY <1>1, <2>1, <2>2, BatchFacts
<1>8. BatchRows'
  BY <1>1, <1>6, <1>7, BatchFacts DEF BatchRows
<1>9. WorkDone'
  <2>1. \A y \in Runs \X Lanes :
              /\ lane'[y].seen = "completed" => lane[y].seen = "completed" \/ AllMade
              /\ lane'[y].at = "complete" => made'[lane'[y].op] > 0
    BY <1>1, <1>4, BatchFacts DEF WorkDone
  <2>2. made' \in [Ops -> Nat] /\ \A i \in Ops : made'[i] >= made[i]
    BY <1>1, BatchFacts
  <2> QED
    BY <1>1, <2>1, <2>2, WorkStays
<1>10. ASSUME NEW i \in Ops PROVE SplitsBounded(i)'
  <2>1. /\ IsFiniteSet(Carriers(i)') /\ Cardinality(Carriers(i)') \in Nat
        /\ Cardinality(Carriers(i)') + One(Carries(lane[x], i))
           = Cardinality(Carriers(i)) + One(Carries(t, i))
    BY <1>1, <1>4, CarriersMove
  <2>2. /\ IsFiniteSet(Lists(i)) /\ Cardinality(Lists(i)) \in Nat /\ Cardinality(Carriers(i)) \in Nat
        /\ made[i] \in Nat
    BY ListsFinite
  <2>3. ~Carries(lane[x], i) /\ (Carries(t, i) <=> i = i0)
    BY <1>1, <1>4 DEF Carries
  <2>4. Lists(i)' = {s \in Runs : i \in todo'[s]}
    BY DEF Lists
  <2>5. /\ i = i0 => Lists(i)' = Lists(i) \ {r} /\ r \in Lists(i)
        /\ i # i0 => Lists(i)' = Lists(i)
    BY <1>1, <1>2, <1>3, <2>4, BatchFacts DEF Lists
  <2>6. /\ Cardinality(Lists(i)') \in Nat
        /\ i = i0 => Cardinality(Lists(i)') = Cardinality(Lists(i)) - 1
        /\ i # i0 => Cardinality(Lists(i)') = Cardinality(Lists(i))
    BY <2>2, <2>5, OneMemberLess
  <2>7. Cardinality(Carriers(i)') + Cardinality(Lists(i)') = Cardinality(Carriers(i)) + Cardinality(Lists(i))
    BY <2>1, <2>2, <2>3, <2>6 DEF One
  <2>8. Claims(i)' = made[i] + (Cardinality(Carriers(i)') + Cardinality(Lists(i)'))
    BY <1>1, <2>1, <2>2, <2>6 DEF Claims
  <2>9. Claims(i)' = Claims(i) /\ Claims(i)' \in Nat
    BY <2>2, <2>7, <2>8, ListsFinite DEF Claims
  <2>10. Claimed(i) => Claimed(i)'
    <3> SUFFICES ASSUME Claimed(i) PROVE Claimed(i)'
      OBVIOUS
    <3>1. job.run \in Runs /\ lane \in [Runs \X Lanes -> LaneStates]
      BY BatchFacts DEF Claimed
    <3>2. ASSUME NEW l \in Lanes PROVE lane'[<<job.run, l>>].at # "dead"
      BY <1>1, <1>4, <3>1 DEF Claimed
    <3>3. ASSUME NEW l \in Lanes, lane[<<job.run, l>>].op = i, lane[<<job.run, l>>].at = "start"
          PROVE  lane'[<<job.run, l>>].op = i /\ lane'[<<job.run, l>>].at = "start"
      BY <1>1, <3>1, <3>3
    <3>4. CASE i \in todo[job.run]
      <4>1. CASE i \in todo'[job.run]
        BY <1>1, <3>2, <4>1 DEF Claimed
      <4>2. CASE i \notin todo'[job.run]
        <5>1. job.run = r /\ i = i0
          BY <1>1, <1>2, <3>1, <3>4, <4>2, BatchFacts
        <5>2. PICK l \in Lanes : x = <<job.run, l>>
          BY <5>1
        <5>3. lane'[<<job.run, l>>].op = i /\ lane'[<<job.run, l>>].at = "start"
          BY <1>1, <1>4, <3>1, <5>1, <5>2
        <5> QED
          BY <1>1, <3>2, <5>3 DEF Claimed
      <4> QED
        BY <4>1, <4>2
    <3>5. CASE i \notin todo[job.run]
      BY <1>1, <3>2, <3>3, <3>5 DEF Claimed
    <3> QED
      BY <3>4, <3>5
  <2> QED
    BY <1>1, <2>1, <2>9, <2>10, ListsFinite, BoundStays
<1> QED
  BY <1>8, <1>9, <1>10 DEF BatchInv

\* A new run lists what is pending: what was the next run's claim is now this one's.
LEMMA HandleStep ==
    ASSUME BatchInv, handleSplitBatch
    PROVE  BatchInv'
<1> DEFINE r == job.run + 1
<1>1. /\ job.state = "waiting" /\ r <= MaxRuns /\ batch' = "processing"
      /\ job' = [state |-> "active", run |-> r, attempts |-> job.attempts + 1]
      /\ todo' = [todo EXCEPT ![r] = With("pending")]
      /\ op' = op /\ lane' = lane /\ admin' = admin /\ made' = made /\ faults' = faults
  BY DEF handleSplitBatch
<1>2. /\ r \in Runs /\ r > job.run /\ job.run \in Nat /\ job.attempts \in Nat /\ MaxRuns \in Nat
  BY <1>1, BatchFacts DEF BatchQueue, Runs
<1>3. /\ job' \in BatchQueue /\ job'.state = "active" /\ job'.run = r
  BY <1>1, <1>2 DEF BatchQueue
<1>4. todo' \in [Runs -> SUBSET Ops]
  BY <1>1, BatchFacts DEF With
<1> HIDE DEF r
<1>5. ASSUME NEW s \in Runs, s > r PROVE todo'[s] = {} /\ \A l \in Lanes : lane'[<<s, l>>].at = "idle"
  <2>1. s > job.run /\ s # r
    BY <1>2, <1>5 DEF Runs, r
  <2> QED
    BY <1>1, <2>1, BatchFacts
<1>6. BatchRows'
  BY <1>1, <1>2, <1>3, <1>4, <1>5, BatchFacts DEF BatchRows, BatchStatus
<1>7. WorkDone'
  <2>1. \A y \in Runs \X Lanes :
              /\ lane'[y].seen = "completed" => lane[y].seen = "completed" \/ AllMade
              /\ lane'[y].at = "complete" => made'[lane'[y].op] > 0
    BY <1>1, BatchFacts DEF WorkDone
  <2>2. made' \in [Ops -> Nat] /\ \A i \in Ops : made'[i] >= made[i]
    BY <1>1, BatchFacts
  <2> QED
    BY <1>1, <2>1, <2>2, WorkStays
<1>8. ASSUME NEW i \in Ops PROVE SplitsBounded(i)'
  <2>1. Carriers(i)' = Carriers(i) /\ Lists(i)' = {s \in Runs : i \in todo'[s]}
    BY <1>1 DEF Carriers, Lists
  <2>2. /\ IsFiniteSet(Carriers(i)) /\ Cardinality(Carriers(i)) \in Nat /\ made[i] \in Nat
        /\ IsFiniteSet(Lists(i)) /\ Cardinality(Lists(i)) \in Nat /\ faults \in Nat
    BY ListsFinite, BatchFacts
  <2>3. todo[r] = {} /\ todo'[r] = With("pending")
    BY <1>1, <1>2, BatchFacts
  <2>4. ComesBack(i)' <=> ComesBack(i)
    BY <1>1 DEF ComesBack
  <2>5. CASE op[i].status = "pending"
    <3>1. Lists(i)' = Lists(i) \cup {r} /\ r \notin Lists(i)
      BY <1>1, <1>2, <2>1, <2>3, <2>5, BatchFacts DEF Lists, With
    <3>2. Cardinality(Lists(i)') = Cardinality(Lists(i)) + 1
      BY <2>2, <3>1, OneMemberMore
    <3>3. Claims(i)' = Claims(i) + 1
      BY <1>1, <2>1, <2>2, <3>2 DEF Claims
    <3>4. ~Claimed(i)
      BY <1>1 DEF Claimed
    <3>5. Claimed(i)'
      <4>1. i \in todo'[job'.run]
        BY <1>3, <2>3, <2>5 DEF With
      <4>2. \A l \in Lanes : lane'[<<job'.run, l>>].at # "dead"
        BY <1>1, <1>2, <1>3, BatchFacts
      <4> QED
        BY <1>3, <4>1, <4>2 DEF Claimed
    <3>6. Claims(i) <= faults /\ Claims(i) \in Nat
      BY <2>2, <2>5, <3>4, BatchFacts, ListsFinite DEF SplitsBounded, One
    <3>7. ~(admin'.at = "reset" /\ i \in admin'.found)
      BY <1>1, <2>5, BatchFacts DEF SplitsBounded
    <3> QED
      <4>1. One(Claimed(i)') = 1
        BY <3>5 DEF One
      <4>2. Claims(i)' <= faults' + One(Claimed(i)')
        BY <1>1, <2>2, <3>3, <3>6, <4>1
      <4>3. IsFiniteSet(Carriers(i)') /\ op'[i].status = "pending"
        BY <1>1, <2>1, <2>2, <2>5
      <4> QED
        BY <3>7, <4>2, <4>3, Zenon DEF SplitsBounded
  <2>6. CASE op[i].status # "pending"
    <3>1. Lists(i)' = Lists(i)
      BY <1>1, <1>2, <2>1, <2>3, <2>6, BatchFacts DEF Lists, With
    <3>2. Claims(i)' = Claims(i)
      BY <1>1, <2>1, <3>1 DEF Claims
    <3>3. SplitsBounded(i)
      BY BatchFacts
    <3>4. One(ComesBack(i))' = One(ComesBack(i))
      BY <2>4 DEF One
    <3>5. /\ Claims(i)' + One(ComesBack(i))' <= 1 + faults'
          /\ IsFiniteSet(Carriers(i)') /\ op'[i].status # "pending"
      BY <1>1, <2>1, <2>2, <2>6, <3>2, <3>3, <3>4 DEF SplitsBounded
    <3> QED
      BY <3>5, Zenon DEF SplitsBounded
  <2> QED
    BY <2>5, <2>6
<1> QED
  BY <1>6, <1>7, <1>8 DEF BatchInv

\* Steps of the queue and of the administrator move no lane and no list.
LEMMA OfficeStep ==
    ASSUME BatchInv, lane' = lane, todo' = todo, made' = made, faults' = faults,
           batch' \in BatchStatus, batch' = "completed" => batch = "completed",
           op' \in [Ops -> OpRows], \A i \in Ops : op'[i].status = "completed" => op[i].status = "completed",
           job' \in BatchQueue, job'.run = job.run, job'.state = "active" => job.state = "active",
           admin' \in AdminStates, \A i \in Ops : SplitsBounded(i)'
    PROVE  BatchInv'
<1>1. BatchRows'
  BY BatchFacts DEF BatchRows
<1>2. WorkDone'
  <2>1. \A y \in Runs \X Lanes :
              /\ lane'[y].seen = "completed" => lane[y].seen = "completed" \/ AllMade
              /\ lane'[y].at = "complete" => made'[lane'[y].op] > 0
    BY BatchFacts DEF WorkDone
  <2>2. made' \in [Ops -> Nat] /\ \A i \in Ops : made'[i] >= made[i]
    BY BatchFacts
  <2> QED
    BY <2>1, <2>2, WorkStays
<1> QED
  BY <1>1, <1>2 DEF BatchInv

LEMMA ClaimsStay ==
    ASSUME BatchInv, NEW i \in Ops, lane' = lane, todo' = todo, made' = made
    PROVE  /\ Claims(i)' = Claims(i) /\ IsFiniteSet(Carriers(i)') /\ Claims(i)' \in Nat
           /\ job' = job => (Claimed(i)' <=> Claimed(i))
<1>1. Carriers(i)' = Carriers(i) /\ Lists(i)' = Lists(i)
  BY DEF Carriers, Lists
<1> QED
  BY <1>1, ListsFinite DEF Claims, Claimed

\* Steps that change no operation: rejecting or ending a run, and the calls up to the
\* rows they change.
LEMMA RunRejectsStep ==
    ASSUME BatchInv, RunRejects \/ RunEnds
    PROVE  BatchInv'
<1>1. /\ lane' = lane /\ todo' = todo /\ made' = made /\ faults' = faults /\ op' = op /\ admin' = admin
      /\ job.state = "active" /\ batch' \in {batch, "failed"}
      /\ job' = Requeued \/ job' = [job EXCEPT !.state = "finished"]
  BY DEF RunRejects, RunEnds
<1>2. job' \in BatchQueue /\ job'.run = job.run /\ job'.state # "active"
  BY <1>1, BatchFacts DEF Requeued, BatchQueue
<1>3. ASSUME NEW i \in Ops PROVE ~Claimed(i)
  BY DEF RunRejects, RunEnds, Claimed
<1>4. ASSUME NEW i \in Ops PROVE SplitsBounded(i)'
  <2>1. ~Claimed(i) /\ SplitsBounded(i)
    BY <1>3, BatchFacts
  <2>2. Claims(i)' = Claims(i) /\ IsFiniteSet(Carriers(i)') /\ Claims(i)' \in Nat
    BY <1>1, ClaimsStay
  <2>3. Claims(i)' <= Claims(i) /\ op'[i].status = op[i].status
    BY <1>1, <2>2
  <2> QED
    BY <1>1, <2>1, <2>2, <2>3, BoundStays
<1>5. /\ batch' \in BatchStatus /\ (batch' = "completed" => batch = "completed")
      /\ op' \in [Ops -> OpRows] /\ admin' \in AdminStates
  BY <1>1, BatchFacts DEF BatchStatus
<1> QED
  BY <1>1, <1>2, <1>4, <1>5, OfficeStep

\* A crash takes every claim but the rows'.
LEMMA BatchCrashStep ==
    ASSUME BatchInv, CrashBatch
    PROVE  BatchInv'
<1>1. /\ job.state = "active" /\ faults' = faults + 1 /\ faults \in Nat
      /\ todo' = [s \in Runs |-> {}] /\ lane' = [x \in Runs \X Lanes |-> Free]
      /\ job' = Requeued /\ admin' = [admin EXCEPT !.at = "idle"]
      /\ batch' = batch /\ op' = op /\ made' = made
  BY BatchFacts DEF CrashBatch, Fault
<1>2. job' \in BatchQueue /\ job'.run = job.run /\ job'.state # "active"
  BY <1>1, BatchFacts DEF Requeued, BatchQueue
<1>3. admin' \in AdminStates /\ admin'.at = "idle"
  BY <1>1, BatchFacts DEF AdminStates
<1>4. BatchRows'
  BY <1>1, <1>2, <1>3, BatchFacts DEF BatchRows
<1>5. WorkDone'
  <2>1. \A y \in Runs \X Lanes :
              /\ lane'[y].seen = "completed" => lane[y].seen = "completed" \/ AllMade
              /\ lane'[y].at = "complete" => made'[lane'[y].op] > 0
    BY <1>1, BatchFacts
  <2>2. made' \in [Ops -> Nat] /\ \A i \in Ops : made'[i] >= made[i]
    BY <1>1, BatchFacts
  <2> QED
    BY <1>1, <2>1, <2>2, WorkStays
<1>6. ASSUME NEW i \in Ops PROVE SplitsBounded(i)'
  <2>1. Carriers(i)' = {}
    BY <1>1, BatchFacts DEF Carriers, Carries
  <2>2. Lists(i)' = {}
    BY <1>1 DEF Lists
  <2>3. /\ Claims(i) \in Nat /\ Claims(i) >= made[i] /\ made[i] \in Nat
    BY ListsFinite
  <2>4. Claims(i)' = made[i] /\ IsFiniteSet(Carriers(i)')
    BY <1>1, <2>1, <2>2, <2>3, FS_EmptySet DEF Claims
  <2>5. SplitsBounded(i)
    BY BatchFacts
  <2>6. ComesBack(i)' => ComesBack(i)
    BY <1>1, <1>3 DEF ComesBack
  <2> QED
    BY <1>1, <1>3, <2>3, <2>4, <2>5, <2>6 DEF SplitsBounded, One
<1> QED
  BY <1>4, <1>5, <1>6 DEF BatchInv

\* The calls of the administrator, but for resetting and cancelling operations.
LEMMA BatchCallStep ==
    ASSUME BatchInv, \/ retryFailedOperations \/ ResetBatch \/ QueueAgain
                     \/ cancelBatch \/ RemoveJob \/ CloseBatch
    PROVE  BatchInv'
<1>1. /\ lane' = lane /\ todo' = todo /\ made' = made /\ faults' = faults /\ op' = op
      /\ batch' \in {batch, "pending", "cancelled"}
  BY DEF retryFailedOperations, ResetBatch, QueueAgain, cancelBatch, RemoveJob, CloseBatch
<1>2. /\ job' \in BatchQueue /\ job'.run = job.run /\ (job'.state = "active" => job' = job)
      /\ job.state = "active" => job' = job
  <2>1. job \in BatchQueue
    BY BatchFacts
  <2>2. CASE QueueAgain
    <3>1. CASE job.state = "none"
      BY <2>1, <2>2, <3>1 DEF QueueAgain, BatchQueue
    <3>2. CASE job.state # "none"
      BY <2>1, <2>2, <3>2 DEF QueueAgain
    <3> QED
      BY <3>1, <3>2
  <2>3. CASE RemoveJob
    <3>1. CASE job.state = "active"
      BY <2>1, <2>3, <3>1 DEF RemoveJob
    <3>2. CASE job.state # "active"
      BY <2>1, <2>3, <3>2 DEF RemoveJob, BatchQueue
    <3> QED
      BY <3>1, <3>2
  <2>4. CASE retryFailedOperations \/ ResetBatch \/ cancelBatch \/ CloseBatch
    <3>1. job' = job
      BY <2>4 DEF retryFailedOperations, ResetBatch, cancelBatch, CloseBatch
    <3> QED
      BY <2>1, <3>1
  <2> QED
    BY <2>2, <2>3, <2>4
<1>3. /\ admin' \in AdminStates
      /\ \A i \in Ops : admin'.at = "reset" /\ i \in admin'.found => op[i].status = "failed"
  <2>1. Retryable \subseteq Ops /\ \A i \in Retryable : op[i].status = "failed"
    BY DEF Retryable, With
  <2> HIDE DEF Retryable
  <2>2. CASE retryFailedOperations
    BY <2>1, <2>2, BatchFacts DEF retryFailedOperations, AdminStates
  <2>3. CASE cancelBatch
    BY <2>3, BatchFacts DEF cancelBatch, AdminStates
  <2>4. CASE ResetBatch \/ QueueAgain \/ RemoveJob \/ CloseBatch
    BY <2>4, BatchFacts DEF ResetBatch, QueueAgain, RemoveJob, CloseBatch, AdminStates
  <2> QED
    BY <2>2, <2>3, <2>4
<1>4. ASSUME NEW i \in Ops PROVE SplitsBounded(i)'
  <2>1. Claims(i)' = Claims(i) /\ IsFiniteSet(Carriers(i)') /\ Claims(i)' \in Nat
    BY <1>1, ClaimsStay
  <2>2. SplitsBounded(i) /\ faults \in Nat
    BY BatchFacts
  <2>3. Claimed(i)' <=> Claimed(i)
    BY <1>1, <1>2 DEF Claimed
  <2>4. ComesBack(i)' => ComesBack(i)
    BY <1>1, <1>3 DEF ComesBack
  <2> QED
    BY <1>1, <1>3, <2>1, <2>2, <2>3, <2>4 DEF SplitsBounded, One
<1>5. /\ batch' \in BatchStatus /\ (batch' = "completed" => batch = "completed")
      /\ op' \in [Ops -> OpRows]
  BY <1>1, BatchFacts DEF BatchStatus
<1> QED
  BY <1>1, <1>2, <1>3, <1>4, <1>5, OfficeStep

LEMMA ResetStep ==
    ASSUME BatchInv, NEW j \in Ops, ResetOperation(j)
    PROVE  BatchInv'
<1>1. /\ lane' = lane /\ todo' = todo /\ made' = made /\ faults' = faults /\ job' = job /\ batch' = batch
      /\ admin.at = "reset" /\ j \in admin.found /\ op' = [op EXCEPT ![j].status = "pending"]
      /\ admin' = [admin EXCEPT !.found = @ \ {j}]
  BY DEF ResetOperation, SetOp
<1>2. op' \in [Ops -> OpRows] /\ \A i \in Ops : op'[i].status = IF i = j THEN "pending" ELSE op[i].status
  BY <1>1, BatchFacts DEF OpRows, OpStatus
<1>3. /\ admin' \in AdminStates /\ admin'.at = "reset"
      /\ \A i \in Ops : i \in admin'.found <=> i \in admin.found /\ i # j
  BY <1>1, BatchFacts DEF AdminStates
<1>4. ASSUME NEW i \in Ops PROVE SplitsBounded(i)'
  <2>1. /\ Claims(i)' = Claims(i) /\ IsFiniteSet(Carriers(i)') /\ Claims(i)' \in Nat
        /\ Claimed(i)' <=> Claimed(i)
    BY <1>1, ClaimsStay
  <2>2. SplitsBounded(i) /\ faults \in Nat
    BY BatchFacts
  <2>3. CASE i = j
    <3>1. op[i].status # "pending" /\ ComesBack(i)
      BY <1>1, <2>2, <2>3 DEF SplitsBounded, ComesBack
    <3>2. Claims(i)' <= faults
      BY <2>1, <2>2, <3>1 DEF SplitsBounded, One
    <3>3. op'[i].status = "pending" /\ i \notin admin'.found
      BY <1>2, <1>3, <2>3
    <3> QED
      BY <1>1, <2>1, <2>2, <3>2, <3>3 DEF SplitsBounded, One
  <2>4. CASE i # j
    <3>1. op'[i].status = op[i].status /\ (ComesBack(i)' <=> ComesBack(i))
      BY <1>1, <1>2, <1>3, <2>4 DEF ComesBack
    <3> QED
      BY <1>1, <1>3, <2>1, <2>2, <2>4, <3>1 DEF SplitsBounded, One
  <2> QED
    BY <2>3, <2>4
<1>5. batch' \in BatchStatus /\ job' \in BatchQueue
  BY <1>1, BatchFacts
<1> QED
  BY <1>1, <1>2, <1>3, <1>4, <1>5, OfficeStep

LEMMA CancelStep ==
    ASSUME BatchInv, CancelOperations
    PROVE  BatchInv'
<1>1. /\ lane' = lane /\ todo' = todo /\ made' = made /\ faults' = faults /\ job' = job /\ batch' = batch
      /\ admin.at = "drop" /\ admin' = [admin EXCEPT !.at = "close"]
  BY DEF CancelOperations
<1>2. /\ op' \in [Ops -> OpRows]
      /\ \A i \in Ops : \/ op'[i].status = op[i].status /\ op[i].status # "pending"
                        \/ op'[i].status = "cancelled"
  BY BatchFacts DEF CancelOperations, OpRows, OpStatus
<1>3. admin' \in AdminStates /\ admin'.at = "close"
  BY <1>1, BatchFacts DEF AdminStates
<1>4. ASSUME NEW i \in Ops PROVE SplitsBounded(i)'
  <2>1. Claims(i)' = Claims(i) /\ IsFiniteSet(Carriers(i)') /\ Claims(i)' \in Nat
    BY <1>1, ClaimsStay
  <2>2. SplitsBounded(i) /\ faults \in Nat
    BY BatchFacts
  <2>3. op'[i].status # "pending"
    BY <1>2
  <2>4. Claims(i) <= 1 + faults
    BY <2>1, <2>2 DEF SplitsBounded, One
  <2>5. ComesBack(i)' => ComesBack(i) /\ op[i].status # "pending"
    BY <1>2, <1>3 DEF ComesBack
  <2> QED
    BY <1>1, <1>3, <2>1, <2>2, <2>3, <2>4, <2>5 DEF SplitsBounded, One
<1>5. batch' \in BatchStatus /\ job' \in BatchQueue
  BY <1>1, BatchFacts
<1>6. \A i \in Ops : op'[i].status = "completed" => op[i].status = "completed"
  BY <1>2
<1> QED
  BY <1>1, <1>2, <1>3, <1>4, <1>5, <1>6, OfficeStep

LEMMA BatchInitInv == BatchInit => BatchInv
<1> SUFFICES ASSUME BatchInit PROVE BatchInv
  OBVIOUS
<1> DEFINE entry == [status |-> "pending", retries |-> 0]
<1>1. entry \in OpRows /\ entry.status = "pending"
  BY DEF OpRows, OpStatus
<1>2. /\ batch = "pending" /\ op = [i \in Ops |-> entry] /\ todo = [r \in Runs |-> {}]
      /\ lane = [x \in Runs \X Lanes |-> Free] /\ made = [i \in Ops |-> 0] /\ faults = 0
      /\ job.state \in {"none", "waiting"} /\ job.run = 0 /\ job \in BatchQueue
      /\ admin.at = "idle" /\ admin \in AdminStates
  BY BatchConstants DEF BatchInit, BatchQueue, AdminStates
<1> HIDE DEF entry
<1>3. Free \in LaneStates /\ Free.at = "idle" /\ Free.seen = "pending"
  <2>1. 1 \in Ops
    BY BatchConstants DEF Ops
  <2> QED
    BY <2>1 DEF Free, LaneStates, BatchStatus
<1>4. BatchRows
  BY <1>1, <1>2, <1>3 DEF BatchRows, BatchStatus, Runs
<1>5. WorkDone
  BY <1>1, <1>2, <1>3 DEF WorkDone
<1>6. ASSUME NEW i \in Ops PROVE SplitsBounded(i)
  <2>1. Carriers(i) = {} /\ Lists(i) = {}
    BY <1>2, <1>3 DEF Carriers, Carries, Lists
  <2>2. Claims(i) = 0 /\ IsFiniteSet(Carriers(i))
    BY <1>2, <2>1, FS_EmptySet DEF Claims
  <2>3. ~Claimed(i)
    BY <1>2 DEF Claimed
  <2> QED
    BY <1>1, <1>2, <2>2, <2>3 DEF SplitsBounded, One
<1> QED
  BY <1>4, <1>5, <1>6 DEF BatchInv

LEMMA BatchStepInv == BatchInv /\ [BatchNext]_batchVars => BatchInv'
<1> SUFFICES ASSUME BatchInv, [BatchNext]_batchVars PROVE BatchInv'
  OBVIOUS
<1>1. ASSUME NEW x \in Runs \X Lanes,
             \/ Shift(x) \/ markOperationStarted(x) \/ CreateSplit(x) \/ markOperationCompleted(x)
             \/ markOperationFailed(x) \/ updateProgress(x) \/ SaveProgress(x) \/ StatementFails(x)
      PROVE  BatchInv'
  BY <1>1, ShiftStep, StartedStep, CreateStep, CompletedStep, FailedStep, BatchCountStep,
     FailsStep
<1>2. ASSUME NEW i \in Ops, ResetOperation(i) PROVE BatchInv'
  BY <1>2, ResetStep
<1>3. CASE handleSplitBatch
  BY <1>3, HandleStep
<1>4. CASE RunRejects \/ RunEnds
  BY <1>4, RunRejectsStep
<1>5. CASE CrashBatch
  BY <1>5, BatchCrashStep
<1>6. CASE retryFailedOperations \/ ResetBatch \/ QueueAgain \/ cancelBatch \/ RemoveJob \/ CloseBatch
  BY <1>6, BatchCallStep
<1>7. CASE CancelOperations
  BY <1>7, CancelStep
<1>8. CASE UNCHANGED batchVars
  <2>1. /\ lane' = lane /\ todo' = todo /\ made' = made /\ faults' = faults /\ op' = op /\ job' = job
        /\ admin' = admin /\ batch' = batch
    BY <1>8 DEF batchVars
  <2>2. ASSUME NEW i \in Ops PROVE SplitsBounded(i)'
    <3>1. /\ Claims(i)' = Claims(i) /\ IsFiniteSet(Carriers(i)') /\ Claims(i)' \in Nat
          /\ Claimed(i)' <=> Claimed(i)
      BY <2>1, ClaimsStay
    <3>2. Claims(i)' <= Claims(i) /\ op'[i].status = op[i].status
      BY <2>1, <3>1
    <3> QED
      BY <2>1, <3>1, <3>2, BoundStays
  <2>3. batch' \in BatchStatus /\ op' \in [Ops -> OpRows] /\ job' \in BatchQueue /\ admin' \in AdminStates
    BY <2>1, BatchFacts
  <2> QED
    BY <2>1, <2>2, <2>3, OfficeStep
<1> QED
  BY <1>1, <1>2, <1>3, <1>4, <1>5, <1>6, <1>7, <1>8 DEF BatchNext

\* A batch says COMPLETED only if every operation's split exists, and every split beyond
\* an operation's first is due to a fault.
THEOREM BatchesWork == BatchSpec => []BatchDoesItsWork
<1>1. ASSUME BatchInv PROVE BatchDoesItsWork
  <2>1. batch = "completed" => \A i \in Ops : made[i] > 0
    BY <1>1, BatchFacts DEF WorkDone, AllMade
  <2>2. ASSUME NEW i \in Ops PROVE made[i] <= 1 + faults
    BY <1>1, BatchFacts, ListsFinite DEF SplitsBounded, One
  <2> QED
    BY <2>1, <2>2 DEF BatchDoesItsWork
<1> QED
  BY <1>1, BatchInitInv, BatchStepInv, PTL DEF BatchSpec

-----------------------------------------------------------------------------
(* The Horizon poller *)

\* Every payment up to record c was handed over.
TriedUpTo(c) == \A k \in paying : k <= c => k \in tried

\* Where a poll stands, everything before is behind it: a stale cursor is an early one.
PollSure(p) ==
    /\ poll[p].at = "fetch" /\ poll[p].record # Now =>
         poll[p].record \in 0..landed /\ TriedUpTo(poll[p].record)
    /\ poll[p].at \in {"process", "save"} =>
         poll[p].record \in 1..poll[p].last /\ poll[p].last \in 1..landed
    /\ poll[p].at = "process" => TriedUpTo(poll[p].record - 1)
    /\ poll[p].at = "save" => TriedUpTo(poll[p].record)

\* A poll never runs ahead of what was tried, whatever cursor it started from.
PollerInv ==
    /\ PollerTypeOK /\ NoRecordSkipped
    /\ \A p \in Polls : PollSure(p)

PollStates == [at : {"idle", "fetch", "process", "save", "wait"},
               record : 0..NumRecords \cup {Now}, last : 0..NumRecords]

\* What is tried stays tried: a poll that does not move stays sure.
LEMMA OthersStaySure ==
    ASSUME PollerTypeOK, landed \in Nat, landed' \in Nat, landed <= landed',
           paying' = paying, tried \subseteq tried',
           NEW p \in Polls, PollSure(p), poll'[p] = poll[p]
    PROVE  PollSure(p)'
<1> SUFFICES PollSure(p)' OBVIOUS
<1>1. poll[p] \in PollStates BY DEF PollerTypeOK, PollStates
<1>2. \A c : TriedUpTo(c) => TriedUpTo(c)' BY DEF TriedUpTo
<1>3. ASSUME poll[p].at = "fetch", poll[p].record # Now
      PROVE  poll[p].record \in 0..landed' /\ TriedUpTo(poll[p].record)'
  BY <1>1, <1>2, <1>3, PollerConstants DEF PollSure, PollStates
<1>4. QED BY <1>1, <1>2, <1>3, PollerConstants DEF PollSure, PollStates

\* The state of a poll that does nothing asks for nothing.
LEMMA RestingIsSure ==
    ASSUME NEW p \in Polls, poll'[p].at \in {"idle", "wait"}
    PROVE  PollSure(p)'
BY DEF PollSure

LEMMA NextOfPage ==
    ASSUME NEW state \in PollStates, NEW k \in 0..NumRecords \cup {Now}
    PROVE  LET next == [state EXCEPT !.at = "process", !.record = k]
           IN  next \in PollStates /\ next.at = "process" /\ next.record = k
               /\ next.last = state.last
BY DEF PollStates

LEMMA PollerInitInv == PollerInit => PollerInv
<1> SUFFICES ASSUME PollerInit PROVE PollerInv OBVIOUS
<1>1. PollerTypeOK BY PollerConstants DEF PollerInit, PollerTypeOK, NoPoll, Records
<1>2. NoRecordSkipped
  BY PollerConstants DEF PollerInit, NoRecordSkipped, Records
<1>3. \A p \in Polls : PollSure(p) BY DEF PollerInit, PollSure, NoPoll
<1>4. QED BY <1>1, <1>2, <1>3 DEF PollerInv

\* A poll becomes what it should be, and the others stay.
LEMMA BecomeInv ==
    ASSUME PollerInv, NEW p \in Polls, NEW state \in PollStates, Become(p, state),
           UNCHANGED <<monitored, paying, landed>>,
           lapses' \in 0..MaxLapses,
           cursor' \in 0..landed \cup {Now},
           tried \subseteq tried', tried' \subseteq paying,
           NoRecordSkipped', PollSure(p)'
    PROVE  PollerInv'
<1>1. poll' \in [Polls -> PollStates] BY DEF Become, PollerInv, PollerTypeOK, PollStates
<1>2. PollerTypeOK' BY <1>1, PollerConstants DEF PollerInv, PollerTypeOK, PollStates, Records
<1>3. ASSUME NEW q \in Polls, q # p PROVE PollSure(q)'
  <2>1. poll'[q] = poll[q] BY <1>3 DEF Become, PollerInv, PollerTypeOK
  <2>2. landed \in Nat /\ landed' \in Nat /\ landed <= landed'
    BY PollerConstants DEF PollerInv, PollerTypeOK
  <2>3. QED BY <2>1, <2>2, OthersStaySure DEF PollerInv
<1>4. QED BY <1>2, <1>3 DEF PollerInv

\* What a page ends with is its last record.
LEMMA PageEnds ==
    ASSUME PollerTypeOK, NEW c \in 0..NumRecords, PageAfter(c) # {}, c # Now
    PROVE  LET page == PageAfter(c)
               last == CHOOSE k \in page : \A j \in page : j <= k
           IN  last \in c + 1..landed
<1> DEFINE page == PageAfter(c)
           m == IF c + PageSize <= landed THEN c + PageSize ELSE landed
<1>1. c \in Nat /\ landed \in Nat /\ PageSize \in Nat \ {0} /\ landed <= NumRecords
  BY PollerConstants DEF PollerTypeOK
<1>2. page = {k \in Records : c < k /\ k <= c + PageSize /\ k <= landed} BY DEF PageAfter
<1>3. PICK k \in page : TRUE BY DEF page
<1>4. m \in page
  <2>1. m \in Nat /\ c < m /\ m <= landed /\ m <= c + PageSize BY <1>1, <1>2, <1>3 DEF Records
  <2>2. QED BY <1>1, <1>2, <2>1, PollerConstants DEF Records
<1>5. \A j \in page : j <= m BY <1>1, <1>2 DEF Records
<1>6. (CHOOSE i \in page : \A j \in page : j <= i) \in page BY <1>4, <1>5
<1>7. QED BY <1>1, <1>2, <1>6 DEF Records

LEMMA PollMoves ==
    ASSUME PollerInv, NEW p \in Polls, RunPoll(p) \/ pollPayments(p) \/ PollFails(p)
    PROVE  PollerInv'
<1>1. /\ poll \in [Polls -> PollStates] /\ poll[p] \in PollStates
      /\ landed \in Nat /\ landed <= NumRecords /\ NumRecords \in Nat /\ Now \notin Nat
      /\ lapses \in 0..MaxLapses /\ paying \subseteq Records /\ tried \subseteq paying
      /\ cursor \in 0..landed \cup {Now} /\ NoRecordSkipped /\ PollSure(p)
  BY PollerConstants DEF PollerInv, PollerTypeOK, PollStates
<1>2. CASE pollPayments(p)
  <2> DEFINE next == [at |-> "fetch", record |-> cursor, last |-> 0]
  <2>1. next \in PollStates BY <1>1 DEF PollStates
  <2>2. poll'[p] = next /\ Become(p, next) BY <1>1, <1>2 DEF pollPayments, Become
  <2>3. NoRecordSkipped' BY <1>1, <1>2 DEF pollPayments, NoRecordSkipped
  <2>4. PollSure(p)'
    BY <1>1, <1>2, <2>2 DEF pollPayments, PollSure, NoRecordSkipped, TriedUpTo
  <2>5. UNCHANGED <<monitored, paying, landed, cursor, tried, lapses>> BY <1>2 DEF pollPayments
  <2>6. QED BY <1>1, <2>1, <2>2, <2>3, <2>4, <2>5, BecomeInv
<1>3. CASE FetchPage(p)
  <2>0. UNCHANGED <<monitored, paying, landed, cursor, tried, lapses>> BY <1>3 DEF FetchPage
  <2>1. NoRecordSkipped' BY <1>1, <2>0 DEF NoRecordSkipped
  <2>2. CASE PageAfter(poll[p].record) = {}
    <3>1. NoPoll \in PollStates BY <1>1 DEF NoPoll, PollStates
    <3>2. Become(p, NoPoll) /\ poll'[p] = NoPoll BY <1>1, <1>3, <2>2 DEF FetchPage, Become
    <3>3. PollSure(p)' BY <3>2, RestingIsSure DEF NoPoll
    <3>4. QED BY <1>1, <2>0, <2>1, <3>1, <3>2, <3>3, BecomeInv
  <2>3. CASE PageAfter(poll[p].record) # {}
    <3>0. PICK c \in 0..NumRecords \cup {Now} : c = poll[p].record BY <1>1 DEF PollStates
    <3> DEFINE page == PageAfter(c)
               end == CHOOSE k \in page : \A j \in page : j <= k
               next == [at |-> "process", record |-> c + 1, last |-> end]
    <3>1. c # Now /\ c \in 0..NumRecords /\ TriedUpTo(c)
      BY <1>1, <1>3, <2>3, <3>0 DEF FetchPage, PageAfter, PollSure, PollStates
    <3>2. end \in c + 1..landed BY <2>3, <3>0, <3>1, PageEnds DEF PollerInv
    <3>3. next \in PollStates BY <1>1, <3>1, <3>2 DEF PollStates
    <3>4. Become(p, next) BY <1>3, <2>3, <3>0 DEF FetchPage
    <3>5. poll'[p] = next BY <1>1, <3>4 DEF Become
    <3>6. PollSure(p)'
      <4>1. TriedUpTo(c)' BY <3>1, <2>0 DEF TriedUpTo
      <4>2. c + 1 - 1 = c /\ c + 1 \in 1..end /\ end \in 1..landed'
        BY <1>1, <2>0, <3>1, <3>2
      <4> HIDE DEF end
      <4>3. QED BY <4>1, <4>2, <3>5 DEF PollSure, TriedUpTo
    <3>7. QED BY <1>1, <2>0, <2>1, <3>3, <3>4, <3>6, BecomeInv
  <2>4. QED BY <2>2, <2>3
<1>4. CASE processPayment(p)
  <2> DEFINE next == [poll[p] EXCEPT !.at = "save"]
  <2>k. PICK k : k = poll[p].record OBVIOUS
  <2>0. UNCHANGED <<monitored, paying, landed, cursor, lapses>> BY <1>4 DEF processPayment
  <2>1. k \in 1..poll[p].last /\ poll[p].last \in 1..landed /\ TriedUpTo(k - 1)
    BY <1>1, <1>4, <2>k DEF processPayment, PollSure
  <2>2. tried' = tried \cup ({k} \cap paying) BY <1>4, <2>k DEF processPayment
  <2>3. next \in PollStates /\ next.record = k /\ next.last = poll[p].last /\ next.at = "save"
    BY <1>1, <2>k DEF PollStates
  <2>4. Become(p, next) /\ poll'[p] = next BY <1>1, <1>4 DEF processPayment, Become
  <2>5. NoRecordSkipped' BY <1>1, <2>0, <2>2 DEF NoRecordSkipped
  <2>6. TriedUpTo(k)' BY <1>1, <2>0, <2>1, <2>2 DEF TriedUpTo, Records
  <2>7. PollSure(p)' BY <2>0, <2>1, <2>3, <2>4, <2>6 DEF PollSure, TriedUpTo
  <2>8. QED BY <1>1, <2>0, <2>2, <2>3, <2>4, <2>5, <2>7, BecomeInv
<1>5. CASE SaveCursor(p)
  <2>k. PICK k, last : k = poll[p].record /\ last = poll[p].last OBVIOUS
  <2> DEFINE more == [poll[p] EXCEPT !.at = "process", !.record = k + 1]
  <2>0. UNCHANGED <<monitored, paying, landed, tried, lapses>> /\ cursor' = k
    BY <1>5, <2>k DEF SaveCursor
  <2>1. k \in 1..last /\ last \in 1..landed /\ TriedUpTo(k)
    BY <1>1, <1>5, <2>k DEF SaveCursor, PollSure
  <2>2. NoRecordSkipped' BY <2>0, <2>1 DEF NoRecordSkipped, TriedUpTo
  <2>3. cursor' \in 0..landed \cup {Now} BY <1>1, <2>0, <2>1
  <2>4. CASE k = last
    <3>1. NoPoll \in PollStates BY <1>1 DEF NoPoll, PollStates
    <3>2. Become(p, NoPoll) /\ poll'[p] = NoPoll BY <1>1, <1>5, <2>4, <2>k DEF SaveCursor, Become
    <3>3. PollSure(p)' BY <3>2, RestingIsSure DEF NoPoll
    <3>4. QED BY <1>1, <2>0, <2>2, <2>3, <3>1, <3>2, <3>3, BecomeInv
  <2>5. CASE k # last
    <3>1. more \in PollStates /\ more.record = k + 1 /\ more.last = last /\ more.at = "process"
      <4>1. k \in 0..NumRecords /\ last \in 0..NumRecords /\ k + 1 \in 0..NumRecords
        BY <1>1, <2>1, <2>5
      <4>2. poll[p].record = k /\ poll[p].last = last BY <2>k
      <4>3. QED BY <1>1, <4>1, <4>2, NextOfPage
    <3>2. Become(p, more) /\ poll'[p] = more BY <1>1, <1>5, <2>5, <2>k DEF SaveCursor, Become
    <3>3. TriedUpTo(k)' BY <2>0, <2>1 DEF TriedUpTo
    <3>4. k + 1 - 1 = k /\ k + 1 \in 1..last /\ last \in 1..landed' BY <1>1, <2>0, <2>1, <2>5
    <3>5. PollSure(p)'
      <4> HIDE DEF more
      <4>1. /\ poll'[p].at = "process" /\ poll'[p].record = k + 1 /\ poll'[p].last = last
            /\ poll'[p].record - 1 = k
        BY <2>1, <3>1, <3>2
      <4>2. TriedUpTo(poll[p].record - 1)' BY <3>3, <4>1 DEF TriedUpTo
      <4>3. QED BY <3>4, <4>1, <4>2 DEF PollSure
    <3>6. QED BY <1>1, <2>0, <2>2, <2>3, <3>1, <3>2, <3>5, BecomeInv
  <2>6. QED BY <2>4, <2>5
<1>6. CASE waitBeforeRetry(p)
  <2>1. NoPoll \in PollStates BY <1>1 DEF NoPoll, PollStates
  <2>2. Become(p, NoPoll) /\ poll'[p] = NoPoll BY <1>1, <1>6 DEF waitBeforeRetry, Become
  <2>3. PollSure(p)' BY <2>2, RestingIsSure DEF NoPoll
  <2>4. UNCHANGED <<monitored, paying, landed, cursor, tried, lapses>>
    BY <1>6 DEF waitBeforeRetry
  <2>5. NoRecordSkipped' BY <1>1, <2>4 DEF NoRecordSkipped
  <2>6. QED BY <1>1, <2>1, <2>2, <2>3, <2>4, <2>5, BecomeInv
<1>7. CASE PollFails(p)
  <2> DEFINE next == Abandon(poll[p])
  <2>1. next \in PollStates /\ next.at = "wait" BY <1>1 DEF Abandon, PollStates
  <2>2. Become(p, next) /\ poll'[p] = next BY <1>1, <1>7 DEF PollFails, Become
  <2>3. PollSure(p)' BY <2>1, <2>2, RestingIsSure
  <2>4. UNCHANGED <<monitored, paying, landed, cursor, tried>> BY <1>7 DEF PollFails
  <2>5. NoRecordSkipped' BY <1>1, <2>4 DEF NoRecordSkipped
  <2>6. lapses' \in 0..MaxLapses BY <1>1, <1>7, PollerConstants DEF PollFails
  <2>7. QED BY <1>1, <2>1, <2>2, <2>3, <2>4, <2>5, <2>6, BecomeInv
<1>8. QED BY <1>2, <1>3, <1>4, <1>5, <1>6, <1>7 DEF RunPoll

LEMMA PollerStepInv == PollerInv /\ [PollerNext]_pollerVars => PollerInv'
<1> SUFFICES ASSUME PollerInv, [PollerNext]_pollerVars PROVE PollerInv' OBVIOUS
<1>1. CASE NewRecord
  <2>1. PollerTypeOK'
    BY <1>1, PollerConstants DEF NewRecord, PollerInv, PollerTypeOK, Records
  <2>2. NoRecordSkipped' BY <1>1 DEF NewRecord, PollerInv, NoRecordSkipped
  <2>3. landed \in Nat /\ landed' \in Nat /\ landed <= landed'
    BY <1>1, PollerConstants DEF NewRecord, PollerInv, PollerTypeOK
  <2>4. \A p \in Polls : PollSure(p)'
    BY <1>1, <2>3, OthersStaySure DEF NewRecord, PollerInv
  <2>5. QED BY <2>1, <2>2, <2>4 DEF PollerInv
<1>2. CASE CrashPolls
  <2>1. PollerTypeOK'
    BY <1>2, PollerConstants DEF CrashPolls, PollerInv, PollerTypeOK, Records, NoPoll
  <2>2. NoRecordSkipped' BY <1>2 DEF CrashPolls, PollerInv, NoRecordSkipped
  <2>3. \A p \in Polls : PollSure(p)'
    BY <1>2, RestingIsSure DEF CrashPolls, NoPoll
  <2>4. QED BY <2>1, <2>2, <2>3 DEF PollerInv
<1>3. CASE \E p \in Polls : pollPayments(p) \/ RunPoll(p) \/ PollFails(p) BY <1>3, PollMoves
<1>4. CASE UNCHANGED pollerVars
  BY <1>4 DEF pollerVars, PollerInv, PollerTypeOK, NoRecordSkipped, PollSure, TriedUpTo,
              Records
<1>5. QED BY <1>1, <1>2, <1>3, <1>4 DEF PollerNext

\* Overlapping polls never move the cursor past a payment that was not handed over, for
\* any number of polls, records, failures and crashes: a poll that starts from a stale
\* cursor sets it back, never ahead.
THEOREM NoRecordPassedOver == PollerSpec => []NoRecordSkipped
<1>1. PollerInv => NoRecordSkipped BY DEF PollerInv
<1>2. QED BY PollerInitInv, PollerStepInv, <1>1, PTL DEF PollerSpec

-----------------------------------------------------------------------------
(* Types *)

\* What OccurrenceInv leaves open: the histories hold days, and the bounds bound.
RecurringBounds ==
    /\ day \in 0..LastDay /\ complete \subseteq Nat /\ anchors \subseteq Nat
    /\ edits \in 0..MaxEdits /\ mishaps \in 0..MaxMishaps

LEMMA RecurringBoundsStep ==
    OccurrenceInv /\ RecurringBounds /\ [RecurringNext]_recurringVars => RecurringBounds'
<1> SUFFICES ASSUME OccurrenceInv, RecurringBounds, [RecurringNext]_recurringVars
             PROVE  RecurringBounds'
  OBVIOUS
<1>1. /\ day \in 0..LastDay /\ complete \subseteq Nat /\ anchors \subseteq Nat
      /\ edits \in 0..MaxEdits /\ mishaps \in 0..MaxMishaps /\ Period \in Nat
      /\ LastDay \in Nat /\ MaxEdits \in Nat /\ MaxMishaps \in Nat /\ Cron \in Generators
  BY RecurringConstants DEF RecurringBounds
<1>2. ASSUME NEW g \in Generators, SaveParticipants(g) PROVE RecurringBounds'
  <2>1. generator[g] \in GeneratorStates /\ generator[g].read # Gone
    BY <1>2 DEF OccurrenceInv, SaveParticipants
  <2>2. generator[g].read.next \in Nat
    BY <2>1 DEF GeneratorStates, Row
  <2> QED
    BY <1>1, <1>2, <2>2 DEF SaveParticipants, RecurringBounds
<1>3. ASSUME NEW g \in Generators,
             \/ processRecurringSplits \/ manuallyProcessRecurringSplit(g)
             \/ generateSplitFromTemplate(g) \/ Deactivate(g) \/ SaveSplit(g)
             \/ SaveNextOccurrence(g) \/ GenerationFails(g)
      PROVE  RecurringBounds'
  <2>1. day' = day /\ complete' = complete /\ anchors' = anchors
    BY <1>3 DEF processRecurringSplits, manuallyProcessRecurringSplit, generateSplitFromTemplate,
       Deactivate, SaveSplit, SaveNextOccurrence, GenerationFails
  <2>2. /\ edits' = edits \/ (edits < MaxEdits /\ edits' = edits + 1)
        /\ mishaps' = mishaps \/ (mishaps < MaxMishaps /\ mishaps' = mishaps + 1)
    BY <1>3 DEF processRecurringSplits, manuallyProcessRecurringSplit, generateSplitFromTemplate,
       Deactivate, SaveSplit, SaveNextOccurrence, GenerationFails
  <2> QED
    BY <1>1, <2>1, <2>2 DEF RecurringBounds
<1>4. CASE \E call \in {"pause", "resume", "update", "delete"} : CallOwner(call)
  BY <1>1, <1>4 DEF CallOwner, RecurringBounds
<1>5. CASE FinishCall
  <2>1. anchors' = anchors \/ (resumeRecurringSplit /\ anchors' = anchors \cup {row'.next})
    BY <1>5 DEF FinishCall, pauseRecurringSplit, resumeRecurringSplit, updateRecurringSplit,
       deleteRecurringSplit
  <2>2. ASSUME resumeRecurringSplit PROVE row'.next \in Nat
    <3>1. owner.read \in Row
      BY <2>2 DEF resumeRecurringSplit, OccurrenceInv, OwnerStates
    <3> DEFINE n == calculateNextOccurrence(day)
    <3>2. n \in Nat
      BY <1>1 DEF calculateNextOccurrence
    <3>3. row' = [owner.read EXCEPT !.active = TRUE, !.next = n]
      BY <2>2 DEF resumeRecurringSplit
    <3> HIDE DEF n
    <3> QED
      BY <3>1, <3>2, <3>3 DEF Row
  <2> QED
    BY <1>1, <1>5, <2>1, <2>2 DEF FinishCall, RecurringBounds
<1>6. CASE NextDay
  BY <1>1, <1>6 DEF NextDay, RecurringBounds
<1>7. CASE UNCHANGED recurringVars
  BY <1>7 DEF recurringVars, RecurringBounds
<1> QED
  BY <1>1, <1>2, <1>3, <1>4, <1>5, <1>6, <1>7 DEF RecurringNext, Generate

\* The queue gives up after its attempts, and a job it puts back has some left.
BatchBounds ==
    /\ faults \in 0..MaxFaults /\ job.attempts \in 0..JobAttempts
    /\ job.state = "waiting" => job.attempts < JobAttempts

LEMMA BatchBoundsStep ==
    BatchInv /\ BatchBounds /\ [BatchNext]_batchVars => BatchBounds'
<1> SUFFICES ASSUME BatchInv, BatchBounds, [BatchNext]_batchVars PROVE BatchBounds'
  OBVIOUS
<1>1. /\ job \in BatchQueue /\ faults \in 0..MaxFaults /\ MaxFaults \in Nat
      /\ job.attempts \in 0..JobAttempts /\ JobAttempts \in Nat \ {0}
      /\ job.state = "waiting" => job.attempts < JobAttempts
  BY BatchFacts, BatchConstants DEF BatchBounds
<1>2. /\ Requeued.attempts = job.attempts
      /\ Requeued.state = "waiting" => job.attempts < JobAttempts
  BY <1>1 DEF Requeued, BatchQueue
<1>3. CASE handleSplitBatch
  <2>1. /\ job' = [state |-> "active", run |-> job.run + 1, attempts |-> job.attempts + 1]
        /\ job.state = "waiting" /\ faults' = faults
    BY <1>3 DEF handleSplitBatch
  <2>2. job'.state = "active" /\ job'.attempts = job.attempts + 1
    BY <2>1
  <2> QED
    BY <1>1, <2>1, <2>2 DEF BatchBounds
<1>4. CASE RunRejects \/ CrashBatch
  <2>1. job' = Requeued /\ (faults' = faults \/ (faults < MaxFaults /\ faults' = faults + 1))
    BY <1>4 DEF RunRejects, CrashBatch, Fault
  <2> QED
    BY <1>1, <1>2, <2>1 DEF BatchBounds
<1>5. CASE RunEnds \/ QueueAgain \/ RemoveJob
  <2>1. faults' = faults
    BY <1>5 DEF RunEnds, QueueAgain, RemoveJob
  <2>2. \/ job' = job
        \/ \E s \in {"finished", "none"} : job' = [job EXCEPT !.state = s]
        \/ job' = [job EXCEPT !.state = "waiting", !.attempts = 0]
    BY <1>5 DEF RunEnds, QueueAgain, RemoveJob
  <2>3. \/ job' = job
        \/ job'.attempts = job.attempts /\ job'.state # "waiting"
        \/ job'.attempts = 0
    BY <1>1, <2>2 DEF BatchQueue
  <2> QED
    BY <1>1, <2>1, <2>3 DEF BatchBounds
<1>6. ASSUME NEW x \in Runs \X Lanes,
             \/ Shift(x) \/ markOperationStarted(x) \/ CreateSplit(x) \/ markOperationCompleted(x)
             \/ markOperationFailed(x) \/ updateProgress(x) \/ SaveProgress(x) \/ StatementFails(x)
      PROVE  BatchBounds'
  <2>1. job' = job /\ (faults' = faults \/ (faults < MaxFaults /\ faults' = faults + 1))
    BY <1>6 DEF Shift, markOperationStarted, CreateSplit, markOperationCompleted,
       markOperationFailed, updateProgress, SaveProgress, StatementFails, Fault
  <2> QED
    BY <1>1, <2>1 DEF BatchBounds
<1>7. CASE \/ retryFailedOperations \/ ResetBatch \/ (\E i \in Ops : ResetOperation(i))
           \/ cancelBatch \/ CancelOperations \/ CloseBatch
  BY <1>7 DEF retryFailedOperations, ResetBatch, ResetOperation, cancelBatch, CancelOperations,
     CloseBatch, BatchBounds
<1>8. CASE UNCHANGED batchVars
  BY <1>8 DEF batchVars, BatchBounds
<1> QED
  BY <1>3, <1>4, <1>5, <1>6, <1>7, <1>8 DEF BatchNext

\* The rows of the jobs, and what every worker holds of them, keep their types for any
\* number of workers, calls and failures: no queue runs a job more often than its attempts
\* allow, and no saved cursor is ahead of its account.
THEOREM JobTypes ==
    /\ ReconSpec => []ReconTypeOK
    /\ OcrSpec => []OcrTypeOK
    /\ RecurringSpec => []RecurringTypeOK
    /\ WebhookSpec => []WebhookTypeOK
    /\ ExportSpec => []ExportTypeOK
    /\ GovernanceSpec => []GovernanceTypeOK
    /\ BatchSpec => []BatchTypeOK
    /\ PollerSpec => []PollerTypeOK
<1>1. ReconSpec => []ReconTypeOK
  <2>1. ReconInv => ReconTypeOK
    BY DEF ReconInv
  <2> QED
    BY <2>1, ReconInitInv, ReconStepInv, PTL DEF ReconSpec
<1>2. OcrSpec => []OcrTypeOK
  <2>1. ResultInv => OcrTypeOK
    BY DEF ResultInv
  <2> QED
    BY <2>1, OcrInitInv, OcrStepInv, PTL DEF OcrSpec
<1>3. RecurringSpec => []RecurringTypeOK
  <2>1. RecurringInit => RecurringBounds
    BY RecurringConstants DEF RecurringInit, RecurringBounds
  <2>2. OccurrenceInv /\ RecurringBounds => RecurringTypeOK
    BY DEF OccurrenceInv, RecurringBounds, RecurringTypeOK, GeneratorStates, OwnerStates
  <2> QED
    BY <2>1, <2>2, OccurrenceInitInv, OccurrenceStepInv, RecurringBoundsStep, PTL DEF RecurringSpec
<1>4. WebhookSpec => []WebhookTypeOK
  <2>1. WebhookInv => WebhookTypeOK
    BY DEF WebhookInv
  <2> QED
    BY <2>1, WebhookInitInv, WebhookStepInv, PTL DEF WebhookSpec
<1>5. ExportSpec => []ExportTypeOK
  <2>1. ExportInv => ExportTypeOK
    BY DEF ExportInv, ExportRows
  <2> QED
    BY <2>1, ExportInitInv, ExportStepInv, PTL DEF ExportSpec
<1>6. GovernanceSpec => []GovernanceTypeOK
  <2>1. GovernanceInv => GovernanceTypeOK
    BY DEF GovernanceInv
  <2> QED
    BY <2>1, GovernanceInitInv, GovernanceStepInv, PTL DEF GovernanceSpec
<1>7. BatchSpec => []BatchTypeOK
  <2>1. BatchInit => BatchBounds
    BY BatchConstants DEF BatchInit, BatchBounds
  <2>2. ASSUME BatchInv, BatchBounds PROVE BatchTypeOK
    <3>1. job \in BatchQueue /\ job.attempts \in 0..JobAttempts
      BY <2>2, BatchFacts DEF BatchBounds
    <3>2. job \in [state : {"none", "waiting", "active", "finished"}, run : 0..MaxRuns,
                   attempts : 0..JobAttempts]
      BY <3>1 DEF BatchQueue
    <3> QED
      BY <2>2, <3>2, BatchFacts DEF BatchTypeOK, BatchBounds, OpRows, LaneStates
  <2> QED
    BY <2>1, <2>2, BatchInitInv, BatchStepInv, BatchBoundsStep, PTL DEF BatchSpec
<1>8. PollerSpec => []PollerTypeOK
  <2>1. PollerInv => PollerTypeOK
    BY DEF PollerInv
  <2> QED
    BY <2>1, PollerInitInv, PollerStepInv, PTL DEF PollerSpec
<1> QED
  BY <1>1, <1>2, <1>3, <1>4, <1>5, <1>6, <1>7, <1>8
=================================================================================
