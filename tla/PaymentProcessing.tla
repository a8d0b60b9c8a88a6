-------------------------- MODULE PaymentProcessing --------------------------
(***************************************************************************)
(* Concurrent payment submissions of the backend                           *)
(* (backend/src/payments/payment-processor.service.ts).  A submission runs *)
(* in one database transaction (PostgreSQL, READ COMMITTED): two unlocked  *)
(* duplicate checks, the verification on Stellar, row locks on the         *)
(* participant and then on the split, and writes that become visible at    *)
(* the commit.  What a step reads is used by later steps as it was read.   *)
(* Submissions come from clients, which may choose the idempotency key,    *)
(* and from the Horizon poller, which never does.                          *)
(* Amounts are in hundredths, the scale of the decimal(10,2) columns.      *)
(***************************************************************************)
EXTENDS Sums

CONSTANTS
    NumRequests,     \* submissions are 1..NumRequests
    NumParticipants, \* participants are 1..NumParticipants
    Splits,
    SplitOf,         \* the split of every participant
    Owed,            \* amountOwed of every participant
    TotalAmount,     \* totalAmount of every split
    Request,         \* what every submission asks: [split, participant, tx, key]
    Amount,          \* what every transaction on the network pays
    PathPayments,    \* the transactions that are path payments
    None,            \* no key given; nobody holds the lock
    DecimalsAreText  \* TRUE: the driver returns decimal columns as text (pg)

Requests     == 1..NumRequests
Participants == 1..NumParticipants

ASSUME PaymentConstants ==
    /\ NumRequests \in Nat /\ NumParticipants \in Nat
    /\ SplitOf \in [Participants -> Splits]
    /\ Owed \in [Participants -> Nat]
    /\ TotalAmount \in [Splits -> Nat]
    /\ \A r \in Requests : /\ Request[r].participant \in Participants
                           /\ Request[r].split \in Splits
                           /\ Request[r].tx \in DOMAIN Amount
    /\ \A tx \in DOMAIN Amount : Amount[tx] \in Nat \ {0}
    /\ None \notin Requests
    /\ DecimalsAreText \in BOOLEAN

VARIABLES
    pc,         \* where every submission is
    answer,     \* what its caller was told
    credited,   \* the submissions whose payment row is committed
    paid,       \* participants.amountPaid
    standing,   \* participants.status
    splitPaid,  \* splits.amountPaid
    splitStatus,\* splits.status
    frozen,     \* splits.isFrozen
    seen,       \* what every submission read: its participant's amount and
                \* status, and the new total of the split
    rowLock,    \* who holds the row lock of every participant
    splitLock,  \* who holds the row lock of every split
    reputation  \* PAID_ON_TIME / PAID_LATE events recorded per participant

paymentVars == <<pc, answer, credited, paid, standing, splitPaid, splitStatus, frozen,
                 seen, rowLock, splitLock, reputation>>

PaymentTypeOK ==
    /\ pc \in [Requests -> {"idle", "byKey", "byTx", "verify", "participant", "split",
                            "convert", "record", "store", "commit", "notify", "done"}]
    /\ answer \in [Requests -> {"none", "processed", "duplicate", "refused"}]
    /\ credited \subseteq Requests
    /\ paid \in [Participants -> Nat]
    /\ standing \in [Participants -> {"pending", "partial", "paid"}]
    /\ splitPaid \in [Splits -> Nat]
    /\ splitStatus \in [Splits -> {"active", "partial", "completed"}]
    /\ frozen \in [Splits -> BOOLEAN]
    /\ seen \in [Requests -> [paid : Nat, standing : {"pending", "partial", "paid"}, total : Nat]]
    /\ rowLock \in [Participants -> Requests \cup {None}]
    /\ splitLock \in [Splits -> Requests \cup {None}]
    /\ reputation \in [Participants -> Nat]

Init ==
    /\ pc = [r \in Requests |-> "idle"]
    /\ answer = [r \in Requests |-> "none"]
    /\ credited = {}
    /\ paid = [p \in Participants |-> 0]
    /\ standing = [p \in Participants |-> "pending"]
    /\ splitPaid = [s \in Splits |-> 0]
    /\ splitStatus = [s \in Splits |-> "active"]
    /\ frozen = [s \in Splits |-> FALSE]
    /\ seen = [r \in Requests |-> [paid |-> 0, standing |-> "pending", total |-> 0]]
    /\ rowLock = [p \in Participants |-> None]
    /\ splitLock = [s \in Splits |-> None]
    /\ reputation = [p \in Participants |-> 0]

-----------------------------------------------------------------------------
(* Helpers *)

Payer(r)  == Request[r].participant
Target(r) == Request[r].split

\* The caller's key, or the hash of split, participant and transaction.
idempotencyKey(r) ==
    IF Request[r].key = None
    THEN <<Request[r].split, Request[r].participant, Request[r].tx>>
    ELSE Request[r].key

\* A payment with the key is stored; the first form finds it before the commit too.
KnownKeyEarly(r) ==
    \E q \in Requests : (q \in credited \/ pc[q] = "commit") /\ idempotencyKey(q) = idempotencyKey(r)
KnownKey(r) == \E q \in credited : idempotencyKey(q) = idempotencyKey(r)
KnownTx(r)  == \E q \in credited : Request[q].tx = Request[r].tx

\* The unique index on idempotencyKey refuses the insert; the first form has no index.
NoUniqueIndex(r) == FALSE
RefusedByIndex(r) == KnownKey(r)

\* "12.34" + 50 is the text "12.3450", which the column rounds to two decimals:
\* only the leading digit of the amount counts, and an amount with a fraction
\* gives a text that is no number at all.
LeadingDigit(n) ==
    LET lead[k \in 0..n] == IF k < 10 THEN k ELSE lead[k \div 10] IN lead[n]
Appended(held, amount) == held + (IF LeadingDigit(amount \div 100) >= 5 THEN 1 ELSE 0)

newAmountPaid(held, amount) ==
    IF DecimalsAreText THEN Appended(held, amount) ELSE held + amount
Storable(amount) == DecimalsAreText => amount % 100 = 0

\* newAmountPaid >= amountOwed.  On texts the appended digits cannot lift the
\* amount over what is owed (amounts below 10.00, where the order of texts is
\* the order of the numbers).
Reaches(p, held, amount) ==
    IF DecimalsAreText THEN held >= Owed[p] ELSE held + amount >= Owed[p]

wasFullyPaidBefore(r) == seen[r].paid >= Owed[Payer(r)] \/ seen[r].standing = "paid"

\* The first form forgets that the participant had paid in full before.
ReputationEvery(r, reached) == reached
ReputationDue(r, reached) == reached /\ ~wasFullyPaidBefore(r)

\* The rows locked by r become free (commit and rollback alike).
Unlock(r) ==
    /\ rowLock' = [p \in Participants |-> IF rowLock[p] = r THEN None ELSE rowLock[p]]
    /\ splitLock' = [s \in Splits |-> IF splitLock[s] = r THEN None ELSE splitLock[s]]

Goto(r, place) == pc' = [pc EXCEPT ![r] = place]

Reply(r, what) ==
    /\ Goto(r, "done")
    /\ answer' = [answer EXCEPT ![r] = what]

books == <<credited, paid, standing, splitPaid, splitStatus, reputation>>
locks == <<rowLock, splitLock>>

-----------------------------------------------------------------------------
(* The submission, await by await *)

submitPayment(r) ==
    /\ pc[r] = "idle"
    /\ Goto(r, "byKey")
    /\ UNCHANGED <<answer, books, frozen, seen, locks>>

\* The transaction holds no lock yet: answering a duplicate only rolls back.
FindByKey(r) ==
    /\ pc[r] = "byKey"
    /\ IF KnownKey(r) THEN Reply(r, "duplicate") ELSE Goto(r, "byTx") /\ UNCHANGED answer
    /\ UNCHANGED <<books, frozen, seen, locks>>

FindByTxHash(r) ==
    /\ pc[r] = "byTx"
    /\ IF KnownTx(r) THEN Reply(r, "duplicate") ELSE Goto(r, "verify") /\ UNCHANGED answer
    /\ UNCHANGED <<books, frozen, seen, locks>>

\* verifyTransaction answers null for whatever goes wrong with Horizon.
Verify(r) ==
    /\ pc[r] = "verify"
    /\ \/ Reply(r, "refused")
       \/ Goto(r, "participant") /\ UNCHANGED answer
    /\ UNCHANGED <<books, frozen, seen, locks>>

ReadParticipant(r) ==
    seen' = [seen EXCEPT ![r].paid = paid[Payer(r)], ![r].standing = standing[Payer(r)]]

\* The read without the lock.
ReadOnly(r) == ReadParticipant(r) /\ UNCHANGED rowLock
ReadForUpdate(r) ==
    /\ rowLock[Payer(r)] = None
    /\ rowLock' = [rowLock EXCEPT ![Payer(r)] = r]
    /\ ReadParticipant(r)

\* A participant of another split is not found, and nothing gets locked.
LockParticipant(r) ==
    /\ pc[r] = "participant"
    /\ IF SplitOf[Payer(r)] # Target(r)
       THEN Reply(r, "refused") /\ UNCHANGED <<seen, rowLock>>
       ELSE ReadForUpdate(r) /\ Goto(r, "split") /\ UNCHANGED answer
    /\ UNCHANGED <<books, frozen, splitLock>>

\* The split read without waiting for its lock.
EnterSplitUnlocked(r) == UNCHANGED locks
EnterSplit(r) ==
    /\ splitLock[Target(r)] = None
    /\ splitLock' = [splitLock EXCEPT ![Target(r)] = r]
    /\ UNCHANGED rowLock

\* A frozen split refuses the payment; the forms before it take it all the same,
\* and refuse it without the rollback.
IsFrozenIgnored(r) == FALSE
IsFrozen(r) == frozen[Target(r)]
RefuseLeaking(r) == Reply(r, "refused") /\ UNCHANGED locks
RefuseFrozen(r) == Reply(r, "refused") /\ Unlock(r)

LockSplit(r) ==
    /\ pc[r] = "split"
    /\ IF IsFrozen(r)
       THEN splitLock[Target(r)] = None /\ RefuseFrozen(r)
       ELSE /\ EnterSplit(r)
            /\ Goto(r, IF Request[r].tx \in PathPayments THEN "convert" ELSE "store")
            /\ UNCHANGED answer
    /\ UNCHANGED <<books, frozen, seen>>

\* processMultiCurrencyPayment runs on another connection.  It may fail (no
\* rate) or find a payment row of the transaction, and the submission goes on;
\* otherwise it inserts a row of its own, whose foreign key has to lock the
\* participant's row that this submission holds FOR UPDATE while it waits:
\* nothing but the end of the process leads out of "record".
Convert(r) ==
    /\ pc[r] = "convert"
    /\ \/ Goto(r, "store")
       \/ ~KnownTx(r) /\ Goto(r, "record")
    /\ UNCHANGED <<answer, books, frozen, seen, locks>>

\* The fraud check blocks, or a statement fails: rollback.
RollBack(r) ==
    /\ pc[r] \in {"store", "commit"}
    /\ Reply(r, "refused")
    /\ Unlock(r)
    /\ UNCHANGED <<books, frozen, seen>>

SplitTotal(s, amounts) ==
    SumTo([p \in Participants |-> IF SplitOf[p] = s THEN amounts[p] ELSE 0], NumParticipants)

StatusFor(s, total) ==
    IF total >= TotalAmount[s] THEN "completed" ELSE IF total > 0 THEN "partial" ELSE "active"

NewAmount(r) == newAmountPaid(seen[r].paid, Amount[Request[r].tx])

\* Another transaction has inserted the same key and not ended: the index makes
\* this one wait.
KeyInUse(r) ==
    \E q \in Requests \ {r} : pc[q] = "commit" /\ idempotencyKey(q) = idempotencyKey(r)

\* Insert the payment row, update the participant and add up the split's
\* participants, own update included.
Store(r) ==
    /\ pc[r] = "store"
    /\ ~KeyInUse(r)
    /\ ~RefusedByIndex(r)
    /\ Storable(Amount[Request[r].tx])
    /\ seen' = [seen EXCEPT ![r].total =
                   SplitTotal(Target(r), [paid EXCEPT ![Payer(r)] = NewAmount(r)])]
    /\ Goto(r, "commit")
    /\ UNCHANGED <<answer, books, frozen, locks>>

\* Update the split, record the reputation event, commit.
Commit(r) ==
    LET p == Payer(r)
        s == Target(r)
        reached == Reaches(p, seen[r].paid, Amount[Request[r].tx])
    IN
    /\ pc[r] = "commit"
    /\ credited' = credited \cup {r}
    /\ paid' = [paid EXCEPT ![p] = NewAmount(r)]
    /\ standing' = [standing EXCEPT ![p] = IF reached THEN "paid" ELSE "partial"]
    /\ splitPaid' = [splitPaid EXCEPT ![s] = seen[r].total]
    /\ splitStatus' = [splitStatus EXCEPT ![s] = StatusFor(s, seen[r].total)]
    /\ reputation' = [reputation EXCEPT ![p] = IF ReputationDue(r, reached) THEN @ + 1 ELSE @]
    /\ Goto(r, "notify")
    /\ Unlock(r)
    /\ UNCHANGED <<answer, frozen, seen>>

Notify(r) ==
    /\ pc[r] = "notify"
    /\ Reply(r, "processed")
    /\ UNCHANGED <<books, frozen, seen, locks>>

\* The process or the connection dies; the caller hears nothing.
Crash(r) ==
    /\ pc[r] \notin {"idle", "done"}
    /\ Goto(r, "done")
    /\ Unlock(r)
    /\ UNCHANGED <<answer, books, frozen, seen>>

\* The disputes service freezes and unfreezes a split (an UPDATE, which waits
\* for the row lock).
SetFrozen(s, b) ==
    /\ splitLock[s] = None
    /\ frozen' = [frozen EXCEPT ![s] = b]
    /\ UNCHANGED <<pc, answer, books, seen, locks>>

\* What the server does for a submission without outside help.
Proceed(r) ==
    \/ FindByKey(r) \/ FindByTxHash(r) \/ Verify(r) \/ LockParticipant(r) \/ LockSplit(r)
    \/ Convert(r) \/ RollBack(r) \/ Store(r) \/ Commit(r) \/ Notify(r)

Next ==
    \/ \E r \in Requests : submitPayment(r) \/ Proceed(r) \/ Crash(r)
    \/ \E s \in Splits, b \in BOOLEAN : SetFrozen(s, b)

Spec == Init /\ [][Next]_paymentVars

\* Node and PostgreSQL keep serving a submission once it is in.
FairSpec == Spec /\ \A r \in Requests : WF_paymentVars(Proceed(r))

-----------------------------------------------------------------------------
(* Properties *)

\* The split's own total and status agree with its participants' amounts after
\* every commit (updateSplitAmountPaidTransactional), however payments of
\* different participants interleave.
SplitTotalsAddUp ==
    \A s \in Splits : /\ splitPaid[s] = SplitTotal(s, paid)
                      /\ splitPaid[s] > 0 => splitStatus[s] = StatusFor(s, splitPaid[s])

\* Read as a ledger of what is committed, with none of the transactions, look-ups and
\* locks: concurrent submissions, freezes under way at the same time and crashes enter
\* each payment once and whole, never into a frozen split and never over another's
\* amount.
Ledger == INSTANCE PaymentLedger WITH
    NumEntries <- NumRequests, NumPayers <- NumParticipants, Funds <- Splits,
    KeyOf   <- [r \in Requests |-> idempotencyKey(r)],
    PayerOf <- [r \in Requests |-> Payer(r)],
    FundOf  <- [r \in Requests |-> Target(r)],
    ValueOf <- [r \in Requests |-> Amount[Request[r].tx]],
    entered <- credited, balance <- paid, halted <- frozen

\* processPaymentSubmission implements the ledger: whatever submissions overlap, wait, fail
\* or die, a commit enters one payment whole, and nothing else is seen of it.
PaymentsAreLedger == Ledger!LedgerSpec

\* Paying in full counts once for a participant's reputation, and only then.
OneReputationEvent ==
    \A p \in Participants :
        reputation[p] = IF 0 < Owed[p] /\ Owed[p] <= paid[p] THEN 1 ELSE 0

\* Totals and reputation follow from what the participants have paid.
PaymentsAddUp == SplitTotalsAddUp /\ OneReputationEvent

\* What a caller hears is so for good, whatever becomes of the others: "processed" means
\* that this submission is credited, "duplicate" that another one of its key or its
\* transaction is, and after either refusal nothing was credited for it.
AnswersHold ==
    \A r \in Requests :
        /\ answer[r] = "processed" => r \in credited
        /\ answer[r] \in {"duplicate", "refused"} => r \notin credited
        /\ answer[r] = "duplicate" =>
             \E q \in credited : \/ idempotencyKey(q) = idempotencyKey(r)
                               \/ Request[q].tx = Request[r].tx

\* Whom submission r waits for: the holder of the row it wants, or of the key it wants to
\* insert; a path payment, while its own insert is under way, waits for itself.
WaitsFor(r, q) ==
    \/ pc[r] = "participant" /\ SplitOf[Payer(r)] = Target(r) /\ rowLock[Payer(r)] = q
    \/ pc[r] = "split" /\ splitLock[Target(r)] = q
    \/ pc[r] = "store" /\ q # r /\ pc[q] = "commit" /\ idempotencyKey(q) = idempotencyKey(r)
    \/ pc[r] = "record" /\ q = r

\* No deadlock among submissions, however many of them share participants, splits and
\* keys: whoever is waited for is still under way, and among any that wait some one waits
\* for none of the others, unless it is a path payment stuck in its own insert.
NoWaitCycle ==
    /\ \A r, q \in Requests : WaitsFor(r, q) => pc[q] \notin {"idle", "notify", "done"}
    /\ \A W \in (SUBSET Requests) \ {{}} :
         (\A r \in W : pc[r] # "record") => \E r \in W : \A q \in W : ~WaitsFor(r, q)

\* Nobody waits for a lock of a submission that is over: every submission gets
\* to its end unless the process dies first.
EverySubmissionEnds == \A r \in Requests : pc[r] = "byKey" ~> pc[r] = "done"

\* docs/payment-system.md: "Prevents double-processing of transactions".
TransactionCreditedOnce ==
    \A q, r \in credited : Request[q].tx = Request[r].tx => q = r
=============================================================================
