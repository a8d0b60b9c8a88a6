----------------------------- MODULE PaymentLedger -----------------------------
(***************************************************************************)
(* What payment processing promises (backend/docs/payment-system.md), with *)
(* no transactions, locks or look-ups: a submission is entered in one step *)
(* or not at all, at most one for every idempotency key, only into a split *)
(* that is not frozen, and its participant is credited with its amount.    *)
(***************************************************************************)
EXTENDS Sums

CONSTANTS
    NumEntries,  \* submissions are 1..NumEntries
    NumPayers,   \* participants are 1..NumPayers
    Funds,       \* the splits
    KeyOf,       \* the idempotency key of every submission
    PayerOf,     \* its participant
    FundOf,      \* its split
    ValueOf      \* its amount

Entries == 1..NumEntries
Payers  == 1..NumPayers

\* What the constants are like, wherever this module is instantiated.
LedgerConstants ==
    /\ NumEntries \in Nat /\ NumPayers \in Nat
    /\ PayerOf \in [Entries -> Payers]
    /\ FundOf \in [Entries -> Funds]
    /\ ValueOf \in [Entries -> Nat]

VARIABLES
    entered, \* the submissions that count
    balance, \* what every participant is credited with
    halted   \* whether every split is frozen

ledgerVars == <<entered, balance, halted>>

LedgerInit ==
    /\ entered = {}
    /\ balance = [p \in Payers |-> 0]
    /\ halted = [f \in Funds |-> FALSE]

Enter(e) ==
    /\ e \notin entered
    /\ \A d \in entered : KeyOf[d] # KeyOf[e]
    /\ ~halted[FundOf[e]]
    /\ entered' = entered \cup {e}
    /\ balance' = [balance EXCEPT ![PayerOf[e]] = @ + ValueOf[e]]
    /\ UNCHANGED halted

Halt(f, b) ==
    /\ halted' = [halted EXCEPT ![f] = b]
    /\ UNCHANGED <<entered, balance>>

LedgerNext ==
    \/ \E e \in Entries : Enter(e)
    \/ \E f \in Funds, b \in BOOLEAN : Halt(f, b)

LedgerSpec == LedgerInit /\ [][LedgerNext]_ledgerVars

-----------------------------------------------------------------------------
(* Properties *)

\* Entries are submissions and balances amounts.
LedgerTypeOK ==
    /\ entered \subseteq Entries
    /\ balance \in [Payers -> Nat]
    /\ halted \in [Funds -> BOOLEAN]

\* No two payment rows share an idempotency key, although the code looks the key up
\* without a lock long before it inserts the row.
KeyCountsOnce == \A d, e \in entered : KeyOf[d] = KeyOf[e] => d = e

\* A participant's entries, as amounts.
EntriesOf(p) == [e \in Entries |-> IF e \in entered /\ PayerOf[e] = p THEN ValueOf[e] ELSE 0]

\* What a participant is credited with (participants.amountPaid) is the sum of its
\* payment rows: concurrent submissions never overwrite each other's amount.
BalancesMatchEntries == \A p \in Payers : balance[p] = SumTo(EntriesOf(p), NumEntries)
=============================================================================
