------------------------------- MODULE FlashLoan -------------------------------
(***************************************************************************)
(* The flash-loan contract.  A loan is one transaction: tokens go out, the *)
(* borrower's callback runs and may move tokens and call contracts, and    *)
(* the contract compares balances.  A transaction that fails is undone.    *)
(***************************************************************************)
EXTENDS Integers

CONSTANTS
    Borrowers,    \* contracts that borrow
    LoanAmounts,  \* amounts asked for or moved
    LoanFeeRates, \* fee_bp the admin may choose, out of FeeBase
    FeeBase,      \* 10000 in the source, smaller here
    LoanFunds,    \* tokens of everyone at the start
    NoLoan        \* no loan, no borrower

ASSUME LoanConstants ==
    /\ LoanAmounts \subseteq Nat /\ LoanFeeRates \subseteq Nat
    /\ FeeBase \in Nat \ {0} /\ LoanFunds \in Nat
    /\ NoLoan \notin Borrowers

VARIABLES
    fee_bp,  \* the fee rate, NoLoan before initialize
    pool,    \* the contract's balance
    wallet,  \* the borrowers' balances
    loan,    \* the loan record: generate_loan_id gives every loan the same identifier
    running, \* the loan whose callback runs, with what to undo: NoLoan outside one
    earned   \* history: fees of the loans that succeeded

loanVars == <<fee_bp, pool, wallet, loan, running, earned>>

Loan == [borrower : Borrowers, amount : Nat, fee : Nat, repaid : BOOLEAN]

\* A loan whose callback runs: what was lent, and what to put back.
Attempt == [loan : Loan, before : Nat, wallets : [Borrowers -> Nat], old : Loan \cup {NoLoan}]

ASSUME NoLoanIsNone == NoLoan \notin Loan \cup Attempt

LoanTypeOK ==
    /\ fee_bp \in LoanFeeRates \cup {NoLoan}
    /\ pool \in Nat /\ earned \in Nat
    /\ wallet \in [Borrowers -> Nat]
    /\ loan \in Loan \cup {NoLoan}
    /\ running \in Attempt \cup {NoLoan}

LoanInit ==
    /\ fee_bp = NoLoan
    /\ pool = LoanFunds
    /\ wallet = [b \in Borrowers |-> LoanFunds]
    /\ loan = NoLoan /\ running = NoLoan /\ earned = 0

LoanInitialize(rate) ==
    /\ running = NoLoan /\ fee_bp = NoLoan
    /\ fee_bp' = rate
    /\ UNCHANGED <<pool, wallet, loan, running, earned>>

\* flash_loan up to the callback; the guard refuses it while another runs.
Lend(b, amount) ==
    LET record == [borrower |-> b, amount |-> amount,
                   fee |-> (amount * fee_bp) \div FeeBase, repaid |-> FALSE]
    IN  /\ running = NoLoan /\ fee_bp # NoLoan
        /\ amount <= pool
        /\ loan' = record
        /\ pool' = pool - amount
        /\ wallet' = [wallet EXCEPT ![b] = @ + amount]
        /\ running' = [loan |-> record, before |-> pool, wallets |-> wallet, old |-> loan]
        /\ UNCHANGED <<fee_bp, earned>>

\* The callback, like anyone between transactions, may move tokens.
Pay(b, amount) ==
    /\ amount <= wallet[b]
    /\ wallet' = [wallet EXCEPT ![b] = @ - amount]
    /\ pool' = pool + amount
    /\ UNCHANGED <<fee_bp, loan, running, earned>>

Hand(b, c, amount) ==
    /\ b # c /\ amount <= wallet[b]
    /\ wallet' = [wallet EXCEPT ![b] = @ - amount, ![c] = @ + amount]
    /\ UNCHANGED <<fee_bp, pool, loan, running, earned>>

\* Whether the balances show the loan returned; the first form is that of issue
\* #660, which asked for the fee alone.
RepaidFeeOnly == pool - (running.before - running.loan.amount) >= running.loan.fee
Repaid ==
    /\ pool >= running.before
    /\ pool - (running.before - running.loan.amount) >= running.loan.amount + running.loan.fee

Conclude ==
    /\ running # NoLoan
    /\ Repaid
    /\ running' = NoLoan
    /\ earned' = earned + running.loan.fee
    /\ UNCHANGED <<fee_bp, pool, wallet, loan>>

\* Too little came back, or the callback failed: the transaction is undone.
Undo ==
    /\ running # NoLoan
    /\ pool' = running.before
    /\ wallet' = running.wallets
    /\ loan' = running.old
    /\ running' = NoLoan
    /\ UNCHANGED <<fee_bp, earned>>

\* A transaction of its own: contracts cannot be re-entered from the callback.
repay_flash_loan(amount) ==
    /\ running = NoLoan
    /\ loan # NoLoan /\ ~loan.repaid
    /\ amount >= loan.amount + loan.fee
    /\ amount <= wallet[loan.borrower]
    /\ wallet' = [wallet EXCEPT ![loan.borrower] = @ - amount]
    /\ pool' = pool + amount
    /\ loan' = [loan EXCEPT !.repaid = TRUE]
    /\ UNCHANGED <<fee_bp, running, earned>>

LoanNext ==
    \/ Conclude \/ Undo
    \/ \E rate \in LoanFeeRates : LoanInitialize(rate)
    \/ \E amount \in LoanAmounts :
         \/ repay_flash_loan(amount)
         \/ \E b \in Borrowers :
              Lend(b, amount) \/ Pay(b, amount) \/ \E c \in Borrowers : Hand(b, c, amount)

LoanSpec == LoanInit /\ [][LoanNext]_loanVars

-----------------------------------------------------------------------------
(* Properties *)

\* Whatever callbacks do with the tokens they hold, between transactions the pool
\* has everything it was funded with and the fee of every loan that succeeded.
PoolKeepsFees == running = NoLoan => pool >= LoanFunds + earned
=============================================================================
