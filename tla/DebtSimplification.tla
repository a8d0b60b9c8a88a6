--------------------------- MODULE DebtSimplification ---------------------------
(***************************************************************************)
(* Debt simplification for one asset                                       *)
(* (backend/src/debt-simplification/debt-graph.service.ts): the debts of   *)
(* unpaid participants to the creators of their splits are netted wallet   *)
(* by wallet, then the largest debtor pays the largest creditor until      *)
(* nobody owes anything.  Amounts are in cents, of which the code's        *)
(* epsilon of 0.0001 is a fraction.                                        *)
(***************************************************************************)
EXTENDS Sums, FiniteSets

CONSTANTS
    NumWallets, \* wallets are 1..NumWallets
    MaxDebt,    \* bound on the amount of a debt
    MaxDebts    \* bound on the number of debts

ASSUME DebtConstants == NumWallets \in Nat /\ MaxDebt \in Nat /\ MaxDebts \in Nat

VARIABLES
    stage,     \* reading the debts, settling, or done
    debts,     \* debts read so far
    balance,   \* what every wallet is owed, less what it owes
    nets,      \* what is left of it to settle
    transfer,  \* the result: what each wallet is told to pay to each
    transfers  \* the length of the result

debtVars == <<stage, debts, balance, nets, transfer, transfers>>

Wallets == 1..NumWallets
Nothing == [w \in Wallets |-> 0]

DebtTypeOK ==
    /\ stage \in {"reading", "settling", "done"}
    /\ debts \in Nat /\ transfers \in Nat
    /\ balance \in [Wallets -> Int] /\ nets \in [Wallets -> Int]
    /\ transfer \in [Wallets -> [Wallets -> Nat]]

DebtInit ==
    /\ stage = "reading" /\ debts = 0
    /\ balance = Nothing /\ nets = Nothing
    /\ transfer = [w \in Wallets |-> Nothing] /\ transfers = 0

\* One debt of the list.  The creator of a split may be a participant of it too.
AddDebt(from, to, amount) ==
    /\ stage = "reading" /\ debts < MaxDebts
    /\ debts' = debts + 1
    /\ balance' = [[balance EXCEPT ![from] = @ - amount] EXCEPT ![to] = @ + amount]
    /\ UNCHANGED <<stage, nets, transfer, transfers>>

StartSettling ==
    /\ stage = "reading"
    /\ stage' = "settling" /\ nets' = balance
    /\ UNCHANGED <<debts, balance, transfer, transfers>>

\* The wallets that are still in the list.
Unsettled == {w \in Wallets : nets[w] # 0}

LargestDebtor(w)   == w \in Unsettled /\ nets[w] < 0 /\ \A v \in Unsettled : nets[w] <= nets[v]
LargestCreditor(w) == w \in Unsettled /\ \A v \in Unsettled : nets[v] <= nets[w]

\* The first form lets the debtor pay the first creditor everything it owes.
EverythingOwed(debtor, creditor) == -nets[debtor]
SettleAmount(debtor, creditor) ==
    IF -nets[debtor] <= nets[creditor] THEN -nets[debtor] ELSE nets[creditor]

Settle(debtor, creditor) ==
    /\ stage = "settling"
    /\ LargestDebtor(debtor) /\ LargestCreditor(creditor)
    /\ LET amount == SettleAmount(debtor, creditor)
       IN  /\ transfer' = [transfer EXCEPT ![debtor][creditor] = @ + amount]
           /\ nets' = [[nets EXCEPT ![debtor] = @ + amount] EXCEPT ![creditor] = @ - amount]
    /\ transfers' = transfers + 1
    /\ UNCHANGED <<stage, debts, balance>>

\* That fewer than two wallets are left ends the loop too, and never happens otherwise:
\* what one wallet is owed, others owe.
FinishSettling ==
    /\ stage = "settling"
    /\ \A w \in Unsettled : nets[w] >= 0
    /\ stage' = "done"
    /\ UNCHANGED <<debts, balance, nets, transfer, transfers>>

DebtNext ==
    \/ StartSettling \/ FinishSettling
    \/ \E v, w \in Wallets : (\E a \in 1..MaxDebt : AddDebt(v, w, a)) \/ Settle(v, w)

DebtSpec == DebtInit /\ [][DebtNext]_debtVars

-----------------------------------------------------------------------------
(* Properties *)

Paid(w)     == SumTo(transfer[w], NumWallets)
Received(w) == SumTo([v \in Wallets |-> transfer[v][w]], NumWallets)

\* Whoever follows the result is left with nothing to pay or receive: payments go from
\* wallets that owe to wallets that are owed, never beyond what they owe or are owed,
\* and cover it all at the end, in fewer transfers than there are wallets involved.
DebtsNetOut ==
    /\ \A v, w \in Wallets : transfer[v][w] > 0 => balance[v] < 0 /\ balance[w] > 0
    /\ stage # "reading" => \A w \in Wallets : balance[w] = nets[w] + Received(w) - Paid(w)
    /\ stage = "done" => \A w \in Wallets : nets[w] = 0
    /\ transfers > 0 => transfers < Cardinality({w \in Wallets : balance[w] # 0})
=============================================================================
