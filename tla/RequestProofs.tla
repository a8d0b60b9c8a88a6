------------------------------ MODULE RequestProofs ------------------------------
(***************************************************************************)
(* What the request handlers of the backend keep, for any number of        *)
(* requests and clients in any order: debts are settled exactly; disputes  *)
(* are reviewed before they are settled; an idempotency key replays the    *)
(* answer of one run; the caps of short links and invitations are exceeded *)
(* by races only; an audit log of a collaboration reads right; and an      *)
(* archive loses only what raced with it.                                  *)
(***************************************************************************)
EXTENDS Invitations, ShortLinks, Idempotency, Archiving, DebtSimplification,
        Collaboration, BackendDisputes, SumsProofs, FiniteSetTheorems, TLAPS

-----------------------------------------------------------------------------
(* Lemmas shared *)

\* A cap on every round, one round for each race.
LEMMA OneRoundMore ==
    ASSUME NEW m \in Nat, NEW n \in Nat
    PROVE  m * n \in Nat /\ m * (n + 1) = m * n + m /\ m * (1 + n) = m * n + m
OBVIOUS

-----------------------------------------------------------------------------
(* Debt simplification *)

\* The wallets that owe or are owed anything.
Involved == {w \in Wallets : balance[w] # 0}

\* What is left to settle of a balance lies between nothing and all of it.
Within(left, all) == (all <= left /\ left <= 0) \/ (0 <= left /\ left <= all)

\* Every transfer settles a wallet, and the last one settles two.
TransfersCounted ==
    /\ Unsettled # {} => transfers + Cardinality(Unsettled) <= Cardinality(Involved)
    /\ Unsettled = {} => transfers = 0 \/ transfers < Cardinality(Involved)

DebtInv ==
    /\ DebtTypeOK
    /\ SumTo(balance, NumWallets) = 0
    /\ stage = "reading" =>
         nets = Nothing /\ transfer = [w \in Wallets |-> Nothing] /\ transfers = 0
    /\ stage # "reading" =>
         /\ SumTo(nets, NumWallets) = 0
         /\ \A w \in Wallets : balance[w] = nets[w] + Received(w) - Paid(w)
         /\ \A w \in Wallets : Within(nets[w], balance[w])
         /\ TransfersCounted
    /\ \A v, w \in Wallets : transfer[v][w] > 0 => balance[v] < 0 /\ balance[w] > 0
    /\ stage = "done" => \A w \in Wallets : nets[w] = 0

\* h is f with x moved from a to b.
Moved(h, f, a, b, x) ==
    \A k \in Wallets : h[k] = f[k] - (IF k = a THEN x ELSE 0) + (IF k = b THEN x ELSE 0)

\* What a wallet receives from each, in a table of transfers.
Column(t, w) == [v \in Wallets |-> t[v][w]]

\* g is f with x more for c.
Gained(g, f, c, x) == \A k \in Wallets : g[k] = f[k] + (IF k = c THEN x ELSE 0)

\* The table u is t with a transfer of x from d to c added.
Transferred(u, t, d, c, x) ==
    \A v \in Wallets, k \in Wallets :
        u[v][k] = t[v][k] + (IF v = d /\ k = c THEN x ELSE 0)

-----------------------------------------------------------------------------
(* Debt simplification: sums of columns of the transfers *)

LEMMA NothingSums ==
    ASSUME DebtConstants
    PROVE  SumTo(Nothing, NumWallets) = 0
<1>1. NumWallets \in Nat /\ Nothing \in [1..NumWallets -> Int] /\ 0 \in 0..NumWallets
  BY DEF DebtConstants, Nothing, Wallets
<1>2. \A k \in (0+1)..NumWallets : Nothing[k] = 0
  BY DEF Nothing, Wallets
<1>3. SumTo(Nothing, NumWallets) = SumTo(Nothing, 0)
  BY <1>1, <1>2, SumTail
<1>4. SumTo(Nothing, 0) = 0
  BY <1>1, SumSteps
<1> QED BY <1>3, <1>4

\* Moving an amount from one wallet to another leaves the sum alone.
LEMMA MoveKeepsSum ==
    ASSUME DebtConstants, NEW f \in [Wallets -> Int], NEW h \in [Wallets -> Int],
           NEW a \in Wallets, NEW b \in Wallets, NEW x \in Int, Moved(h, f, a, b, x)
    PROVE  SumTo(h, NumWallets) = SumTo(f, NumWallets)
<1> DEFINE g == [k \in Wallets |-> f[k] - (IF k = a THEN x ELSE 0)]
<1>1. /\ NumWallets \in Nat /\ Wallets = 1..NumWallets
      /\ a \in 1..NumWallets /\ b \in 1..NumWallets
  BY DEF DebtConstants, Wallets
<1>2. \A k \in Wallets : f[k] \in Int /\ h[k] \in Int
  OBVIOUS
<1>3. g \in [Wallets -> Int]
  BY <1>2
<1>4. /\ \A k \in Wallets : g[k] = f[k] - (IF k = a THEN x ELSE 0)
      /\ \A k \in Wallets : g[k] \in Int
  BY <1>3
<1> HIDE DEF g
<1>5. /\ \A k \in 1..NumWallets : k # a => f[k] = g[k]
      /\ \A k \in 1..NumWallets : k # b => g[k] = h[k]
      /\ g[a] = f[a] - x /\ h[b] = g[b] + x
  BY <1>1, <1>2, <1>4 DEF Moved
<1>6. SumTo(g, NumWallets) = SumTo(f, NumWallets) + g[a] - f[a]
  BY <1>1, <1>3, <1>5, SumUpdate
<1>7. SumTo(h, NumWallets) = SumTo(g, NumWallets) + h[b] - g[b]
  BY <1>1, <1>3, <1>5, SumUpdate
<1>8. NumWallets \in 0..NumWallets /\ f \in [1..NumWallets -> Int]
  BY <1>1
<1>9. SumTo(f, NumWallets) \in Int
  BY <1>1, <1>8, SumSteps
<1> QED BY <1>2, <1>4, <1>5, <1>6, <1>7, <1>9

\* What some wallet owes, others are owed.
LEMMA DebtorHasCreditor ==
    ASSUME DebtConstants, NEW f \in [Wallets -> Int], SumTo(f, NumWallets) = 0,
           NEW d \in Wallets, f[d] < 0
    PROVE  \E w \in Wallets : f[w] > 0
<1> SUFFICES ASSUME \A w \in Wallets : f[w] <= 0 PROVE FALSE
  OBVIOUS
<1>1. /\ NumWallets \in Nat /\ f \in [1..NumWallets -> Int] /\ Nothing \in [1..NumWallets -> Int]
      /\ \A k \in 1..NumWallets : f[k] <= Nothing[k]
      /\ d \in 1..NumWallets /\ Nothing[d] = 0
  BY DEF DebtConstants, Wallets, Nothing
<1>2. SumTo(f, NumWallets) = SumTo(Nothing, NumWallets)
  BY NothingSums
<1>3. f[d] = Nothing[d]
  BY <1>1, <1>2, SumTight
<1> QED BY <1>1, <1>3

\* A sum grows with one of its terms.
LEMMA GainAddsToSum ==
    ASSUME DebtConstants, NEW f \in [Wallets -> Nat], NEW g \in [Wallets -> Nat],
           NEW c \in Wallets, NEW x \in Nat, Gained(g, f, c, x)
    PROVE  SumTo(g, NumWallets) = SumTo(f, NumWallets) + x /\ SumTo(f, NumWallets) \in Int
<1>1. /\ NumWallets \in Nat /\ NumWallets \in 0..NumWallets /\ c \in 1..NumWallets
      /\ f \in [1..NumWallets -> Int] /\ g \in [1..NumWallets -> Int]
  BY DEF DebtConstants, Wallets
<1>2. /\ \A k \in 1..NumWallets : k # c => f[k] = g[k]
      /\ g[c] = f[c] + x /\ f[c] \in Int
  BY <1>1 DEF Gained, Wallets
<1>3. SumTo(g, NumWallets) = SumTo(f, NumWallets) + g[c] - f[c]
  BY <1>1, <1>2, SumUpdate
<1>4. SumTo(f, NumWallets) \in Int
  BY <1>1, SumSteps
<1> QED BY <1>2, <1>3, <1>4

\* A transfer adds to what its payer paid and to what its payee received, and to
\* nobody else's.
LEMMA TransferMovesTwoSums ==
    ASSUME DebtConstants, NEW t \in [Wallets -> [Wallets -> Nat]], NEW d \in Wallets,
           NEW c \in Wallets, NEW x \in Nat, NEW u \in [Wallets -> [Wallets -> Nat]],
           Transferred(u, t, d, c, x), NEW w \in Wallets
    PROVE  /\ SumTo(u[w], NumWallets) = SumTo(t[w], NumWallets) + (IF w = d THEN x ELSE 0)
           /\ SumTo(Column(u, w), NumWallets)
                = SumTo(Column(t, w), NumWallets) + (IF w = c THEN x ELSE 0)
           /\ SumTo(t[w], NumWallets) \in Int
           /\ SumTo(Column(t, w), NumWallets) \in Int
<1> DEFINE tr == t[w]
           ur == u[w]
           tc == Column(t, w)
           uc == Column(u, w)
           xr == IF w = d THEN x ELSE 0
           xc == IF w = c THEN x ELSE 0
<1>1. /\ tr \in [Wallets -> Nat] /\ ur \in [Wallets -> Nat]
      /\ tc \in [Wallets -> Nat] /\ uc \in [Wallets -> Nat]
      /\ xr \in Nat /\ xc \in Nat
  BY DEF Column
<1>2. Gained(ur, tr, c, xr)
  BY DEF Gained, Transferred
<1>3. Gained(uc, tc, d, xc)
  BY DEF Gained, Transferred, Column
<1> HIDE DEF tr, ur, tc, uc, xr, xc
<1>4. SumTo(ur, NumWallets) = SumTo(tr, NumWallets) + xr /\ SumTo(tr, NumWallets) \in Int
  BY <1>1, <1>2, GainAddsToSum
<1>5. SumTo(uc, NumWallets) = SumTo(tc, NumWallets) + xc /\ SumTo(tc, NumWallets) \in Int
  BY <1>1, <1>3, GainAddsToSum
<1> QED BY <1>4, <1>5 DEF tr, ur, tc, uc, xr, xc

-----------------------------------------------------------------------------
(* Debt simplification: steps *)

\* The largest debtor and the largest creditor differ, and settling between them settles
\* one of them.
LEMMA SomeoneIsSettled ==
    ASSUME DebtConstants, DebtInv, stage = "settling",
           NEW d \in Wallets, NEW c \in Wallets, LargestDebtor(d), LargestCreditor(c)
    PROVE  /\ nets[d] < 0 /\ nets[c] > 0 /\ d # c
           /\ SettleAmount(d, c) \in Nat \ {0}
           /\ nets[d] + SettleAmount(d, c) <= 0 /\ nets[c] - SettleAmount(d, c) >= 0
           /\ nets[d] + SettleAmount(d, c) = 0 \/ nets[c] - SettleAmount(d, c) = 0
<1>1. /\ nets \in [Wallets -> Int] /\ nets[d] < 0 /\ SumTo(nets, NumWallets) = 0
      /\ nets[d] \in Int /\ nets[c] \in Int
  BY DEF DebtInv, DebtTypeOK, LargestDebtor
<1>2. PICK w \in Wallets : nets[w] > 0
  BY <1>1, DebtorHasCreditor
<1>3. w \in Unsettled /\ nets[w] \in Int
  BY <1>1, <1>2 DEF Unsettled
<1>4. nets[c] > 0
  BY <1>1, <1>2, <1>3 DEF LargestCreditor
<1> QED BY <1>1, <1>4 DEF SettleAmount

\* What a transfer does to the list of unsettled wallets, and why it counts.
LEMMA TransferCounts ==
    ASSUME DebtConstants, DebtInv, stage = "settling",
           NEW d \in Wallets, NEW c \in Wallets, Settle(d, c)
    PROVE  TransfersCounted'
<1> DEFINE U == Unsettled
           V == Unsettled'
           I == Cardinality(Involved)
<1>1. /\ nets \in [Wallets -> Int] /\ transfers \in Nat /\ transfers' = transfers + 1
      /\ TransfersCounted /\ balance' = balance
  BY DEF DebtInv, DebtTypeOK, Settle
<1>2. /\ nets[d] < 0 /\ nets[c] > 0 /\ d # c
      /\ nets[d] + SettleAmount(d, c) = 0 \/ nets[c] - SettleAmount(d, c) = 0
      /\ SettleAmount(d, c) \in Nat
      /\ nets' = [[nets EXCEPT ![d] = @ + SettleAmount(d, c)]
                          EXCEPT ![c] = @ - SettleAmount(d, c)]
  BY SomeoneIsSettled DEF Settle
<1>3. d \in U /\ c \in U
  BY <1>2 DEF Unsettled
<1>4. V = U \ {w \in {d, c} : nets'[w] = 0}
  <2>1. \A w \in Wallets : w # d /\ w # c => nets'[w] = nets[w]
    BY <1>1, <1>2
  <2> QED BY <1>3, <2>1 DEF Unsettled
<1>5. nets'[d] = nets[d] + SettleAmount(d, c) /\ nets'[c] = nets[c] - SettleAmount(d, c)
  BY <1>1, <1>2
<1>6. IsFiniteSet(Wallets) /\ IsFiniteSet(U) /\ IsFiniteSet(Involved)
      /\ Cardinality(U) \in Nat /\ I \in Nat
  <2>1. IsFiniteSet(Wallets)
    BY FS_Interval DEF Wallets, DebtConstants
  <2>2. U \subseteq Wallets /\ Involved \subseteq Wallets
    BY DEF Unsettled, Involved
  <2>3. IsFiniteSet(U) /\ IsFiniteSet(Involved)
    BY <2>1, <2>2, FS_Subset
  <2> QED BY <2>1, <2>3, FS_CardinalityType
<1>7. Involved' = Involved
  BY <1>1 DEF Involved
<1>8. U # {} /\ transfers + Cardinality(U) <= I
  BY <1>1, <1>3 DEF TransfersCounted
<1>9. CASE nets'[d] = 0 /\ nets'[c] = 0
  <2>1. V = (U \ {d}) \ {c}
    BY <1>4, <1>9
  <2>2. Cardinality(U \ {d}) = Cardinality(U) - 1 /\ IsFiniteSet(U \ {d})
    BY <1>3, <1>6, FS_RemoveElement
  <2>3. c \in U \ {d}
    BY <1>2, <1>3
  <2>4. Cardinality(V) = Cardinality(U) - 2 /\ IsFiniteSet(V)
    <3>1. Cardinality((U \ {d}) \ {c}) = Cardinality(U \ {d}) - 1 /\ IsFiniteSet((U \ {d}) \ {c})
      BY <2>2, <2>3, FS_RemoveElement
    <3> HIDE DEF U, V
    <3> QED BY <1>6, <2>1, <2>2, <3>1
  <2>5. Cardinality(V) \in Nat
    BY <2>4, FS_CardinalityType
  <2> HIDE DEF U, V, I
  <2>6. transfers' + Cardinality(V) <= I /\ transfers' < I
    BY <1>1, <1>6, <1>8, <2>4, <2>5
  <2> QED BY <1>7, <2>6 DEF TransfersCounted, U, V, I
<1>10. CASE ~(nets'[d] = 0 /\ nets'[c] = 0)
  <2>1. PICK x \in {d, c} : V = U \ {x} /\ V # {}
    <3>1. CASE nets'[d] = 0
      <4>1. nets'[c] # 0 /\ V = U \ {d} /\ c \in V
        BY <1>2, <1>3, <1>4, <1>10, <3>1
      <4> QED BY <4>1
    <3>2. CASE nets'[c] = 0
      <4>1. nets'[d] # 0 /\ V = U \ {c} /\ d \in V
        BY <1>2, <1>3, <1>4, <1>10, <3>2
      <4> QED BY <4>1
    <3> QED BY <1>2, <1>5, <3>1, <3>2
  <2>2. x \in U
    BY <1>3
  <2>3. Cardinality(V) = Cardinality(U) - 1
    BY <1>6, <2>1, <2>2, FS_RemoveElement
  <2> HIDE DEF U, V, I
  <2>4. transfers' + Cardinality(V) <= I
    BY <1>1, <1>6, <1>8, <2>3
  <2> QED BY <1>7, <2>1, <2>4 DEF TransfersCounted, U, V, I
<1> QED BY <1>9, <1>10

LEMMA DebtInvHoldsFirst ==
    ASSUME DebtConstants, DebtInit
    PROVE  DebtInv
<1>1. DebtTypeOK
  BY DEF DebtInit, DebtTypeOK, Nothing
<1>2. SumTo(balance, NumWallets) = 0
  BY NothingSums DEF DebtInit
<1>3. \A v, w \in Wallets : transfer[v][w] = 0
  BY DEF DebtInit, Nothing
<1> QED BY <1>1, <1>2, <1>3 DEF DebtInit, DebtInv

LEMMA AddDebtKeepsInv ==
    ASSUME DebtConstants, DebtInv, NEW v \in Wallets, NEW w \in Wallets,
           NEW a \in 1..MaxDebt, AddDebt(v, w, a)
    PROVE  DebtInv'
<1>1. /\ balance \in [Wallets -> Int] /\ a \in Int /\ stage = "reading"
      /\ nets = Nothing /\ transfer = [x \in Wallets |-> Nothing] /\ transfers = 0
      /\ SumTo(balance, NumWallets) = 0
  BY DEF DebtInv, DebtTypeOK, AddDebt
<1>2. DebtTypeOK'
  BY <1>1 DEF DebtInv, DebtTypeOK, AddDebt
<1>3. SumTo(balance', NumWallets) = 0
  <2>1. /\ balance' \in [Wallets -> Int]
        /\ Moved(balance', balance, v, w, a)
    BY <1>1 DEF AddDebt, Moved
  <2>2. SumTo(balance', NumWallets) = SumTo(balance, NumWallets)
    BY <1>1, <2>1, MoveKeepsSum
  <2> QED BY <1>1, <2>2
<1>4. \A x, y \in Wallets : transfer'[x][y] = 0
  BY <1>1 DEF AddDebt, Nothing
<1> QED BY <1>1, <1>2, <1>3, <1>4 DEF AddDebt, DebtInv

LEMMA StartKeepsInv ==
    ASSUME DebtConstants, DebtInv, StartSettling
    PROVE  DebtInv'
<1>1. /\ stage = "reading" /\ stage' = "settling" /\ nets' = balance
      /\ UNCHANGED <<debts, balance, transfer, transfers>>
      /\ transfer = [x \in Wallets |-> Nothing] /\ transfers = 0
      /\ balance \in [Wallets -> Int] /\ SumTo(balance, NumWallets) = 0
  BY DEF DebtInv, DebtTypeOK, StartSettling
<1>2. DebtTypeOK'
  BY <1>1 DEF DebtInv, DebtTypeOK
<1>3. \A w \in Wallets : Paid(w)' = 0 /\ Received(w)' = 0
  <2>1. \A w \in Wallets : transfer'[w] = Nothing /\ [v \in Wallets |-> transfer'[v][w]] = Nothing
    BY <1>1 DEF Nothing
  <2> QED BY <2>1, NothingSums DEF Paid, Received
<1>4. \A w \in Wallets : balance'[w] = nets'[w] + Received(w)' - Paid(w)'
  BY <1>1, <1>3
<1>5. \A w \in Wallets : Within(nets'[w], balance'[w])
  BY <1>1 DEF Within
<1>6. TransfersCounted'
  <2>1. Unsettled' = Involved /\ Involved' = Involved
    BY <1>1 DEF Unsettled, Involved
  <2>2. Cardinality(Involved) \in Nat
    <3>1. IsFiniteSet(Wallets) /\ Involved \subseteq Wallets
      BY FS_Interval DEF Wallets, DebtConstants, Involved
    <3> QED BY <3>1, FS_Subset, FS_CardinalityType
  <2> QED BY <1>1, <2>1, <2>2 DEF TransfersCounted
<1>7. \A x, y \in Wallets : transfer'[x][y] = 0
  BY <1>1 DEF Nothing
<1> QED BY <1>1, <1>2, <1>4, <1>5, <1>6, <1>7 DEF DebtInv

LEMMA SettleKeepsInv ==
    ASSUME DebtConstants, DebtInv, NEW d \in Wallets, NEW c \in Wallets, Settle(d, c)
    PROVE  DebtInv'
<1> DEFINE amount == SettleAmount(d, c)
<1>1. /\ stage = "settling" /\ LargestDebtor(d) /\ LargestCreditor(c)
      /\ transfer' = [transfer EXCEPT ![d][c] = @ + amount]
      /\ nets' = [[nets EXCEPT ![d] = @ + amount] EXCEPT ![c] = @ - amount]
      /\ transfers' = transfers + 1
      /\ UNCHANGED <<stage, debts, balance>>
  BY DEF Settle
<1>2. /\ nets \in [Wallets -> Int] /\ balance \in [Wallets -> Int]
      /\ transfer \in [Wallets -> [Wallets -> Nat]]
      /\ SumTo(nets, NumWallets) = 0 /\ SumTo(balance, NumWallets) = 0
      /\ \A w \in Wallets : balance[w] = nets[w] + Received(w) - Paid(w)
      /\ \A w \in Wallets : Within(nets[w], balance[w])
      /\ \A v, w \in Wallets : transfer[v][w] > 0 => balance[v] < 0 /\ balance[w] > 0
  BY <1>1 DEF DebtInv, DebtTypeOK
<1>3. /\ nets[d] < 0 /\ nets[c] > 0 /\ d # c /\ amount \in Nat
      /\ nets[d] + amount <= 0 /\ nets[c] - amount >= 0
  BY <1>1, SomeoneIsSettled
<1> HIDE DEF amount
<1>4. /\ nets'[d] = nets[d] + amount /\ nets'[c] = nets[c] - amount
      /\ \A w \in Wallets : w # d /\ w # c => nets'[w] = nets[w]
      /\ nets' \in [Wallets -> Int]
  BY <1>1, <1>2, <1>3
<1>5. /\ transfer' \in [Wallets -> [Wallets -> Nat]]
      /\ \A v, w \in Wallets :
           transfer'[v][w] = transfer[v][w] + (IF v = d /\ w = c THEN amount ELSE 0)
  <2>1. ASSUME NEW v \in Wallets, NEW w \in Wallets
        PROVE  transfer'[v][w] = transfer[v][w] + (IF v = d /\ w = c THEN amount ELSE 0)
    <3>1. CASE v = d
      BY <1>1, <1>2, <1>3, <3>1
    <3>2. CASE v # d
      BY <1>1, <1>2, <3>2
    <3> QED BY <3>1, <3>2
  <2>2. transfer' \in [Wallets -> [Wallets -> Nat]]
    BY <1>1, <1>2, <1>3
  <2> QED BY <2>1, <2>2
<1>6. DebtTypeOK'
  BY <1>1, <1>4, <1>5 DEF DebtInv, DebtTypeOK
<1>7. SumTo(nets', NumWallets) = 0
  <2>1. Moved(nets', nets, c, d, amount)
    BY <1>2, <1>3, <1>4 DEF Moved
  <2>2. SumTo(nets', NumWallets) = SumTo(nets, NumWallets)
    <3>1. amount \in Int
      BY <1>3
    <3> QED BY <1>2, <1>4, <2>1, <3>1, MoveKeepsSum
  <2> QED BY <1>2, <2>2
<1>8. \A w \in Wallets : balance'[w] = nets'[w] + Received(w)' - Paid(w)'
  <2> TAKE w \in Wallets
  <2>1. /\ Paid(w)' = Paid(w) + (IF w = d THEN amount ELSE 0)
        /\ Received(w)' = Received(w) + (IF w = c THEN amount ELSE 0)
        /\ Paid(w) \in Int /\ Received(w) \in Int
    <3> DEFINE u == transfer'
    <3>1. /\ u \in [Wallets -> [Wallets -> Nat]]
          /\ Transferred(u, transfer, d, c, amount)
      BY <1>5 DEF Transferred
    <3> HIDE DEF u
    <3>2. /\ SumTo(u[w], NumWallets) = SumTo(transfer[w], NumWallets) + (IF w = d THEN amount ELSE 0)
          /\ SumTo(Column(u, w), NumWallets)
               = SumTo(Column(transfer, w), NumWallets) + (IF w = c THEN amount ELSE 0)
          /\ SumTo(transfer[w], NumWallets) \in Int
          /\ SumTo(Column(transfer, w), NumWallets) \in Int
      BY <1>2, <1>3, <3>1, TransferMovesTwoSums
    <3> QED BY <3>2 DEF Paid, Received, Column, u
  <2>2. nets'[w] = nets[w] + (IF w = d THEN amount ELSE 0) - (IF w = c THEN amount ELSE 0)
    <3>1. CASE w = d
      BY <1>2, <1>3, <1>4, <3>1
    <3>2. CASE w = c
      BY <1>2, <1>3, <1>4, <3>2
    <3>3. CASE w # d /\ w # c
      BY <1>2, <1>4, <3>3
    <3> QED BY <3>1, <3>2, <3>3
  <2>3. balance'[w] = nets[w] + Received(w) - Paid(w) /\ nets[w] \in Int
    BY <1>1, <1>2
  <2> QED BY <1>3, <2>1, <2>2, <2>3
<1>9. \A w \in Wallets : Within(nets'[w], balance'[w])
  <2> TAKE w \in Wallets
  <2>1. Within(nets[w], balance[w]) /\ nets[w] \in Int /\ balance[w] \in Int /\ balance'[w] = balance[w]
    BY <1>1, <1>2
  <2>2. CASE w = d
    BY <1>3, <1>4, <2>1, <2>2 DEF Within
  <2>3. CASE w = c
    BY <1>3, <1>4, <2>1, <2>3 DEF Within
  <2>4. CASE w # d /\ w # c
    BY <1>4, <2>1, <2>4
  <2> QED BY <2>2, <2>3, <2>4
<1>10. TransfersCounted'
  BY <1>1, TransferCounts
<1>11. balance[d] < 0 /\ balance[c] > 0
  BY <1>2, <1>3 DEF Within
<1>12. \A v, w \in Wallets : transfer'[v][w] > 0 => balance'[v] < 0 /\ balance'[w] > 0
  BY <1>1, <1>2, <1>3, <1>5, <1>11
<1> QED BY <1>1, <1>2, <1>6, <1>7, <1>8, <1>9, <1>10, <1>12 DEF DebtInv

LEMMA FinishKeepsInv ==
    ASSUME DebtConstants, DebtInv, FinishSettling
    PROVE  DebtInv'
<1>1. /\ stage = "settling" /\ stage' = "done"
      /\ UNCHANGED <<debts, balance, nets, transfer, transfers>>
      /\ nets \in [Wallets -> Int] /\ SumTo(nets, NumWallets) = 0
      /\ DebtTypeOK'
  BY DEF DebtInv, DebtTypeOK, FinishSettling
<1>2. \A w \in Wallets : nets[w] >= 0
  BY <1>1 DEF FinishSettling, Unsettled
<1>3. \A w \in Wallets : nets'[w] = 0
  <2>1. /\ NumWallets \in Nat /\ nets \in [1..NumWallets -> Int] /\ Nothing \in [1..NumWallets -> Int]
        /\ \A k \in 1..NumWallets : Nothing[k] <= nets[k] /\ Nothing[k] = 0
    BY <1>1, <1>2 DEF DebtConstants, Wallets, Nothing
  <2>2. SumTo(Nothing, NumWallets) = SumTo(nets, NumWallets)
    BY <1>1, NothingSums
  <2>3. \A k \in 1..NumWallets : Nothing[k] = nets[k]
    BY <2>1, <2>2, SumTight
  <2> QED BY <1>1, <2>1, <2>3 DEF Wallets
<1>4. \A w \in Wallets : Paid(w)' = Paid(w) /\ Received(w)' = Received(w)
  BY <1>1 DEF Paid, Received
<1>5. TransfersCounted'
  <2>1. TransfersCounted /\ Unsettled' = Unsettled /\ Involved' = Involved
    BY <1>1 DEF DebtInv, Unsettled, Involved
  <2> QED BY <1>1, <2>1 DEF TransfersCounted
<1> QED BY <1>1, <1>3, <1>4, <1>5 DEF DebtInv

LEMMA IdleKeepsDebtInv ==
    ASSUME DebtInv, UNCHANGED debtVars
    PROVE  DebtInv'
<1>1. UNCHANGED <<stage, debts, balance, nets, transfer, transfers>>
  BY DEF debtVars
<1> QED BY <1>1 DEF DebtInv, DebtTypeOK, Paid, Received, Within, TransfersCounted, Unsettled, Involved

-----------------------------------------------------------------------------
(* Debt simplification: theorems *)

\* The invariant of debt simplification: balances and what is left of them add up to
\* nothing, and every transfer is accounted for.
THEOREM DebtInvariant == DebtSpec => []DebtInv
<1>1. DebtInit => DebtInv
  BY DebtInvHoldsFirst, DebtConstants
<1>2. DebtInv /\ [DebtNext]_debtVars => DebtInv'
  <2> SUFFICES ASSUME DebtInv, [DebtNext]_debtVars PROVE DebtInv'
    OBVIOUS
  <2>1. CASE StartSettling
    BY <2>1, StartKeepsInv, DebtConstants
  <2>2. CASE FinishSettling
    BY <2>2, FinishKeepsInv, DebtConstants
  <2>3. ASSUME NEW v \in Wallets, NEW w \in Wallets, NEW a \in 1..MaxDebt, AddDebt(v, w, a)
        PROVE  DebtInv'
    BY <2>3, AddDebtKeepsInv, DebtConstants
  <2>4. ASSUME NEW v \in Wallets, NEW w \in Wallets, Settle(v, w)
        PROVE  DebtInv'
    BY <2>4, SettleKeepsInv, DebtConstants
  <2>5. CASE UNCHANGED debtVars
    BY <2>5, IdleKeepsDebtInv
  <2> QED BY <2>1, <2>2, <2>3, <2>4, <2>5 DEF DebtNext
<1> QED BY <1>1, <1>2, PTL DEF DebtSpec

\* Whoever follows the suggested transfers owes and is owed nothing, and there are
\* fewer of them than wallets involved: the documented bound of simplifyAsset.
THEOREM DebtsAreNetted == DebtSpec => []DebtsNetOut
<1>1. DebtInv => DebtsNetOut
  <2> SUFFICES ASSUME DebtInv PROVE DebtsNetOut
    OBVIOUS
  <2>1. transfers > 0 => transfers < Cardinality({w \in Wallets : balance[w] # 0})
    <3> SUFFICES ASSUME transfers > 0 PROVE transfers < Cardinality(Involved)
      BY DEF Involved
    <3>1. TransfersCounted /\ transfers \in Nat
      BY DEF DebtInv, DebtTypeOK
    <3>2. CASE Unsettled = {}
      BY <3>1, <3>2 DEF TransfersCounted
    <3>3. CASE Unsettled # {}
      <4>1. IsFiniteSet(Wallets) /\ Unsettled \subseteq Wallets /\ Involved \subseteq Wallets
        BY FS_Interval, DebtConstants DEF Wallets, Unsettled, Involved
      <4>2. /\ Cardinality(Unsettled) \in Nat /\ Cardinality(Unsettled) # 0
            /\ Cardinality(Involved) \in Nat
        BY <3>3, <4>1, FS_Subset, FS_CardinalityType, FS_EmptySet
      <4> QED BY <3>1, <3>3, <4>2 DEF TransfersCounted
    <3> QED BY <3>2, <3>3
  <2>2. /\ \A v, w \in Wallets : transfer[v][w] > 0 => balance[v] < 0 /\ balance[w] > 0
        /\ stage # "reading" => \A w \in Wallets : balance[w] = nets[w] + Received(w) - Paid(w)
        /\ stage = "done" => \A w \in Wallets : nets[w] = 0
    BY DEF DebtInv
  <2> QED BY <2>1, <2>2, Zenon DEF DebtsNetOut
<1> QED BY <1>1, DebtInvariant, PTL

-----------------------------------------------------------------------------
(* Backend disputes *)

PastReview == Settled \cup {"under_review", "appealed"}

\* A row that exists belongs to a split.
Filed(d) == IF dispute[d].status = "none" THEN dispute[d] = NoRow ELSE dispute[d].split \in Splits

ReviewKnown(d) == dispute[d].status \in PastReview => d \in reviewed

\* The object a handler holds was a row of a filed dispute, and, if it is past the
\* review, the dispute has been reviewed; its operation was allowed for it.
ObjectLoaded(h) ==
    /\ handler[h].op = "file" => handler[h].split \in Splits
    /\ handler[h].op \in Operations \cup {"onchain"} =>
         /\ handler[h].id \in Disputes
         /\ dispute[handler[h].id].status # "none"
         /\ handler[h].copy.status # "none" /\ handler[h].copy.split \in Splits
         /\ handler[h].copy.status \in PastReview => handler[h].id \in reviewed
    /\ handler[h].op \in Operations => Allows(handler[h].op, handler[h].copy.status)

DisputeInv ==
    /\ DisputeRowsOK
    /\ \A d \in Disputes : Filed(d) /\ ReviewKnown(d)
    /\ \A h \in Handlers : ObjectLoaded(h)

HandlerStates == [op : Operations \cup {"idle", "file", "onchain"},
                  id : Disputes \cup {None}, split : Splits \cup {None}, copy : Row]

LEMMA DisputeInitInv == DisputesInit => DisputeInv
<1> SUFFICES ASSUME DisputesInit PROVE DisputeInv
  OBVIOUS
<1>1. NoRow \in Row
  BY DEF NoRow, Row, Statuses
<1>2. DisputeRowsOK
  BY <1>1 DEF DisputesInit, DisputeRowsOK, Idle
<1>3. \A d \in Disputes : Filed(d) /\ ReviewKnown(d)
  BY DEF DisputesInit, Filed, ReviewKnown, NoRow, PastReview, Settled
<1>4. \A h \in Handlers : ObjectLoaded(h)
  BY DEF DisputesInit, ObjectLoaded, Idle, Operations
<1> QED
  BY <1>2, <1>3, <1>4 DEF DisputeInv

\* Saving the row of a filed dispute, reviewed if it is past the review.
LEMMA RowSaved ==
    ASSUME DisputeInv, NEW d \in Disputes, NEW row \in Row, Save(d, row),
           row.status # "none", row.split \in Splits,
           row.status \in PastReview \ {"under_review"} => d \in reviewed
    PROVE  /\ dispute' \in [Disputes -> Row] /\ reviewed' \subseteq Disputes
           /\ dispute'[d] = row
           /\ row.status \in PastReview => d \in reviewed'
           /\ \A e \in Disputes : e # d => dispute'[e] = dispute[e]
           /\ reviewed \subseteq reviewed'
           /\ \A e \in Disputes : Filed(e)' /\ ReviewKnown(e)'
           /\ \A e \in Disputes : dispute[e].status # "none" => dispute'[e].status # "none"
<1>1. /\ dispute' \in [Disputes -> Row] /\ reviewed' \subseteq Disputes
      /\ dispute'[d] = row
      /\ \A e \in Disputes : e # d => dispute'[e] = dispute[e]
      /\ reviewed \subseteq reviewed'
  BY DEF DisputeInv, DisputeRowsOK, Save
<1>2. row.status \in PastReview => d \in reviewed'
  BY DEF Save
<1>3. \A e \in Disputes : Filed(e)' /\ ReviewKnown(e)'
  BY <1>1, <1>2 DEF DisputeInv, Filed, ReviewKnown
<1> QED
  BY <1>1, <1>2, <1>3

\* Whoever is not served keeps what it may do.
LEMMA OthersKeep ==
    ASSUME DisputeInv, NEW h \in Handlers, handler'[h] = handler[h],
           reviewed \subseteq reviewed',
           \A e \in Disputes : dispute[e].status # "none" => dispute'[e].status # "none"
    PROVE  ObjectLoaded(h)'
BY DEF DisputeInv, ObjectLoaded, Allows, canTransition

LEMMA OperationTypes ==
    ASSUME NEW op \in Operations, NEW row \in Row, row.status # "none", row.split \in Splits,
           Allows(op, row.status)
    PROVE  /\ Updated(op, row) \in Row
           /\ Updated(op, row).status # "none"
           /\ Updated(op, row).split = row.split
           /\ Updated(op, row).splitFrozen = FreezeAfter(op, row.splitFrozen)
           /\ Updated(op, row).status = NewStatus(op, row.status)
           /\ FreezeAfter(op, row.splitFrozen) \in BOOLEAN
           /\ Entries(op, row.status) \in Nat
           /\ NewStatus(op, row.status) \in PastReview \ {"under_review"}
                => row.status \in PastReview
<1>1. row.splitFrozen \in BOOLEAN /\ row.trail \in Nat /\ row.status \in Statuses
  BY DEF Row
<1>2. NewStatus(op, row.status) \in Statuses
  BY <1>1 DEF NewStatus, Operations, Target, Statuses
<1>3. FreezeAfter(op, row.splitFrozen) \in BOOLEAN
  BY <1>1, Zenon DEF FreezeAfter
<1>4. Entries(op, row.status) \in Nat
  BY DEF Entries
<1>5. NewStatus(op, row.status) \in PastReview \ {"under_review"} => row.status \in PastReview
  BY <1>1 DEF NewStatus, Operations, Target, Statuses, PastReview, Settled, Allows, canTransition,
     VALID_TRANSITIONS
<1> DEFINE t == row.trail + Entries(op, row.status)
           s == NewStatus(op, row.status)
           f == FreezeAfter(op, row.splitFrozen)
<1>6. Updated(op, row) = [row EXCEPT !.status = s, !.splitFrozen = f, !.trail = t]
  BY DEF Updated
<1>7. t \in Nat /\ s \in Statuses /\ f \in BOOLEAN /\ s # "none"
  BY <1>1, <1>2, <1>3, <1>4 DEF Statuses
<1> HIDE DEF t, s, f
<1>8. /\ Updated(op, row) \in Row /\ Updated(op, row).status = s
      /\ Updated(op, row).splitFrozen = f /\ Updated(op, row).split = row.split
  BY <1>6, <1>7 DEF Row
<1> QED
  BY <1>3, <1>4, <1>5, <1>7, <1>8 DEF s, f

LEMMA FileStep ==
    ASSUME DisputeInv, NEW h \in Handlers, NEW d \in Disputes, fileDispute(h, d)
    PROVE  DisputeInv'
<1> DEFINE s == handler[h].split
           row == [status |-> "open", split |-> s, splitFrozen |-> TRUE, trail |-> 1]
           object == [row EXCEPT !.trail = @ + 1]
           held == [op |-> "onchain", id |-> d, split |-> s, copy |-> object]
<1>1. s \in Splits
  BY DEF DisputeInv, ObjectLoaded, fileDispute
<1>2. row \in Row /\ object \in Row /\ object.status = "open" /\ object.split = s
  <2>1. row \in Row /\ row.status = "open" /\ row.split = s
    BY <1>1 DEF Row, Statuses
  <2> HIDE DEF row
  <2> QED
    BY <2>1 DEF Row
<1>3. /\ Save(d, row) /\ isFrozen' = [isFrozen EXCEPT ![s] = TRUE]
      /\ performed' = [performed EXCEPT ![d] = 1]
      /\ handler' = [handler EXCEPT ![h] = held]
  BY DEF fileDispute, FilingFreezes
<1>4. row.status = "open" /\ row.split \in Splits /\ row.status \notin PastReview
  BY <1>1 DEF PastReview, Settled
<1> HIDE DEF row
<1>5. /\ dispute' \in [Disputes -> Row] /\ reviewed' \subseteq Disputes
      /\ dispute'[d] = row
      /\ reviewed \subseteq reviewed'
      /\ \A e \in Disputes : Filed(e)' /\ ReviewKnown(e)'
      /\ \A e \in Disputes : dispute[e].status # "none" => dispute'[e].status # "none"
  BY <1>2, <1>3, <1>4, RowSaved
<1>6. held \in HandlerStates
  BY <1>1, <1>2 DEF HandlerStates
<1>7. handler' \in [Handlers -> HandlerStates] /\ handler'[h] = held
      /\ \A g \in Handlers : g # h => handler'[g] = handler[g]
  BY <1>3, <1>6 DEF DisputeInv, DisputeRowsOK, HandlerStates
<1>8. isFrozen' \in [Splits -> BOOLEAN] /\ performed' \in [Disputes -> Nat]
  BY <1>3 DEF DisputeInv, DisputeRowsOK
<1>9. DisputeRowsOK'
  BY <1>5, <1>7, <1>8 DEF DisputeRowsOK, HandlerStates
<1>10. ObjectLoaded(h)'
  <2>1. held.op = "onchain" /\ held.id = d /\ held.copy.status = "open" /\ held.copy.split \in Splits
    BY <1>1, <1>2
  <2> HIDE DEF held
  <2> QED
    BY <2>1, <1>4, <1>5, <1>7 DEF ObjectLoaded, Operations, PastReview, Settled
<1>11. \A g \in Handlers : ObjectLoaded(g)'
  BY <1>5, <1>7, <1>10, OthersKeep
<1> QED
  BY <1>5, <1>9, <1>11 DEF DisputeInv

LEMMA LoadStep ==
    ASSUME DisputeInv, NEW h \in Handlers, NEW d \in Disputes, NEW op \in Operations,
           Load(h, op, d)
    PROVE  DisputeInv'
<1> DEFINE held == [op |-> op, id |-> d, split |-> dispute[d].split, copy |-> dispute[d]]
<1>1. /\ handler' = [handler EXCEPT ![h] = held] /\ UNCHANGED <<dispute, isFrozen, performed, reviewed>>
      /\ dispute[d].status # "none" /\ Allows(op, dispute[d].status)
  BY DEF Load
<1>2. dispute[d] \in Row /\ dispute[d].split \in Splits
      /\ (dispute[d].status \in PastReview => d \in reviewed)
  BY <1>1 DEF DisputeInv, DisputeRowsOK, Filed, ReviewKnown
<1>3. held \in HandlerStates
  BY <1>2 DEF HandlerStates
<1>4. handler' \in [Handlers -> HandlerStates] /\ handler'[h] = held
      /\ \A g \in Handlers : g # h => handler'[g] = handler[g]
  BY <1>1, <1>3 DEF DisputeInv, DisputeRowsOK, HandlerStates
<1>5. DisputeRowsOK'
  BY <1>1, <1>4 DEF DisputeInv, DisputeRowsOK, HandlerStates
<1>6. ObjectLoaded(h)'
  <2>1. held.op = op /\ held.id = d /\ held.copy = dispute[d]
    OBVIOUS
  <2>2. op \notin {"file"}
    BY DEF Operations
  <2>3. (Allows(handler[h].op, handler[h].copy.status))'
    BY <1>1, <1>4, <2>1 DEF Allows, canTransition
  <2> HIDE DEF held
  <2> QED
    BY <1>1, <1>2, <1>4, <2>1, <2>2, <2>3 DEF ObjectLoaded
<1>7. \A g \in Handlers : ObjectLoaded(g)'
  BY <1>1, <1>4, <1>6, OthersKeep
<1>8. \A e \in Disputes : Filed(e)' /\ ReviewKnown(e)'
  BY <1>1 DEF DisputeInv, Filed, ReviewKnown
<1> QED
  BY <1>5, <1>7, <1>8 DEF DisputeInv

\* What a loaded operation is saved with.
LEMMA LoadedFacts ==
    ASSUME DisputeInv, NEW h \in Handlers, handler[h].op \in Operations
    PROVE  /\ handler[h].id \in Disputes /\ handler[h].copy \in Row
           /\ handler[h].copy.split \in Splits
           /\ dispute[handler[h].id].status # "none"
           /\ Updated(handler[h].op, handler[h].copy) \in Row
           /\ Updated(handler[h].op, handler[h].copy).status # "none"
           /\ Updated(handler[h].op, handler[h].copy).split = handler[h].copy.split
           /\ Updated(handler[h].op, handler[h].copy).status
                = NewStatus(handler[h].op, handler[h].copy.status)
           /\ Updated(handler[h].op, handler[h].copy).splitFrozen
                = FreezeAfter(handler[h].op, handler[h].copy.splitFrozen)
           /\ Entries(handler[h].op, handler[h].copy.status) \in Nat
           /\ Updated(handler[h].op, handler[h].copy).status \in PastReview \ {"under_review"}
                => handler[h].id \in reviewed
<1>1. handler[h].copy \in Row
  BY DEF DisputeInv, DisputeRowsOK
<1>2. /\ handler[h].id \in Disputes /\ dispute[handler[h].id].status # "none"
      /\ handler[h].copy.status # "none" /\ handler[h].copy.split \in Splits
      /\ handler[h].copy.status \in PastReview => handler[h].id \in reviewed
      /\ Allows(handler[h].op, handler[h].copy.status)
  BY DEF DisputeInv, ObjectLoaded
<1> QED
  BY <1>1, <1>2, OperationTypes

LEMMA SaveActionStep ==
    ASSUME DisputeInv, NEW h \in Handlers, SaveAction(h)
    PROVE  DisputeInv'
<1> DEFINE op == handler[h].op
           d == handler[h].id
           row == Updated(op, handler[h].copy)
           held == IF op = "resolve" THEN [handler[h] EXCEPT !.op = "onchain", !.copy = row] ELSE Idle
           n == Entries(op, handler[h].copy.status)
<1>1. /\ op \in Operations /\ Save(d, row)
      /\ isFrozen' = [isFrozen EXCEPT ![row.split] = FreezeAfter(op, @)]
      /\ performed' = [performed EXCEPT ![d] = @ + n]
      /\ handler' = [handler EXCEPT ![h] = held]
  BY DEF SaveAction
<1>2. /\ d \in Disputes /\ row \in Row /\ row.status # "none" /\ row.split \in Splits
      /\ n \in Nat
      /\ row.status \in PastReview \ {"under_review"} => d \in reviewed
  BY <1>1, LoadedFacts
<1>3. handler[h] \in HandlerStates
  BY DEF DisputeInv, DisputeRowsOK, HandlerStates
<1> HIDE DEF row, n
<1>4. /\ dispute' \in [Disputes -> Row] /\ reviewed' \subseteq Disputes
      /\ dispute'[d] = row
      /\ row.status \in PastReview => d \in reviewed'
      /\ reviewed \subseteq reviewed'
      /\ \A e \in Disputes : Filed(e)' /\ ReviewKnown(e)'
      /\ \A e \in Disputes : dispute[e].status # "none" => dispute'[e].status # "none"
  BY <1>1, <1>2, RowSaved
<1>5. held \in HandlerStates /\ (held # Idle => held.op = "onchain" /\ held.id = d /\ held.copy = row)
  BY <1>2, <1>3 DEF HandlerStates, Idle, NoRow, Row, Statuses
<1> HIDE DEF held
<1>6. handler' \in [Handlers -> HandlerStates] /\ handler'[h] = held
      /\ \A g \in Handlers : g # h => handler'[g] = handler[g]
  BY <1>1, <1>5 DEF DisputeInv, DisputeRowsOK, HandlerStates
<1>7. isFrozen' \in [Splits -> BOOLEAN]
  <2>1. FreezeAfter(op, isFrozen[row.split]) \in BOOLEAN
    <3>1. isFrozen[row.split] \in BOOLEAN
      BY <1>2 DEF DisputeInv, DisputeRowsOK
    <3> QED
      BY <3>1, Zenon DEF FreezeAfter
  <2> QED
    BY <1>1, <1>2, <2>1 DEF DisputeInv, DisputeRowsOK
<1>8. performed' \in [Disputes -> Nat]
  BY <1>1, <1>2 DEF DisputeInv, DisputeRowsOK
<1>9. DisputeRowsOK'
  BY <1>4, <1>6, <1>7, <1>8 DEF DisputeRowsOK, HandlerStates
<1>10. ObjectLoaded(h)'
  <2>1. CASE held = Idle
    BY <1>6, <2>1 DEF ObjectLoaded, Idle, Operations
  <2>2. CASE held # Idle
    BY <1>2, <1>4, <1>5, <1>6, <2>2 DEF ObjectLoaded, Operations
  <2> QED
    BY <2>1, <2>2
<1>11. \A g \in Handlers : ObjectLoaded(g)'
  BY <1>4, <1>6, <1>10, OthersKeep
<1> QED
  BY <1>4, <1>9, <1>11 DEF DisputeInv

\* Handlers that go idle, or start to file.
LEMMA LetGo ==
    ASSUME DisputeInv, NEW h \in Handlers, NEW s \in Splits,
           NEW held \in {Idle, [Idle EXCEPT !.op = "file", !.split = s]},
           handler' = [handler EXCEPT ![h] = held],
           UNCHANGED <<dispute, isFrozen, performed, reviewed>>
    PROVE  DisputeInv'
<1>1. held \in HandlerStates /\ held.op \in {"idle", "file"} /\ (held.op = "file" => held.split = s)
  <2>1. Idle \in HandlerStates /\ Idle.op = "idle"
    BY DEF HandlerStates, Idle, NoRow, Row, Statuses
  <2> QED
    BY <2>1 DEF HandlerStates
<1>2. handler' \in [Handlers -> HandlerStates] /\ handler'[h] = held
      /\ \A g \in Handlers : g # h => handler'[g] = handler[g]
  BY <1>1 DEF DisputeInv, DisputeRowsOK, HandlerStates
<1>3. DisputeRowsOK'
  BY <1>2 DEF DisputeInv, DisputeRowsOK, HandlerStates
<1>4. ObjectLoaded(h)'
  BY <1>1, <1>2 DEF ObjectLoaded, Operations
<1>5. \A g \in Handlers : ObjectLoaded(g)'
  BY <1>2, <1>4, OthersKeep
<1>6. \A e \in Disputes : Filed(e)' /\ ReviewKnown(e)'
  BY DEF DisputeInv, Filed, ReviewKnown
<1> QED
  BY <1>3, <1>5, <1>6 DEF DisputeInv

LEMMA AbandonStep ==
    ASSUME DisputeInv, NEW h \in Handlers, Abandon(h)
    PROVE  DisputeInv'
<1>1. handler' \in [Handlers -> HandlerStates] /\ handler'[h] = Idle
      /\ \A g \in Handlers : g # h => handler'[g] = handler[g]
  <2>1. Idle \in HandlerStates
    BY DEF HandlerStates, Idle, NoRow, Row, Statuses
  <2> QED
    BY <2>1 DEF Abandon, DisputeInv, DisputeRowsOK, HandlerStates
<1>2. UNCHANGED <<dispute, isFrozen, performed, reviewed>>
  BY DEF Abandon
<1>3. DisputeRowsOK'
  BY <1>1, <1>2 DEF DisputeInv, DisputeRowsOK, HandlerStates
<1>4. ObjectLoaded(h)'
  BY <1>1 DEF ObjectLoaded, Operations, Idle
<1>5. \A g \in Handlers : ObjectLoaded(g)'
  BY <1>1, <1>2, <1>4, OthersKeep
<1>6. \A e \in Disputes : Filed(e)' /\ ReviewKnown(e)'
  BY <1>2 DEF DisputeInv, Filed, ReviewKnown
<1> QED
  BY <1>3, <1>5, <1>6 DEF DisputeInv

LEMMA FindActiveStep ==
    ASSUME DisputeInv, NEW h \in Handlers, NEW s \in Splits, FindActiveDispute(h, s)
    PROVE  DisputeInv'
BY LetGo DEF FindActiveDispute

LEMMA SaveHashStep ==
    ASSUME DisputeInv, NEW h \in Handlers, SaveTransactionHash(h)
    PROVE  DisputeInv'
<1> DEFINE d == handler[h].id
           row == handler[h].copy
<1>1. /\ handler[h].op = "onchain" /\ Save(d, row) /\ isFrozen' = isFrozen
      /\ handler' = [handler EXCEPT ![h] = Idle]
      /\ performed' = IF row.status = "open" THEN [performed EXCEPT ![d] = @ + 1] ELSE performed
  BY DEF SaveTransactionHash
<1>2. /\ row \in Row /\ d \in Disputes /\ row.status # "none" /\ row.split \in Splits
      /\ row.status \in PastReview => d \in reviewed
  BY <1>1 DEF DisputeInv, DisputeRowsOK, ObjectLoaded
<1> HIDE DEF row, d
<1>3. /\ dispute' \in [Disputes -> Row] /\ reviewed' \subseteq Disputes
      /\ reviewed \subseteq reviewed'
      /\ \A e \in Disputes : Filed(e)' /\ ReviewKnown(e)'
      /\ \A e \in Disputes : dispute[e].status # "none" => dispute'[e].status # "none"
  BY <1>1, <1>2, RowSaved
<1>4. Idle \in HandlerStates
  BY DEF HandlerStates, Idle, NoRow, Row, Statuses
<1>5. handler' \in [Handlers -> HandlerStates] /\ handler'[h] = Idle
      /\ \A g \in Handlers : g # h => handler'[g] = handler[g]
  BY <1>1, <1>4 DEF DisputeInv, DisputeRowsOK, HandlerStates
<1>6. performed' \in [Disputes -> Nat]
  BY <1>1, <1>2 DEF DisputeInv, DisputeRowsOK
<1>7. DisputeRowsOK'
  BY <1>1, <1>3, <1>5, <1>6 DEF DisputeInv, DisputeRowsOK, HandlerStates
<1>8. ObjectLoaded(h)'
  BY <1>5 DEF ObjectLoaded, Operations, Idle
<1>9. \A g \in Handlers : ObjectLoaded(g)'
  BY <1>3, <1>5, <1>8, OthersKeep
<1> QED
  BY <1>3, <1>7, <1>9 DEF DisputeInv

LEMMA DisputeStepInv == DisputeInv /\ [DisputesNext]_disputeVars => DisputeInv'
<1> SUFFICES ASSUME DisputeInv, [DisputesNext]_disputeVars PROVE DisputeInv'
  OBVIOUS
<1>1. ASSUME NEW h \in Handlers, NEW s \in Splits, FindActiveDispute(h, s) PROVE DisputeInv'
  BY <1>1, FindActiveStep
<1>2. ASSUME NEW h \in Handlers, NEW d \in Disputes, fileDispute(h, d) PROVE DisputeInv'
  BY <1>2, FileStep
<1>3. ASSUME NEW h \in Handlers, NEW d \in Disputes, NEW op \in Operations, Load(h, op, d)
      PROVE  DisputeInv'
  BY <1>3, LoadStep
<1>4. ASSUME NEW h \in Handlers, SaveAction(h) PROVE DisputeInv'
  BY <1>4, SaveActionStep
<1>5. ASSUME NEW h \in Handlers, SaveTransactionHash(h) PROVE DisputeInv'
  BY <1>5, SaveHashStep
<1>6. ASSUME NEW h \in Handlers, Abandon(h) PROVE DisputeInv'
  BY <1>6, AbandonStep
<1>7. CASE UNCHANGED disputeVars
  BY <1>7 DEF disputeVars, DisputeInv, DisputeRowsOK, Filed, ReviewKnown, ObjectLoaded, Allows,
     canTransition
<1> QED
  BY <1>1, <1>2, <1>3, <1>4, <1>5, <1>6, <1>7 DEF DisputesNext

\* Rows and the objects handlers hold of them, whatever handlers overtake each other
\* (the handlers of disputes.service.ts): the inductive invariant.
THEOREM DisputeInvariant == DisputesSpec => []DisputeInv
  BY DisputeInitInv, DisputeStepInv, PTL DEF DisputesSpec

\* SettledWasReviewed for any number of disputes and handlers: no stale object that is
\* saved takes a dispute past a review it never had.
THEOREM ReviewsPrecede == DisputesSpec => []SettledWasReviewed
<1>1. DisputeInv => SettledWasReviewed
  BY DEF DisputeInv, ReviewKnown, SettledWasReviewed, PastReview
<1> QED
  BY <1>1, DisputeInvariant, PTL

\* What a step does to the freezes.
FreezeMoves ==
    \A s \in Splits :
        /\ isFrozen[s] /\ ~isFrozen'[s] =>
             \E d \in Disputes : /\ dispute'[d].split = s /\ dispute'[d].status \in Settled
                                 /\ ~dispute'[d].splitFrozen
        /\ ~isFrozen[s] /\ isFrozen'[s] =>
             \E d \in Disputes : /\ dispute'[d].split = s /\ dispute'[d].splitFrozen
                                 /\ dispute'[d].status \in {"open", "appealed"}
        /\ \A d \in Disputes :
             dispute[d].status = "none" /\ dispute'[d].split = s => isFrozen'[s]

LEMMA UnfiledStays ==
    ASSUME DisputeInv, isFrozen' = isFrozen,
           \A e \in Disputes : dispute[e].status = "none" => dispute'[e] = dispute[e]
    PROVE  FreezeMoves
<1>1. \A e \in Disputes, s \in Splits : dispute[e].status = "none" => dispute'[e].split # s
  BY DisputeConstants DEF DisputeInv, Filed, NoRow
<1> QED
  BY <1>1 DEF FreezeMoves

LEMMA FilingMoves ==
    ASSUME DisputeInv, NEW h \in Handlers, NEW d \in Disputes, fileDispute(h, d)
    PROVE  FreezeMoves
<1> DEFINE t == handler[h].split
           row == [status |-> "open", split |-> t, splitFrozen |-> TRUE, trail |-> 1]
<1>1. t \in Splits
  BY DEF DisputeInv, ObjectLoaded, fileDispute
<1>2. /\ isFrozen' \in [Splits -> BOOLEAN] /\ isFrozen'[t] = TRUE
      /\ \A s \in Splits : s # t => isFrozen'[s] = isFrozen[s]
      /\ dispute'[d] = row /\ \A e \in Disputes : e # d => dispute'[e] = dispute[e]
  BY <1>1 DEF fileDispute, Save, FilingFreezes, DisputeInv, DisputeRowsOK
<1>3. row.split = t /\ row.status = "open" /\ row.splitFrozen = TRUE
  OBVIOUS
<1>4. \A e \in Disputes, s \in Splits :
        dispute[e].status = "none" /\ e # d => dispute'[e].split # s
  BY <1>2, DisputeConstants DEF DisputeInv, Filed, NoRow
<1> HIDE DEF row
<1> QED
  BY <1>1, <1>2, <1>3, <1>4 DEF FreezeMoves

LEMMA ActionMoves ==
    ASSUME DisputeInv, NEW h \in Handlers, SaveAction(h)
    PROVE  FreezeMoves
<1> DEFINE op == handler[h].op
           d == handler[h].id
           row == Updated(op, handler[h].copy)
           t == row.split
<1>1. /\ op \in Operations /\ d \in Disputes /\ t \in Splits /\ dispute[d].status # "none"
      /\ row.status = NewStatus(op, handler[h].copy.status)
      /\ row.splitFrozen = FreezeAfter(op, handler[h].copy.splitFrozen)
  BY LoadedFacts DEF SaveAction
<1>2. /\ dispute'[d] = row /\ \A e \in Disputes : e # d => dispute'[e] = dispute[e]
      /\ isFrozen'[t] = FreezeAfter(op, isFrozen[t])
      /\ \A s \in Splits : s # t => isFrozen'[s] = isFrozen[s]
  BY <1>1 DEF SaveAction, Save, DisputeInv, DisputeRowsOK
<1>3. \A e \in Disputes, s \in Splits : dispute[e].status = "none" => dispute'[e].split # s
  BY <1>1, <1>2, DisputeConstants DEF DisputeInv, Filed, NoRow
<1> HIDE DEF row
<1>4. CASE op \in {"resolve", "reject"}
  <2>1. ~isFrozen'[t] /\ ~row.splitFrozen /\ row.status \in Settled
    BY <1>1, <1>2, <1>4 DEF FreezeAfter, NewStatus, Target, Settled
  <2> QED
    BY <1>1, <1>2, <1>3, <2>1 DEF FreezeMoves
<1>5. CASE op = "appeal"
  <2>1. isFrozen'[t] /\ row.splitFrozen /\ row.status = "appealed"
    BY <1>1, <1>2, <1>5 DEF FreezeAfter, NewStatus, Target
  <2> QED
    BY <1>1, <1>2, <1>3, <2>1 DEF FreezeMoves
<1>6. CASE op \notin {"resolve", "reject", "appeal"}
  <2>1. isFrozen'[t] = isFrozen[t]
    BY <1>2, <1>6 DEF FreezeAfter
  <2> QED
    BY <1>1, <1>2, <1>3, <2>1 DEF FreezeMoves
<1> QED
  BY <1>4, <1>5, <1>6

\* FreezeMovesWithDispute for any number of disputes, splits and handlers: a split is
\* frozen and unfrozen only together with a dispute that says so, and a dispute comes
\* into being only on a split that is then frozen.
THEOREM FreezesMoveWithDisputes == DisputesSpec => FreezeMovesWithDispute
<1>1. DisputeInv /\ [DisputesNext]_disputeVars => [FreezeMoves]_disputeVars
  <2> SUFFICES ASSUME DisputeInv, DisputesNext PROVE FreezeMoves
    OBVIOUS
  <2>1. ASSUME NEW h \in Handlers, NEW d \in Disputes, fileDispute(h, d) PROVE FreezeMoves
    BY <2>1, FilingMoves
  <2>2. ASSUME NEW h \in Handlers, SaveAction(h) PROVE FreezeMoves
    BY <2>2, ActionMoves
  <2>3. ASSUME NEW h \in Handlers, SaveTransactionHash(h) PROVE FreezeMoves
    <3>1. handler[h].op = "onchain" /\ handler[h].id \in Disputes /\ dispute[handler[h].id].status # "none"
      BY <2>3 DEF SaveTransactionHash, DisputeInv, ObjectLoaded
    <3> QED
      BY <2>3, <3>1, UnfiledStays DEF SaveTransactionHash, Save, DisputeInv, DisputeRowsOK
  <2>4. ASSUME NEW h \in Handlers,
               \/ \E s \in Splits : FindActiveDispute(h, s)
               \/ \E d \in Disputes, op \in Operations : Load(h, op, d)
               \/ Abandon(h)
        PROVE  FreezeMoves
    <3>1. dispute' = dispute /\ isFrozen' = isFrozen
      BY <2>4 DEF FindActiveDispute, Load, Abandon
    <3> QED
      BY <3>1, UnfiledStays
  <2> QED
    BY <2>1, <2>2, <2>3, <2>4 DEF DisputesNext
<1> QED
  BY <1>1, DisputeInvariant, PTL DEF DisputesSpec, FreezeMovesWithDispute, FreezeMoves

-----------------------------------------------------------------------------
(* The idempotency interceptor *)

\* Whose answer a call has, where those who ran or came late are, and that only an
\* answer leaves a write behind.
Replays(c) ==
    /\ call[c].at \in {"new", "outer", "inner", "handler"} => call[c].from = c
    /\ call[c].at = "answered" => call[c].from \in ran /\ call[call[c].from].payload = call[c].payload
    /\ c \in ran => call[c].at = "answered"
    /\ c \in late => record # NoRecord /\ call[c].at \notin {"new", "handler"} /\ c \notin ran
    /\ \A l \in Layers : writer[<<c, l>>] # "none" => call[c].at = "answered"

RecordPlayed == record # NoRecord => record.by \in ran /\ call[record.by].payload = record.payload

ReplayInv ==
    /\ IdempotencyTypeOK
    /\ \A c \in Clients : Replays(c)
    /\ RecordPlayed

CallStates == [at : {"new", "outer", "inner", "handler", "answered", "refused", "failed", "lost"},
               payload : Payloads, from : Clients]
WriterStates == {"none", "look", "insert", "update"}

LEMMA ReplayInitInv == IdempotencyInit => ReplayInv
<1> SUFFICES ASSUME IdempotencyInit PROVE ReplayInv
  OBVIOUS
<1>1. /\ call \in [Clients -> CallStates]
      /\ \A c \in Clients : call[c].at = "new" /\ call[c].from = c
  BY DEF IdempotencyInit, CallStates
<1>2. writer \in [Clients \X Layers -> WriterStates]
      /\ \A c \in Clients, l \in Layers : writer[<<c, l>>] = "none"
  BY DEF IdempotencyInit, WriterStates, Layers
<1>3. nested \in BOOLEAN /\ record = NoRecord /\ ran = {} /\ late = {}
  BY DEF IdempotencyInit
<1>4. IdempotencyTypeOK
  BY <1>1, <1>2, <1>3 DEF IdempotencyTypeOK, CallStates, WriterStates
<1> QED
  BY <1>1, <1>2, <1>3, <1>4 DEF ReplayInv, Replays, RecordPlayed

\* One call moves on: nobody's payload changes, answers stay answers, and nothing that
\* ran or is stored is forgotten.
LEMMA CallMoves ==
    ASSUME ReplayInv, NEW c \in Clients, NEW t \in CallStates,
           call' = [call EXCEPT ![c] = t], t.payload = call[c].payload,
           nested' = nested, record' = record,
           ran' \subseteq Clients, ran \subseteq ran', ran' \subseteq ran \cup {c},
           late' \subseteq Clients, late' \subseteq late \cup {c},
           writer' \in [Clients \X Layers -> WriterStates],
           \A b \in Clients, l \in Layers : b # c => writer'[<<b, l>>] = writer[<<b, l>>],
           call[c].at # "answered",
           t.at \in {"new", "outer", "inner", "handler"} => t.from = c,
           t.at = "answered" => t.from \in ran' /\ call[t.from].payload = t.payload,
           c \in ran' => t.at = "answered",
           c \in late' => record # NoRecord /\ t.at \notin {"new", "handler"} /\ c \notin ran',
           \A l \in Layers : writer'[<<c, l>>] # "none" => t.at = "answered"
    PROVE  ReplayInv'
<1>1. /\ call \in [Clients -> CallStates] /\ call' \in [Clients -> CallStates] /\ call'[c] = t
      /\ \A b \in Clients : b # c => call'[b] = call[b]
      /\ \A b \in Clients : call'[b].payload = call[b].payload
  BY DEF ReplayInv, IdempotencyTypeOK, CallStates
<1>2. IdempotencyTypeOK'
  BY <1>1 DEF ReplayInv, IdempotencyTypeOK, CallStates, WriterStates
<1>3. Replays(c)'
  <2>1. t.at = "answered" => call'[t.from].payload = t.payload
    BY <1>1 DEF ReplayInv, IdempotencyTypeOK, CallStates
  <2> QED
    BY <1>1, <2>1 DEF Replays
<1>4. ASSUME NEW b \in Clients, b # c PROVE Replays(b)'
  <2>1. Replays(b) /\ call'[b] = call[b] /\ call[b].from \in Clients
    BY <1>1, <1>4 DEF ReplayInv, CallStates
  <2>2. (b \in ran' => b \in ran) /\ (b \in late' => b \in late)
    BY <1>4
  <2> QED
    BY <1>1, <1>4, <2>1, <2>2 DEF Replays
<1>5. RecordPlayed'
  <2>1. record # NoRecord => record.by \in Clients
    BY DEF ReplayInv, IdempotencyTypeOK, Record
  <2> QED
    BY <1>1, <2>1 DEF ReplayInv, RecordPlayed
<1> QED
  BY <1>2, <1>3, <1>4, <1>5 DEF ReplayInv

\* A call at work, and what it is known to have.
LEMMA CallFacts ==
    ASSUME ReplayInv, NEW c \in Clients
    PROVE  /\ call[c] \in CallStates /\ call \in [Clients -> CallStates]
           /\ writer \in [Clients \X Layers -> WriterStates]
           /\ ran \subseteq Clients /\ late \subseteq Clients
           /\ record # NoRecord => /\ record \in Record /\ record.by \in ran /\ record.by \in Clients
                                   /\ call[record.by].payload = record.payload
           /\ Replays(c)
BY DEF ReplayInv, RecordPlayed, IdempotencyTypeOK, CallStates, WriterStates, Record

LEMMA ArriveStep ==
    ASSUME ReplayInv, NEW c \in Clients, Arrive(c)
    PROVE  ReplayInv'
<1> DEFINE place == IF nested THEN "outer" ELSE "inner"
           t == [call[c] EXCEPT !.at = place]
<1>1. /\ call[c] \in CallStates /\ writer \in [Clients \X Layers -> WriterStates]
      /\ ran \subseteq Clients /\ late \subseteq Clients /\ Replays(c)
      /\ call \in [Clients -> CallStates]
  BY CallFacts
<1>2. /\ call[c].at = "new" /\ call' = [call EXCEPT ![c].at = place]
      /\ late' = IF record = NoRecord THEN late ELSE late \cup {c}
      /\ UNCHANGED <<nested, record, writer, ran, stops>>
  BY DEF Arrive, GoesTo
<1>3. place \in {"outer", "inner"}
  OBVIOUS
<1> HIDE DEF place
<1>4. t \in CallStates /\ t.payload = call[c].payload /\ t.from = c /\ t.at = place
  BY <1>1, <1>2, <1>3 DEF CallStates, Replays
<1>5. call' = [call EXCEPT ![c] = t]
  BY <1>1, <1>2
<1> HIDE DEF t
<1>6. c \notin ran /\ c \notin late /\ \A l \in Layers : writer[<<c, l>>] = "none"
  BY <1>1, <1>2 DEF Replays
<1>7. /\ nested' = nested /\ record' = record /\ ran' = ran /\ writer' = writer
      /\ late' \subseteq Clients /\ late' \subseteq late \cup {c}
      /\ c \in late' => record # NoRecord
      /\ t.at \notin {"new", "handler", "answered"} /\ call[c].at # "answered"
  BY <1>1, <1>2, <1>3, <1>4, <1>6
<1> QED
  BY <1>1, <1>4, <1>5, <1>6, <1>7, CallMoves

LEMMA InterceptStep ==
    ASSUME ReplayInv, NEW c \in Clients, intercept(c)
    PROVE  ReplayInv'
<1>1. /\ call[c] \in CallStates /\ writer \in [Clients \X Layers -> WriterStates]
      /\ ran \subseteq Clients /\ late \subseteq Clients /\ Replays(c)
      /\ call \in [Clients -> CallStates] /\ call[c].at \in Layers
      /\ UNCHANGED <<nested, record, ran, late, stops>>
  BY CallFacts DEF intercept
<1>2. /\ c \notin ran /\ (c \in late => record # NoRecord)
      /\ \A l \in Layers : writer[<<c, l>>] = "none"
      /\ call[c].at \in {"outer", "inner"} /\ call[c].at # "answered" /\ call[c].from = c
  BY <1>1 DEF Replays, Layers
<1>3. CASE record = NoRecord
  <2> DEFINE place == IF call[c].at = "outer" THEN "inner" ELSE "handler"
             t == [call[c] EXCEPT !.at = place]
  <2>1. call' = [call EXCEPT ![c].at = place] /\ writer' = writer
    BY <1>3 DEF intercept, GoesTo
  <2>2. place \in {"inner", "handler"}
    OBVIOUS
  <2> HIDE DEF place
  <2>3. t \in CallStates /\ t.payload = call[c].payload /\ t.from = c /\ t.at = place
    BY <1>1, <1>2, <2>2 DEF CallStates
  <2>4. call' = [call EXCEPT ![c] = t]
    BY <1>1, <2>1
  <2> HIDE DEF t
  <2>5. c \notin late /\ t.at # "answered" /\ nested' = nested /\ record' = record
        /\ ran' = ran /\ late' = late
    BY <1>1, <1>2, <1>3, <2>2, <2>3
  <2>6. /\ writer' \in [Clients \X Layers -> WriterStates]
        /\ \A b \in Clients, l \in Layers : b # c => writer'[<<b, l>>] = writer[<<b, l>>]
        /\ \A l \in Layers : writer'[<<c, l>>] # "none" => t.at = "answered"
    BY <1>1, <1>2, <2>1
  <2>7. /\ ran' \subseteq Clients /\ late' \subseteq Clients /\ call[c].at # "answered"
        /\ c \notin ran' /\ c \notin late' /\ ran \subseteq ran' /\ ran' \subseteq ran \cup {c}
        /\ late' \subseteq late \cup {c}
    BY <1>1, <1>2, <2>5
  <2> QED
    BY <2>3, <2>4, <2>5, <2>6, <2>7, CallMoves
<1>4. CASE record # NoRecord
  <2> DEFINE same == record.payload = call[c].payload
             place == IF same THEN "answered" ELSE "refused"
             whose == IF same THEN record.by ELSE call[c].from
             t == [call[c] EXCEPT !.at = place, !.from = whose]
  <2>1. /\ call' = [call EXCEPT ![c].at = place, ![c].from = whose]
        /\ writer' = IF nested /\ call[c].at = "inner" /\ same
                     THEN [writer EXCEPT ![<<c, "outer">>] = "look"] ELSE writer
    BY <1>1, <1>4 DEF intercept, SamePayload
  <2>2. /\ record.by \in ran /\ record.by \in Clients /\ call[record.by].payload = record.payload
    BY <1>4, CallFacts
  <2>3. place \in {"answered", "refused"} /\ (place = "answered" <=> same)
        /\ whose \in Clients /\ (same => whose = record.by)
    BY <1>2, <2>2
  <2>4. /\ writer' \in [Clients \X Layers -> WriterStates]
        /\ \A b \in Clients, l \in Layers : b # c => writer'[<<b, l>>] = writer[<<b, l>>]
        /\ ~same => writer' = writer
    BY <1>1, <2>1 DEF WriterStates, Layers
  <2> HIDE DEF place, whose
  <2>5. t \in CallStates /\ t.payload = call[c].payload /\ t.from = whose /\ t.at = place
    BY <1>1, <2>3 DEF CallStates
  <2>6. call' = [call EXCEPT ![c] = t]
    BY <1>1, <2>1
  <2> HIDE DEF t, same
  <2>7. t.at = "answered" => t.from \in ran /\ call[t.from].payload = t.payload
    BY <2>2, <2>3, <2>5 DEF same
  <2>8. \A l \in Layers : writer'[<<c, l>>] # "none" => t.at = "answered"
    BY <1>2, <2>3, <2>4, <2>5
  <2>9. /\ t.at \notin {"new", "outer", "inner", "handler"}
        /\ nested' = nested /\ record' = record /\ ran' = ran /\ late' = late
    BY <1>1, <2>3, <2>5
  <2> QED
    BY <1>1, <1>2, <1>4, <2>4, <2>5, <2>6, <2>7, <2>8, <2>9, CallMoves
<1> QED
  BY <1>3, <1>4

LEMMA HandleStep ==
    ASSUME ReplayInv, NEW c \in Clients, Handle(c)
    PROVE  ReplayInv'
<1>1. /\ call[c] \in CallStates /\ writer \in [Clients \X Layers -> WriterStates]
      /\ ran \subseteq Clients /\ late \subseteq Clients /\ Replays(c)
      /\ call \in [Clients -> CallStates] /\ call[c].at = "handler"
      /\ UNCHANGED <<nested, record, late, stops>>
  BY CallFacts DEF Handle
<1>2. /\ c \notin ran /\ c \notin late /\ call[c].from = c
      /\ \A l \in Layers : writer[<<c, l>>] = "none"
  BY <1>1 DEF Replays
<1>3. CASE GoesTo(c, "answered") /\ ran' = ran \cup {c}
           /\ writer' = [w \in DOMAIN writer |->
                IF w = <<c, "inner">> \/ (nested /\ w = <<c, "outer">>) THEN "look" ELSE writer[w]]
  <2> DEFINE t == [call[c] EXCEPT !.at = "answered"]
  <2>1. t \in CallStates /\ t.payload = call[c].payload /\ t.from = c /\ t.at = "answered"
    BY <1>1, <1>2 DEF CallStates
  <2>2. call' = [call EXCEPT ![c] = t]
    BY <1>1, <1>3 DEF GoesTo
  <2>3. writer' \in [Clients \X Layers -> WriterStates]
    BY <1>1, <1>3 DEF WriterStates
  <2>4. \A b \in Clients, l \in Layers : b # c => writer'[<<b, l>>] = writer[<<b, l>>]
    BY <1>1, <1>3
  <2> HIDE DEF t
  <2>5. call[t.from].payload = t.payload /\ t.from \in ran' /\ ran' \subseteq Clients
        /\ ran \subseteq ran' /\ ran' \subseteq ran \cup {c}
    BY <1>1, <1>3, <2>1
  <2> QED
    BY <1>1, <1>2, <2>1, <2>2, <2>3, <2>4, <2>5, CallMoves
<1>4. CASE GoesTo(c, "failed") /\ UNCHANGED <<ran, writer>>
  <2> DEFINE t == [call[c] EXCEPT !.at = "failed"]
  <2>1. t \in CallStates /\ t.payload = call[c].payload /\ t.from = c /\ t.at = "failed"
    BY <1>1, <1>2 DEF CallStates
  <2>2. call' = [call EXCEPT ![c] = t]
    BY <1>1, <1>4 DEF GoesTo
  <2> HIDE DEF t
  <2> QED
    BY <1>1, <1>2, <1>4, <2>1, <2>2, CallMoves
<1> QED
  BY <1>3, <1>4 DEF Handle

\* The writes: only a layer of an answered call has one.
LEMMA WriterSteps ==
    ASSUME ReplayInv, call' = call, ran' = ran, late' = late, nested' = nested,
           writer' \in [Clients \X Layers -> WriterStates],
           \A w \in Clients \X Layers : writer'[w] # "none" => writer[w] # "none",
           record' \in Record \cup {NoRecord}, record # NoRecord => record' # NoRecord,
           RecordPlayed'
    PROVE  ReplayInv'
<1>1. IdempotencyTypeOK'
  BY DEF ReplayInv, IdempotencyTypeOK, WriterStates
<1>2. ASSUME NEW c \in Clients PROVE Replays(c)'
  BY DEF ReplayInv, Replays
<1> QED
  BY <1>1, <1>2 DEF ReplayInv

LEMMA FindRecordStep ==
    ASSUME ReplayInv, NEW w \in Clients \X Layers, FindRecord(w)
    PROVE  ReplayInv'
<1>1. writer \in [Clients \X Layers -> WriterStates] /\ record \in Record \cup {NoRecord}
  BY DEF ReplayInv, IdempotencyTypeOK, WriterStates
<1>2. writer' \in [Clients \X Layers -> WriterStates]
      /\ \A v \in Clients \X Layers : writer'[v] # "none" => writer[v] # "none"
  BY <1>1 DEF FindRecord, WriterStates
<1>3. UNCHANGED <<nested, record, call, ran, late>>
  BY DEF FindRecord
<1>4. RecordPlayed'
  BY <1>3 DEF ReplayInv, RecordPlayed
<1> QED
  BY <1>1, <1>2, <1>3, <1>4, WriterSteps

LEMMA CreateRecordStep ==
    ASSUME ReplayInv, NEW w \in Clients \X Layers, createRecord(w)
    PROVE  ReplayInv'
<1> DEFINE c == w[1]
<1>1. writer \in [Clients \X Layers -> WriterStates] /\ call \in [Clients -> CallStates]
  BY DEF ReplayInv, IdempotencyTypeOK, WriterStates, CallStates
<1>2. c \in Clients /\ w[2] \in Layers /\ w = <<c, w[2]>>
  OBVIOUS
<1>3. writer[<<c, w[2]>>] # "none"
  BY <1>2 DEF createRecord
<1>4. call[c].at = "answered" /\ call[c].from \in ran /\ call[call[c].from].payload = call[c].payload
  BY <1>2, <1>3 DEF ReplayInv, Replays
<1>5. call[c].payload \in Payloads /\ call[c].from \in Clients
  BY <1>1, <1>2 DEF CallStates
<1>6. /\ record' = [payload |-> call[c].payload, by |-> call[c].from]
      /\ writer' = [writer EXCEPT ![w] = "none"]
      /\ UNCHANGED <<nested, call, ran, late, stops>>
  BY DEF createRecord, Answered
<1>7. record' \in Record /\ record'.by = call[c].from /\ record'.payload = call[c].payload
  BY <1>5, <1>6 DEF Record
<1>8. record' # NoRecord
  BY <1>7, NoRecordIsNoRow
<1>9. RecordPlayed'
  BY <1>4, <1>6, <1>7 DEF RecordPlayed
<1>10. writer' \in [Clients \X Layers -> WriterStates]
       /\ \A v \in Clients \X Layers : writer'[v] # "none" => writer[v] # "none"
  BY <1>1, <1>6 DEF WriterStates
<1> QED
  BY <1>6, <1>7, <1>8, <1>9, <1>10, WriterSteps

LEMMA StoppedStep ==
    ASSUME ReplayInv, Stopped, UNCHANGED <<nested, record, ran, late>>
    PROVE  ReplayInv'
<1>1. /\ call \in [Clients -> CallStates] /\ writer \in [Clients \X Layers -> WriterStates]
  BY DEF ReplayInv, IdempotencyTypeOK, CallStates, WriterStates
<1>2. call' \in [Clients -> CallStates] /\ writer' \in [Clients \X Layers -> WriterStates]
      /\ \A w \in Clients \X Layers : writer'[w] = "none"
  BY <1>1 DEF Stopped, CallStates, WriterStates
<1>3. \A c \in Clients : /\ call'[c].payload = call[c].payload /\ call'[c].from = call[c].from
                         /\ call'[c].at = call[c].at \/ (call'[c].at = "lost" /\ call[c].at # "answered")
  BY <1>1 DEF Stopped, CallStates, Layers
<1>4. IdempotencyTypeOK'
  BY <1>2 DEF ReplayInv, IdempotencyTypeOK, CallStates, WriterStates
<1>5. ASSUME NEW c \in Clients PROVE Replays(c)'
  <2>1. Replays(c) /\ call[c].from \in Clients
    BY <1>1 DEF ReplayInv, CallStates
  <2> QED
    BY <1>2, <1>3, <2>1 DEF Replays
<1>6. RecordPlayed'
  BY <1>3 DEF ReplayInv, RecordPlayed, IdempotencyTypeOK, Record
<1> QED
  BY <1>4, <1>5, <1>6 DEF ReplayInv

LEMMA InsertRejectedStep ==
    ASSUME ReplayInv, NEW w \in Clients \X Layers, InsertRejected(w)
    PROVE  ReplayInv'
<1>1. CASE Stopped
  BY <1>1, StoppedStep DEF InsertRejected
<1>2. CASE writer' = [writer EXCEPT ![w] = "none"] /\ UNCHANGED call
  <2>1. writer \in [Clients \X Layers -> WriterStates] /\ record \in Record \cup {NoRecord}
    BY DEF ReplayInv, IdempotencyTypeOK, WriterStates
  <2>2. writer' \in [Clients \X Layers -> WriterStates]
        /\ \A v \in Clients \X Layers : writer'[v] # "none" => writer[v] # "none"
    BY <1>2, <2>1 DEF WriterStates
  <2>3. UNCHANGED <<nested, record, ran, late>>
    BY DEF InsertRejected
  <2>4. RecordPlayed'
    BY <1>2, <2>3 DEF ReplayInv, RecordPlayed
  <2> QED
    BY <1>2, <2>1, <2>2, <2>3, <2>4, WriterSteps
<1> QED
  BY <1>1, <1>2 DEF InsertRejected

LEMMA ReplayStepInv == ReplayInv /\ [IdempotencyNext]_idempotencyVars => ReplayInv'
<1> SUFFICES ASSUME ReplayInv, [IdempotencyNext]_idempotencyVars PROVE ReplayInv'
  OBVIOUS
<1>1. ASSUME NEW c \in Clients, Arrive(c) PROVE ReplayInv'
  BY <1>1, ArriveStep
<1>2. ASSUME NEW c \in Clients, intercept(c) PROVE ReplayInv'
  BY <1>2, InterceptStep
<1>3. ASSUME NEW c \in Clients, Handle(c) PROVE ReplayInv'
  BY <1>3, HandleStep
<1>4. ASSUME NEW w \in Clients \X Layers, FindRecord(w) PROVE ReplayInv'
  BY <1>4, FindRecordStep
<1>5. ASSUME NEW w \in Clients \X Layers, createRecord(w) PROVE ReplayInv'
  BY <1>5, CreateRecordStep
<1>6. ASSUME NEW w \in Clients \X Layers, InsertRejected(w) PROVE ReplayInv'
  BY <1>6, InsertRejectedStep
<1>7. CASE Stop
  BY <1>7, StoppedStep DEF Stop
<1>8. CASE UNCHANGED idempotencyVars
  BY <1>8 DEF idempotencyVars, ReplayInv, IdempotencyTypeOK, Replays, RecordPlayed
<1> QED
  BY <1>1, <1>2, <1>3, <1>4, <1>5, <1>6, <1>7, <1>8 DEF IdempotencyNext

\* AnswersAreReplayed for any number of requests with the key and any number of crashes.
THEOREM KeysReplayAnswers == IdempotencySpec => []AnswersAreReplayed
<1>1. ReplayInv => AnswersAreReplayed
  <2> SUFFICES ASSUME ReplayInv PROVE AnswersAreReplayed
    OBVIOUS
  <2>1. ran \cap late = {}
    <3> SUFFICES ASSUME NEW c \in ran, c \in late PROVE FALSE
      OBVIOUS
    <3>1. c \in Clients
      BY DEF ReplayInv, IdempotencyTypeOK
    <3> QED
      BY <3>1 DEF ReplayInv, Replays
  <2>2. \A c \in Clients : call[c].at = "answered" =>
          call[c].from \in ran /\ call[call[c].from].payload = call[c].payload
    BY DEF ReplayInv, Replays
  <2> QED
    BY <2>1, <2>2 DEF ReplayInv, RecordPlayed, AnswersAreReplayed
<1> QED
  BY <1>1, ReplayInitInv, ReplayStepInv, PTL DEF IdempotencySpec

-----------------------------------------------------------------------------
(* Short links *)

\* The requests that counted an access and have not logged it.
Logging == {v \in Visits : step[v].at = "log"}

\* What a request may go on with.
ReadInTime(v) ==
    /\ step[v].at = "count" => step[v].read.there /\ step[v].read.count < MaxAccesses
    /\ step[v].at = "generate" => step[v].counted < LinkLimit

\* The redirects that the link may yet undercount: all it allows once it is gone.
Counted == IF link.there THEN link.count ELSE MaxAccesses

AccessesBounded == served + Cardinality(Logging) <= MaxAccesses * races + Counted
LinksBounded    == NumLinks <= LinkLimit + races
LogsExact ==
    /\ logs <= served
    /\ races = 0 /\ drops = 0 /\ link.there => link.count = logs + Cardinality(Logging)

CountsOK == served \in Nat /\ races \in Nat /\ drops \in Nat /\ IsFiniteSet(Logging)

LinkInv ==
    /\ LinkTypeOK /\ CountsOK
    /\ \A v \in Visits : ReadInTime(v)
    /\ AccessesBounded /\ LinksBounded /\ LogsExact

StepStates == [at : {"new", "count", "log", "delete", "generate", "done"},
               read : Link, counted : Nat]

LEMMA LinkFacts ==
    ASSUME LinkInv
    PROVE  /\ MaxAccesses \in Nat /\ MaxAccesses > 0 /\ LinkLimit \in Nat /\ LinkLimit > 0
           /\ link.there \in BOOLEAN /\ link.count \in Nat /\ link.count <= MaxAccesses
           /\ link \in Link /\ others \in Nat /\ logs \in Nat /\ ended \in BOOLEAN
           /\ step \in [Visits -> StepStates]
           /\ served \in Nat /\ races \in Nat /\ drops \in Nat
           /\ IsFiniteSet(Logging) /\ Cardinality(Logging) \in Nat
           /\ Counted \in Nat /\ Counted <= MaxAccesses
           /\ NumLinks \in Nat
           /\ MaxAccesses * races \in Nat /\ MaxAccesses * (races + 1) = MaxAccesses * races + MaxAccesses
<1>1. MaxAccesses \in Nat /\ MaxAccesses > 0 /\ LinkLimit \in Nat /\ LinkLimit > 0
  BY ShortLinkConstants
<1>2. link \in Link /\ others \in Nat /\ logs \in Nat /\ ended \in BOOLEAN
      /\ step \in [Visits -> StepStates]
  BY DEF LinkInv, LinkTypeOK, StepStates
<1>3. link.there \in BOOLEAN /\ link.count \in Nat /\ link.count <= MaxAccesses
  BY <1>1, <1>2 DEF Link
<1>4. served \in Nat /\ races \in Nat /\ drops \in Nat /\ IsFiniteSet(Logging)
  BY DEF LinkInv, CountsOK
<1>5. Cardinality(Logging) \in Nat
  BY <1>4, FS_CardinalityType
<1>6. Counted \in Nat /\ Counted <= MaxAccesses /\ NumLinks \in Nat
  BY <1>1, <1>2, <1>3 DEF Counted, NumLinks
<1> QED
  BY <1>1, <1>2, <1>3, <1>4, <1>5, <1>6, OneRoundMore

LEMMA LinkInitInv == LinkInit => LinkInv
<1> SUFFICES ASSUME LinkInit PROVE LinkInv
  OBVIOUS
<1>1. MaxAccesses \in Nat /\ LinkLimit \in Nat /\ LinkLimit > 0
  BY ShortLinkConstants
<1>2. Unread \in Link /\ Unread.there /\ Unread.count = 0
  BY <1>1 DEF Unread, Link
<1>3. step \in [Visits -> StepStates] /\ \A v \in Visits : step[v].at = "new"
  BY <1>2 DEF LinkInit, StepStates
<1>4. LinkTypeOK
  <2>1. others \in Nat /\ link = Unread /\ logs = 0 /\ ended = FALSE
    BY <1>1 DEF LinkInit
  <2> QED
    BY <1>2, <1>3, <2>1 DEF LinkTypeOK, StepStates
<1>5. IsFiniteSet(Logging) /\ Cardinality(Logging) = 0
  <2>1. Logging = {}
    BY <1>3 DEF Logging
  <2> QED
    BY <2>1, FS_EmptySet
<1>6. CountsOK /\ races = 0 /\ served = 0 /\ logs = 0
  BY <1>5 DEF LinkInit, CountsOK
<1>7. AccessesBounded
  BY <1>1, <1>2, <1>5, <1>6, OneRoundMore DEF LinkInit, AccessesBounded, Counted
<1>8. LinksBounded
  BY <1>1, <1>2, <1>6 DEF LinkInit, LinksBounded, NumLinks
<1>9. LogsExact
  BY <1>2, <1>5, <1>6 DEF LinkInit, LogsExact
<1>10. \A v \in Visits : ReadInTime(v)
  BY <1>3 DEF ReadInTime
<1> QED
  BY <1>4, <1>6, <1>7, <1>8, <1>9, <1>10 DEF LinkInv

\* One request moves on to t.
LEMMA RequestMoves ==
    ASSUME LinkInv, NEW v \in Visits, NEW t \in StepStates, step' = [step EXCEPT ![v] = t],
           t.at = "count" => t.read.there /\ t.read.count < MaxAccesses,
           t.at = "generate" => t.counted < LinkLimit
    PROVE  /\ step' \in [Visits -> StepStates]
           /\ \A w \in Visits : ReadInTime(w)'
           /\ Logging' = IF t.at = "log" THEN Logging \cup {v} ELSE Logging \ {v}
           /\ v \in Logging <=> step[v].at = "log"
<1>1. step \in [Visits -> StepStates]
  BY LinkFacts
<1>2. step' \in [Visits -> StepStates] /\ step'[v] = t
      /\ \A w \in Visits : w # v => step'[w] = step[w]
  BY <1>1
<1>3. \A w \in Visits : ReadInTime(w)'
  BY <1>2 DEF LinkInv, ReadInTime
<1>4. Logging' = IF t.at = "log" THEN Logging \cup {v} ELSE Logging \ {v}
  BY <1>2 DEF Logging
<1> QED
  BY <1>2, <1>3, <1>4 DEF Logging

\* Steps of a request that neither begin nor end a log entry and leave the link alone.
LEMMA QuietMove ==
    ASSUME LinkInv, NEW v \in Visits, NEW t \in StepStates, step' = [step EXCEPT ![v] = t],
           t.at = "count" => t.read.there /\ t.read.count < MaxAccesses,
           t.at = "generate" => t.counted < LinkLimit,
           step[v].at # "log", t.at # "log",
           UNCHANGED <<link, others, logs, served, races>>, ended' \in BOOLEAN,
           drops' \in Nat, drops' >= drops
    PROVE  LinkInv'
<1>1. step' \in [Visits -> StepStates] /\ \A w \in Visits : ReadInTime(w)'
      /\ Logging' = Logging
  BY RequestMoves
<1>2. LinkTypeOK'
  BY <1>1 DEF LinkInv, LinkTypeOK, StepStates
<1>3. CountsOK'
  BY <1>1 DEF LinkInv, CountsOK
<1>4. drops' = 0 => drops = 0
  BY LinkFacts
<1> QED
  BY <1>1, <1>2, <1>3, <1>4 DEF LinkInv, AccessesBounded, LinksBounded, LogsExact, Counted, NumLinks

LEMMA ReadingSteps ==
    ASSUME LinkInv, NEW v \in Visits, resolve(v) \/ remove(v) \/ generate(v)
    PROVE  LinkInv'
<1>1. step \in [Visits -> StepStates] /\ link \in Link /\ NumLinks \in Nat /\ drops \in Nat
      /\ ended \in BOOLEAN
  BY LinkFacts
<1>2. CASE resolve(v)
  <2> DEFINE t == [step[v] EXCEPT !.at = "count", !.read = link]
  <2>1. t \in StepStates /\ t.at = "count" /\ t.read = link /\ step' = [step EXCEPT ![v] = t]
    BY <1>1, <1>2 DEF resolve, StepStates
  <2> HIDE DEF t
  <2>2. link.there /\ link.count < MaxAccesses /\ step[v].at # "log"
    BY <1>2 DEF resolve, Resolvable
  <2>3. UNCHANGED <<link, others, logs, ended, served, races, drops>>
    BY <1>2 DEF resolve
  <2>4. ended' \in BOOLEAN /\ drops' \in Nat /\ drops' >= drops
    BY <1>1, <2>3
  <2> QED
    BY <2>1, <2>2, <2>3, <2>4, QuietMove
<1>3. CASE remove(v)
  <2> DEFINE t == [step[v] EXCEPT !.at = "delete"]
  <2>1. t \in StepStates /\ t.at = "delete" /\ step' = [step EXCEPT ![v] = t]
    BY <1>1, <1>3 DEF remove, Goes, StepStates
  <2> HIDE DEF t
  <2>2. step[v].at # "log" /\ UNCHANGED <<link, others, logs, ended, served, races, drops>>
    BY <1>3 DEF remove
  <2>4. ended' \in BOOLEAN /\ drops' \in Nat /\ drops' >= drops
    BY <1>1, <2>2
  <2> QED
    BY <2>1, <2>2, <2>4, QuietMove
<1>4. CASE generate(v)
  <2> DEFINE t == [step[v] EXCEPT !.at = "generate", !.counted = NumLinks]
  <2>1. t \in StepStates /\ t.at = "generate" /\ t.counted = NumLinks /\ step' = [step EXCEPT ![v] = t]
    BY <1>1, <1>4 DEF generate, StepStates
  <2> HIDE DEF t
  <2>2. step[v].at # "log" /\ NumLinks < LinkLimit
        /\ UNCHANGED <<link, others, logs, ended, served, races, drops>>
    BY <1>4 DEF generate
  <2>4. ended' \in BOOLEAN /\ drops' \in Nat /\ drops' >= drops
    BY <1>1, <2>2
  <2> QED
    BY <2>1, <2>2, <2>4, QuietMove
<1> QED
  BY <1>2, <1>3, <1>4

LEMMA FinishedState ==
    ASSUME LinkInv, NEW v \in Visits, Finish(v)
    PROVE  \E t \in StepStates : t.at = "done" /\ step' = [step EXCEPT ![v] = t]
<1>1. Unread \in Link
  BY LinkFacts DEF Unread, Link
<1> QED
  BY <1>1 DEF Finish, StepStates

LEMMA CountAccessStep ==
    ASSUME LinkInv, NEW v \in Visits, CountAccess(v)
    PROVE  LinkInv'
<1> DEFINE t == [step[v] EXCEPT !.at = "log"]
           r == step[v].read
           L == Cardinality(Logging)
           P == MaxAccesses * races
<1>1. /\ step[v].at = "count" /\ link' = [there |-> TRUE, count |-> r.count + 1]
      /\ races' = IF link # r THEN races + 1 ELSE races
      /\ step' = [step EXCEPT ![v].at = "log"]
      /\ UNCHANGED <<others, logs, ended, served, drops>>
  BY DEF CountAccess, Raced, Goes
<1>2. /\ MaxAccesses \in Nat /\ MaxAccesses > 0 /\ LinkLimit \in Nat
      /\ link.there \in BOOLEAN /\ link.count \in Nat /\ link.count <= MaxAccesses
      /\ others \in Nat /\ logs \in Nat /\ ended \in BOOLEAN
      /\ step \in [Visits -> StepStates]
      /\ served \in Nat /\ races \in Nat /\ drops \in Nat /\ IsFiniteSet(Logging)
      /\ Counted \in Nat /\ Counted <= MaxAccesses /\ L \in Nat
      /\ P \in Nat /\ MaxAccesses * (races + 1) = P + MaxAccesses
  BY LinkFacts
<1>3. t \in StepStates /\ t.at = "log" /\ step' = [step EXCEPT ![v] = t]
  BY <1>1, <1>2 DEF StepStates
<1>4. r.there /\ r.count < MaxAccesses /\ r.count \in Nat
  BY <1>1, <1>2 DEF LinkInv, ReadInTime, StepStates, Link
<1> HIDE DEF t, r, P
<1>5. step' \in [Visits -> StepStates] /\ (\A w \in Visits : ReadInTime(w)')
      /\ Logging' = Logging \cup {v} /\ v \notin Logging
  BY <1>1, <1>3, RequestMoves
<1>6. IsFiniteSet(Logging') /\ Cardinality(Logging') = L + 1
  <2> HIDE DEF L
  <2> QED
    BY <1>2, <1>5, OneMemberMore DEF L
<1> HIDE DEF L
<1>7. link' \in Link /\ link'.there /\ link'.count = r.count + 1
  BY <1>1, <1>2, <1>4 DEF Link
<1>8. LinkTypeOK' /\ CountsOK'
  BY <1>1, <1>2, <1>5, <1>6, <1>7 DEF LinkTypeOK, CountsOK, StepStates
<1>9. served + L <= P + Counted /\ NumLinks <= LinkLimit + races /\ logs <= served
      /\ (races = 0 /\ drops = 0 /\ link.there => link.count = logs + L)
  BY DEF LinkInv, AccessesBounded, LinksBounded, LogsExact, L, P
<1>10. (Cardinality(Logging))' = L + 1
  BY <1>6
<1>11. CASE link # r
  <2>1. races' = races + 1 /\ (MaxAccesses * races)' = P + MaxAccesses
    BY <1>1, <1>2, <1>11
  <2>2. AccessesBounded'
    BY <1>1, <1>2, <1>4, <1>7, <1>9, <1>10, <2>1 DEF AccessesBounded, Counted
  <2>3. LinksBounded'
    BY <1>1, <1>2, <1>7, <1>9, <2>1 DEF LinksBounded, NumLinks
  <2>4. LogsExact'
    BY <1>1, <1>2, <1>9, <2>1 DEF LogsExact
  <2> QED
    BY <1>5, <1>8, <2>2, <2>3, <2>4 DEF LinkInv
<1>12. CASE link = r
  <2>1. races' = races /\ (MaxAccesses * races)' = P
    BY <1>1, <1>12 DEF P
  <2>2. AccessesBounded'
    BY <1>1, <1>2, <1>4, <1>7, <1>9, <1>10, <1>12, <2>1 DEF AccessesBounded, Counted
  <2>3. LinksBounded'
    BY <1>1, <1>2, <1>4, <1>7, <1>9, <1>12, <2>1 DEF LinksBounded, NumLinks
  <2>4. LogsExact'
    BY <1>1, <1>2, <1>4, <1>7, <1>9, <1>10, <1>12, <2>1 DEF LogsExact
  <2> QED
    BY <1>5, <1>8, <2>2, <2>3, <2>4 DEF LinkInv
<1> QED
  BY <1>11, <1>12

LEMMA LogAccessStep ==
    ASSUME LinkInv, NEW v \in Visits, LogAccess(v)
    PROVE  LinkInv'
<1> DEFINE L == Cardinality(Logging)
           P == MaxAccesses * races
<1>1. /\ step[v].at = "log" /\ Finish(v)
      /\ IF link.there THEN logs' = logs + 1 /\ served' = served + 1
         ELSE logs' = logs /\ served' = served
      /\ UNCHANGED <<link, others, ended, races, drops>>
  BY DEF LogAccess
<1>2. /\ logs \in Nat /\ served \in Nat /\ races \in Nat /\ IsFiniteSet(Logging) /\ L \in Nat
      /\ Counted \in Nat /\ P \in Nat /\ link.there \in BOOLEAN /\ link.count \in Nat
  BY LinkFacts
<1>3. PICK t \in StepStates : t.at = "done" /\ step' = [step EXCEPT ![v] = t]
  BY <1>1, FinishedState
<1>4. step' \in [Visits -> StepStates] /\ (\A w \in Visits : ReadInTime(w)')
      /\ Logging' = Logging \ {v} /\ v \in Logging
  BY <1>1, <1>3, RequestMoves
<1>5. IsFiniteSet(Logging') /\ Cardinality(Logging') = L - 1 /\ Cardinality(Logging') \in Nat
  BY <1>2, <1>4, OneMemberLess
<1>6. LinkTypeOK' /\ CountsOK'
  BY <1>1, <1>2, <1>4, <1>5 DEF LinkInv, LinkTypeOK, CountsOK, StepStates
<1>7. served + L <= P + Counted /\ logs <= served
      /\ (races = 0 /\ drops = 0 /\ link.there => link.count = logs + L)
  BY DEF LinkInv, AccessesBounded, LogsExact
<1>8. (Cardinality(Logging))' = L - 1 /\ Counted' = Counted /\ (MaxAccesses * races)' = P
  BY <1>1, <1>5 DEF Counted
<1> HIDE DEF L, P
<1>9. AccessesBounded'
  BY <1>1, <1>2, <1>7, <1>8 DEF AccessesBounded
<1>10. LinksBounded'
  BY <1>1 DEF LinkInv, LinksBounded, NumLinks
<1>11. LogsExact'
  BY <1>1, <1>2, <1>7, <1>8 DEF LogsExact
<1> QED
  BY <1>4, <1>6, <1>9, <1>10, <1>11 DEF LinkInv

LEMMA DeleteLinkStep ==
    ASSUME LinkInv, NEW v \in Visits, DeleteLink(v)
    PROVE  LinkInv'
<1>1. /\ step[v].at = "delete" /\ Finish(v)
      /\ link' = [there |-> FALSE, count |-> 0] /\ logs' = 0
      /\ UNCHANGED <<others, ended, served, races, drops>>
  BY DEF DeleteLink
<1>2. PICK t \in StepStates : t.at = "done" /\ step' = [step EXCEPT ![v] = t]
  BY <1>1, FinishedState
<1>3. step' \in [Visits -> StepStates] /\ (\A w \in Visits : ReadInTime(w)') /\ Logging' = Logging
  BY <1>1, <1>2, RequestMoves
<1>4. link' \in Link /\ ~link'.there
  BY <1>1, LinkFacts DEF Link
<1>5. LinkTypeOK' /\ CountsOK'
  BY <1>1, <1>3, <1>4 DEF LinkInv, LinkTypeOK, CountsOK, StepStates
<1>6. AccessesBounded'
  <2>1. Counted' = MaxAccesses
    BY <1>4 DEF Counted
  <2>2. Counted <= MaxAccesses /\ Counted \in Nat /\ MaxAccesses \in Nat
        /\ served \in Nat /\ Cardinality(Logging) \in Nat /\ MaxAccesses * races \in Nat
    BY LinkFacts
  <2>3. (Cardinality(Logging))' = Cardinality(Logging) /\ (MaxAccesses * races)' = MaxAccesses * races
    BY <1>1, <1>3
  <2>4. served + Cardinality(Logging) <= MaxAccesses * races + Counted
    BY DEF LinkInv, AccessesBounded
  <2> QED
    BY <1>1, <2>1, <2>2, <2>3, <2>4 DEF AccessesBounded
<1>7. LinksBounded'
  BY <1>1, <1>4, LinkFacts DEF LinkInv, LinksBounded, NumLinks
<1>8. LogsExact'
  BY <1>1, <1>4, LinkFacts DEF LogsExact
<1> QED
  BY <1>3, <1>5, <1>6, <1>7, <1>8 DEF LinkInv

LEMMA InsertLinkStep ==
    ASSUME LinkInv, NEW v \in Visits, InsertLink(v)
    PROVE  LinkInv'
<1> DEFINE n == step[v].counted
<1>1. /\ step[v].at = "generate" /\ Finish(v) /\ others' = others + 1
      /\ races' = IF NumLinks # n THEN races + 1 ELSE races
      /\ UNCHANGED <<link, logs, ended, served, drops>>
  BY DEF InsertLink, Raced
<1>2. PICK t \in StepStates : t.at = "done" /\ step' = [step EXCEPT ![v] = t]
  BY <1>1, FinishedState
<1>3. step' \in [Visits -> StepStates] /\ (\A w \in Visits : ReadInTime(w)') /\ Logging' = Logging
  BY <1>1, <1>2, RequestMoves
<1>4. n < LinkLimit
  BY <1>1 DEF LinkInv, ReadInTime
<1>5. /\ others \in Nat /\ races \in Nat /\ LinkLimit \in Nat /\ NumLinks \in Nat
      /\ served \in Nat /\ Cardinality(Logging) \in Nat /\ MaxAccesses * races \in Nat
      /\ MaxAccesses \in Nat /\ MaxAccesses * (races + 1) = MaxAccesses * races + MaxAccesses
      /\ Counted \in Nat
  BY LinkFacts
<1>6. LinkTypeOK' /\ CountsOK'
  BY <1>1, <1>3, <1>5 DEF LinkInv, LinkTypeOK, CountsOK, StepStates
<1>7. NumLinks' = NumLinks + 1
  BY <1>1, <1>5 DEF NumLinks
<1>8. LinksBounded'
  BY <1>1, <1>4, <1>5, <1>7 DEF LinkInv, LinksBounded
<1>9. races' \in {races, races + 1}
  BY <1>1
<1>10. AccessesBounded'
  <2>1. (MaxAccesses * races)' >= MaxAccesses * races /\ (MaxAccesses * races)' \in Nat
    <3>1. CASE races' = races
      BY <1>5, <3>1
    <3>2. CASE races' = races + 1
      <4>1. (MaxAccesses * races)' = MaxAccesses * races + MaxAccesses
        BY <1>5, <3>2
      <4> QED
        BY <1>5, <4>1
    <3> QED
      BY <1>9, <3>1, <3>2
  <2>2. (Cardinality(Logging))' = Cardinality(Logging) /\ Counted' = Counted
    BY <1>1, <1>3 DEF Counted
  <2>3. served + Cardinality(Logging) <= MaxAccesses * races + Counted
    BY DEF LinkInv, AccessesBounded
  <2> QED
    BY <1>1, <1>5, <2>1, <2>2, <2>3 DEF AccessesBounded
<1>11. LogsExact'
  <2>1. (Cardinality(Logging))' = Cardinality(Logging) /\ (races' = 0 => races = 0)
    BY <1>3, <1>5, <1>9
  <2> QED
    BY <1>1, <2>1 DEF LinkInv, LogsExact
<1> QED
  BY <1>3, <1>6, <1>8, <1>10, <1>11 DEF LinkInv

LEMMA DropStep ==
    ASSUME LinkInv, NEW v \in Visits, DropRequest(v)
    PROVE  LinkInv'
<1>1. Finish(v) /\ drops' = drops + 1 /\ UNCHANGED <<link, others, logs, ended, served, races>>
  BY DEF DropRequest
<1>2. PICK t \in StepStates : t.at = "done" /\ step' = [step EXCEPT ![v] = t]
  BY <1>1, FinishedState
<1>3. step' \in [Visits -> StepStates] /\ (\A w \in Visits : ReadInTime(w)')
      /\ Logging' = Logging \ {v}
  BY <1>2, RequestMoves
<1>4. IsFiniteSet(Logging') /\ Cardinality(Logging') \in Nat /\ Cardinality(Logging') <= Cardinality(Logging)
  BY <1>3, LinkFacts, FS_Subset, FS_CardinalityType
<1>5. /\ served \in Nat /\ Cardinality(Logging) \in Nat /\ MaxAccesses * races \in Nat /\ drops \in Nat
      /\ Counted \in Nat
  BY LinkFacts
<1>6. LinkTypeOK' /\ CountsOK'
  BY <1>1, <1>3, <1>4, <1>5 DEF LinkInv, LinkTypeOK, CountsOK, StepStates
<1>7. AccessesBounded'
  <2>1. (Cardinality(Logging))' = Cardinality(Logging') /\ Counted' = Counted
        /\ (MaxAccesses * races)' = MaxAccesses * races
    BY <1>1 DEF Counted
  <2>2. served + Cardinality(Logging) <= MaxAccesses * races + Counted
    BY DEF LinkInv, AccessesBounded
  <2> QED
    BY <1>1, <1>4, <1>5, <2>1, <2>2 DEF AccessesBounded
<1>8. LinksBounded' /\ LogsExact'
  BY <1>1, <1>5 DEF LinkInv, LinksBounded, NumLinks, LogsExact
<1> QED
  BY <1>3, <1>6, <1>7, <1>8 DEF LinkInv

LEMMA LinkStepInv == LinkInv /\ [LinkNext]_linkVars => LinkInv'
<1> SUFFICES ASSUME LinkInv, [LinkNext]_linkVars PROVE LinkInv'
  OBVIOUS
<1>1. CASE EndLink \/ UNCHANGED linkVars
  <2>1. ended' \in BOOLEAN /\ UNCHANGED <<link, others, logs, step, served, races, drops>>
    BY <1>1, LinkFacts DEF EndLink, linkVars
  <2> QED
    BY <2>1 DEF LinkInv, LinkTypeOK, CountsOK, ReadInTime, AccessesBounded, LinksBounded, LogsExact,
       Logging, Counted, NumLinks
<1>2. ASSUME NEW v \in Visits, resolve(v) \/ remove(v) \/ generate(v) PROVE LinkInv'
  BY <1>2, ReadingSteps
<1>3. ASSUME NEW v \in Visits, CountAccess(v) PROVE LinkInv'
  BY <1>3, CountAccessStep
<1>4. ASSUME NEW v \in Visits, LogAccess(v) PROVE LinkInv'
  BY <1>4, LogAccessStep
<1>5. ASSUME NEW v \in Visits, DeleteLink(v) PROVE LinkInv'
  BY <1>5, DeleteLinkStep
<1>6. ASSUME NEW v \in Visits, InsertLink(v) PROVE LinkInv'
  BY <1>6, InsertLinkStep
<1>7. ASSUME NEW v \in Visits, DropRequest(v) PROVE LinkInv'
  BY <1>7, DropStep
<1> QED
  BY <1>1, <1>2, <1>3, <1>4, <1>5, <1>6, <1>7 DEF LinkNext

\* LinkLimitsLeakOnlyByRaces for any number of requests, limits, races and failures.
THEOREM LinkLimitsHold == LinkSpec => []LinkLimitsLeakOnlyByRaces
<1>1. LinkInv => LinkLimitsLeakOnlyByRaces
  <2> SUFFICES ASSUME LinkInv PROVE LinkLimitsLeakOnlyByRaces
    OBVIOUS
  <2>1. served <= MaxAccesses * (1 + races)
    <3>1. /\ served \in Nat /\ Cardinality(Logging) \in Nat /\ MaxAccesses * races \in Nat
          /\ MaxAccesses \in Nat /\ Counted \in Nat /\ Counted <= MaxAccesses /\ races \in Nat
      BY LinkFacts
    <3>2. MaxAccesses * (1 + races) = MaxAccesses * races + MaxAccesses
      BY <3>1, OneRoundMore
    <3>3. served + Cardinality(Logging) <= MaxAccesses * races + Counted
      BY DEF LinkInv, AccessesBounded
    <3> QED
      BY <3>1, <3>2, <3>3
  <2>2. NumLinks <= LinkLimit + races /\ logs <= served
    BY DEF LinkInv, LinksBounded, LogsExact
  <2>3. races = 0 /\ drops = 0 /\ link.there =>
          link.count = logs + Cardinality({v \in Visits : step[v].at = "log"})
    BY Zenon DEF LinkInv, LogsExact, Logging
  <2> QED
    BY <2>1, <2>2, <2>3, Zenon DEF LinkLimitsLeakOnlyByRaces
<1> QED
  BY <1>1, LinkInitInv, LinkStepInv, PTL DEF LinkSpec

-----------------------------------------------------------------------------
(* Invitations *)

\* The joins that have inserted a participant and not counted the use.
Using == {c \in Calls : visit[c].at = "use"}

\* What a call goes on with: a row that still had a use, or a guest to upgrade.
VisitFits(c) ==
    /\ visit[c].at \in {"duplicate", "insert", "use"} => visit[c].read.uses < MaxUses
    /\ visit[c].at \in {"register", "link"} => visit[c].who \in Emails /\ visit[c].guest \in Joined
    /\ visit[c].at = "link" => visit[c].who \in users

AccountsExist == \A c \in Calls, e \in Emails : participant[c] = Account(e) => e \in users

UsesBounded ==
    Cardinality(Joined) <= MaxUses * stale + invite.uses + cuts + Cardinality(Using)

CallsFinite ==
    stale \in Nat /\ cuts \in Nat /\ IsFiniteSet(Using) /\ IsFiniteSet(Joined)

InviteInv ==
    /\ InviteTypeOK /\ CallsFinite
    /\ \A c \in Calls : VisitFits(c)
    /\ AccountsExist /\ UsesBounded

SeatNames == {Nobody, Guest} \cup Emails \cup {Account(e) : e \in Emails}
VisitStates == [at : {"new", "duplicate", "insert", "use", "revoke", "register", "link", "done"},
                who : Emails \cup {Guest}, read : Invite, guest : Calls \cup {Nobody}]

LEMMA InviteFacts ==
    ASSUME InviteInv
    PROVE  /\ MaxUses \in Nat /\ MaxUses > 0
           /\ invite \in Invite /\ invite.uses \in Nat /\ invite.uses <= MaxUses
           /\ participant \in [Calls -> SeatNames] /\ users \subseteq Emails
           /\ visit \in [Calls -> VisitStates]
           /\ stale \in Nat /\ cuts \in Nat
           /\ IsFiniteSet(Using) /\ IsFiniteSet(Joined)
           /\ Cardinality(Using) \in Nat /\ Cardinality(Joined) \in Nat
           /\ MaxUses * stale \in Nat /\ MaxUses * (stale + 1) = MaxUses * stale + MaxUses
           /\ Cardinality(Joined) <= MaxUses * stale + invite.uses + cuts + Cardinality(Using)
<1>1. MaxUses \in Nat /\ MaxUses > 0
  BY InvitationConstants
<1>2. /\ invite \in Invite /\ participant \in [Calls -> SeatNames] /\ users \subseteq Emails
      /\ visit \in [Calls -> VisitStates]
  BY DEF InviteInv, InviteTypeOK, SeatNames, VisitStates
<1>3. invite.uses \in Nat /\ invite.uses <= MaxUses
  BY <1>1, <1>2 DEF Invite
<1>4. stale \in Nat /\ cuts \in Nat /\ IsFiniteSet(Using) /\ IsFiniteSet(Joined)
  BY DEF InviteInv, CallsFinite
<1>5. Cardinality(Using) \in Nat /\ Cardinality(Joined) \in Nat
  BY <1>4, FS_CardinalityType
<1> QED
  BY <1>1, <1>2, <1>3, <1>4, <1>5, OneRoundMore DEF InviteInv, UsesBounded

LEMMA StartType == Start \in VisitStates /\ Start.at = "new" /\ Start.read \in Invite /\ Start.read.uses = 0
<1>1. 0 \in 0..MaxUses
  BY InvitationConstants
<1> DEFINE r == [uses |-> 0, used |-> FALSE, revoked |-> FALSE]
<1>2. r \in Invite /\ r.uses = 0
  BY <1>1 DEF Invite
<1> HIDE DEF r
<1>3. Start = [at |-> "new", who |-> Guest, read |-> r, guest |-> Nobody]
  BY DEF Start, r
<1> QED
  BY <1>2, <1>3 DEF VisitStates

LEMMA InviteInitInv == InviteInit => InviteInv
<1> SUFFICES ASSUME InviteInit PROVE InviteInv
  OBVIOUS
<1>1. /\ invite \in Invite /\ invite.uses = 0
      /\ visit \in [Calls -> VisitStates] /\ \A c \in Calls : visit[c].at = "new"
  BY StartType DEF InviteInit
<1>2. /\ participant = [c \in Calls |-> Nobody] /\ users \subseteq Emails
      /\ stale = 0 /\ cuts = 0
  BY DEF InviteInit
<1>3. participant \in [Calls -> SeatNames]
  BY <1>2 DEF SeatNames
<1>4. InviteTypeOK
  BY <1>1, <1>2, <1>3 DEF InviteTypeOK, VisitStates, SeatNames
<1>5. Using = {} /\ Joined = {}
  BY <1>1, <1>2 DEF Using, Joined
<1>6. IsFiniteSet(Using) /\ IsFiniteSet(Joined) /\ Cardinality(Using) = 0 /\ Cardinality(Joined) = 0
  BY <1>5, FS_EmptySet
<1>7. \A c \in Calls : VisitFits(c)
  BY <1>1 DEF VisitFits
<1>8. AccountsExist
  BY <1>2, NamesDiffer DEF AccountsExist
<1>9. CallsFinite
  BY <1>2, <1>6 DEF CallsFinite
<1>10. UsesBounded
  <2>1. MaxUses * 0 = 0
    BY InvitationConstants
  <2> QED
    BY <1>1, <1>2, <1>6, <2>1 DEF UsesBounded
<1> QED
  BY <1>4, <1>7, <1>8, <1>9, <1>10 DEF InviteInv

\* One call moves on to t: who uses the invitation then, and that the others keep what
\* they go on with.
LEMMA VisitMoves ==
    ASSUME InviteInv, NEW c \in Calls, NEW t \in VisitStates, visit' = [visit EXCEPT ![c] = t],
           Joined \subseteq Joined', users \subseteq users',
           t.at \in {"duplicate", "insert", "use"} => t.read.uses < MaxUses,
           t.at \in {"register", "link"} => t.who \in Emails /\ t.guest \in Joined',
           t.at = "link" => t.who \in users'
    PROVE  /\ visit' \in [Calls -> VisitStates]
           /\ \A d \in Calls : VisitFits(d)'
           /\ Using' = IF t.at = "use" THEN Using \cup {c} ELSE Using \ {c}
           /\ c \in Using <=> visit[c].at = "use"
<1>1. visit \in [Calls -> VisitStates]
  BY InviteFacts
<1>2. /\ visit' \in [Calls -> VisitStates] /\ visit'[c] = t
      /\ \A d \in Calls : d # c => visit'[d] = visit[d]
  BY <1>1
<1>3. VisitFits(c)'
  BY <1>2 DEF VisitFits
<1>4. ASSUME NEW d \in Calls, d # c PROVE VisitFits(d)'
  <2>1. VisitFits(d) /\ visit'[d] = visit[d]
    BY <1>2, <1>4 DEF InviteInv
  <2> QED
    BY <2>1 DEF VisitFits
<1>5. Using' = IF t.at = "use" THEN Using \cup {c} ELSE Using \ {c}
  BY <1>2 DEF Using
<1> QED
  BY <1>2, <1>3, <1>4, <1>5 DEF Using

\* Steps that leave rows, participants and uses alone.
LEMMA QuietVisit ==
    ASSUME InviteInv, NEW c \in Calls, NEW t \in VisitStates, visit' = [visit EXCEPT ![c] = t],
           UNCHANGED <<invite, participant, stale, cuts>>,
           users \subseteq users', users' \subseteq Emails,
           visit[c].at # "use", t.at # "use",
           t.at \in {"duplicate", "insert"} => t.read.uses < MaxUses,
           t.at \in {"register", "link"} => t.who \in Emails /\ t.guest \in Joined,
           t.at = "link" => t.who \in users'
    PROVE  InviteInv'
<1>1. Joined' = Joined
  BY DEF Joined
<1>2. visit' \in [Calls -> VisitStates] /\ (\A d \in Calls : VisitFits(d)') /\ Using' = Using
  BY <1>1, VisitMoves
<1>3. InviteTypeOK'
  BY <1>2 DEF InviteInv, InviteTypeOK, VisitStates
<1>4. CallsFinite'
  BY <1>1, <1>2 DEF InviteInv, CallsFinite
<1>5. AccountsExist'
  BY DEF InviteInv, AccountsExist, Account
<1>6. UsesBounded'
  BY <1>1, <1>2 DEF InviteInv, UsesBounded
<1> QED
  BY <1>2, <1>3, <1>4, <1>5, <1>6 DEF InviteInv

LEMMA JoinByTokenStep ==
    ASSUME InviteInv, NEW c \in Calls, NEW who \in Emails \cup {Guest}, joinByToken(c, who)
    PROVE  InviteInv'
<1> DEFINE t == [visit[c] EXCEPT !.at = "duplicate", !.who = who, !.read = invite]
<1>1. visit \in [Calls -> VisitStates] /\ invite \in Invite /\ users \subseteq Emails
  BY InviteFacts
<1>2. t \in VisitStates /\ t.at = "duplicate" /\ t.read = invite /\ visit' = [visit EXCEPT ![c] = t]
  BY <1>1 DEF joinByToken, VisitStates
<1> HIDE DEF t
<1>3. visit[c].at = "new" /\ invite.uses < MaxUses
      /\ UNCHANGED <<invite, over, participant, users, stale, cuts>>
  BY DEF joinByToken, Usable
<1> QED
  BY <1>1, <1>2, <1>3, QuietVisit

LEMMA FindDuplicateStep ==
    ASSUME InviteInv, NEW c \in Calls, FindDuplicate(c)
    PROVE  InviteInv'
<1> DEFINE place == IF \E d \in Calls : visit[c].who # Guest /\ participant[d] = visit[c].who
                    THEN "done" ELSE "insert"
           t == [visit[c] EXCEPT !.at = place]
<1>1. visit \in [Calls -> VisitStates] /\ users \subseteq Emails
  BY InviteFacts
<1>2. visit' = [visit EXCEPT ![c].at = place] /\ place \in {"done", "insert"}
  BY DEF FindDuplicate, To
<1> HIDE DEF place
<1>3. t \in VisitStates /\ t.at = place /\ t.read = visit[c].read /\ visit' = [visit EXCEPT ![c] = t]
  BY <1>1, <1>2 DEF VisitStates
<1> HIDE DEF t
<1>4. visit[c].at = "duplicate" /\ UNCHANGED <<invite, over, participant, users, stale, cuts>>
  BY DEF FindDuplicate
<1>5. visit[c].read.uses < MaxUses
  BY <1>4 DEF InviteInv, VisitFits
<1> QED
  BY <1>1, <1>2, <1>3, <1>4, <1>5, QuietVisit

LEMMA InvalidateStep ==
    ASSUME InviteInv, NEW c \in Calls, invalidate(c)
    PROVE  InviteInv'
<1> DEFINE t == [visit[c] EXCEPT !.at = "revoke", !.read = invite]
<1>1. visit \in [Calls -> VisitStates] /\ invite \in Invite /\ users \subseteq Emails
  BY InviteFacts
<1>2. t \in VisitStates /\ t.at = "revoke" /\ visit' = [visit EXCEPT ![c] = t]
  BY <1>1 DEF invalidate, VisitStates
<1> HIDE DEF t
<1>3. visit[c].at = "new" /\ UNCHANGED <<invite, over, participant, users, stale, cuts>>
  BY DEF invalidate
<1> QED
  BY <1>1, <1>2, <1>3, QuietVisit

LEMMA UpgradeGuestStep ==
    ASSUME InviteInv, NEW c \in Calls, NEW d \in Calls, NEW e \in Emails, upgradeGuest(c, d, e)
    PROVE  InviteInv'
<1> DEFINE place == IF e \in users THEN "link" ELSE "register"
           t == [Start EXCEPT !.at = place, !.who = e, !.guest = d]
<1>1. visit \in [Calls -> VisitStates] /\ users \subseteq Emails
  BY InviteFacts
<1>2. place \in {"link", "register"} /\ (place = "link" => e \in users)
  OBVIOUS
<1>3. visit' = [visit EXCEPT ![c] = t] /\ visit[c].at = "new" /\ participant[d] = Guest
      /\ UNCHANGED <<invite, over, participant, users, stale, cuts>>
  BY DEF upgradeGuest
<1> HIDE DEF place
<1>4. t \in VisitStates /\ t.at = place /\ t.who = e /\ t.guest = d
  BY <1>2, StartType DEF VisitStates
<1> HIDE DEF t
<1>5. d \in Joined
  BY <1>3, NamesDiffer DEF Joined
<1> QED
  BY <1>1, <1>2, <1>3, <1>4, <1>5, QuietVisit

LEMMA RegisterUserStep ==
    ASSUME InviteInv, NEW c \in Calls, RegisterUser(c)
    PROVE  InviteInv'
<1> DEFINE place == IF visit[c].who \in users THEN "done" ELSE "link"
           t == [visit[c] EXCEPT !.at = place]
<1>1. visit \in [Calls -> VisitStates] /\ users \subseteq Emails
  BY InviteFacts
<1>2. place \in {"link", "done"}
  OBVIOUS
<1>3. visit' = [visit EXCEPT ![c].at = place] /\ visit[c].at = "register"
      /\ users' = users \cup {visit[c].who}
      /\ UNCHANGED <<invite, over, participant, stale, cuts>>
  BY DEF RegisterUser, To
<1> HIDE DEF place
<1>4. t \in VisitStates /\ t.at = place /\ t.who = visit[c].who /\ t.guest = visit[c].guest
      /\ visit' = [visit EXCEPT ![c] = t]
  BY <1>1, <1>2, <1>3 DEF VisitStates
<1> HIDE DEF t
<1>5. visit[c].who \in Emails /\ visit[c].guest \in Joined
  BY <1>3 DEF InviteInv, VisitFits
<1>6. users \subseteq users' /\ users' \subseteq Emails /\ visit[c].who \in users'
  BY <1>1, <1>3, <1>5
<1> QED
  BY <1>2, <1>3, <1>4, <1>5, <1>6, QuietVisit

LEMMA InsertParticipantStep ==
    ASSUME InviteInv, NEW c \in Calls, InsertParticipant(c)
    PROVE  InviteInv'
<1> DEFINE t == [visit[c] EXCEPT !.at = "use"]
           who == visit[c].who
           U == Cardinality(Using)
           J == Cardinality(Joined)
<1>1. /\ visit \in [Calls -> VisitStates] /\ participant \in [Calls -> SeatNames]
      /\ users \subseteq Emails
      /\ invite.uses \in Nat /\ stale \in Nat /\ cuts \in Nat
      /\ IsFiniteSet(Using) /\ IsFiniteSet(Joined) /\ U \in Nat /\ J \in Nat
      /\ MaxUses * stale \in Nat /\ J <= MaxUses * stale + invite.uses + cuts + U
  BY InviteFacts
<1>2. /\ visit[c].at = "insert" /\ participant' = [participant EXCEPT ![c] = who]
      /\ visit' = [visit EXCEPT ![c].at = "use"]
      /\ UNCHANGED <<invite, over, users, stale, cuts>>
  BY DEF InsertParticipant, To
<1>3. t \in VisitStates /\ t.at = "use" /\ t.read = visit[c].read /\ visit' = [visit EXCEPT ![c] = t]
  BY <1>1, <1>2 DEF VisitStates
<1>4. who \in Emails \cup {Guest}
  BY <1>1 DEF VisitStates
<1> HIDE DEF t, who
<1>5. visit[c].read.uses < MaxUses
  BY <1>2 DEF InviteInv, VisitFits
<1>6. /\ participant' \in [Calls -> SeatNames] /\ participant'[c] = who
      /\ \A d \in Calls : d # c => participant'[d] = participant[d]
  BY <1>1, <1>2, <1>4 DEF SeatNames
<1>7. Joined' = Joined \cup {c}
  BY <1>4, <1>6, NamesDiffer DEF Joined
<1>8. visit' \in [Calls -> VisitStates] /\ (\A d \in Calls : VisitFits(d)')
      /\ Using' = Using \cup {c} /\ c \notin Using
  BY <1>2, <1>3, <1>5, <1>7, VisitMoves
<1>9. IsFiniteSet(Using') /\ Cardinality(Using') = U + 1
  <2> HIDE DEF U
  <2> QED
    BY <1>1, <1>8, OneMemberMore DEF U
<1>10. IsFiniteSet(Joined') /\ Cardinality(Joined') <= J + 1 /\ Cardinality(Joined') \in Nat
  <2>1. /\ IsFiniteSet(Joined \cup {c})
        /\ Cardinality(Joined \cup {c})
             = IF c \in Joined THEN Cardinality(Joined) ELSE Cardinality(Joined) + 1
    BY <1>1, FS_AddElement
  <2> QED
    BY <1>1, <1>7, <2>1
<1> HIDE DEF U, J
<1>11. InviteTypeOK'
  BY <1>2, <1>6, <1>8 DEF InviteInv, InviteTypeOK, VisitStates, SeatNames
<1>12. CallsFinite'
  BY <1>1, <1>2, <1>9, <1>10 DEF CallsFinite
<1>13. AccountsExist'
  <2> SUFFICES ASSUME NEW d \in Calls, NEW e \in Emails, participant'[d] = Account(e)
               PROVE  e \in users
    BY <1>2 DEF AccountsExist, Account
  <2>1. d # c
    BY <1>4, <1>6, NamesDiffer
  <2> QED
    BY <1>6, <2>1 DEF InviteInv, AccountsExist
<1>14. UsesBounded'
  <2>1. (Cardinality(Joined))' <= J + 1 /\ (Cardinality(Using))' = U + 1
        /\ (Cardinality(Joined))' \in Nat
    BY <1>9, <1>10
  <2>2. (MaxUses * stale)' = MaxUses * stale
    BY <1>2
  <2> QED
    BY <1>1, <1>2, <2>1, <2>2 DEF UsesBounded
<1> QED
  BY <1>8, <1>11, <1>12, <1>13, <1>14 DEF InviteInv

\* A save of the row a call has read: of the row as it is, or stale.
LEMMA SaveInviteStep ==
    ASSUME InviteInv, NEW c \in Calls, NEW row \in Invite, SaveInvite(c, row),
           UNCHANGED <<over, participant, users, cuts>>,
           visit[c].at \in {"use", "revoke"},
           row.uses = visit[c].read.uses + (IF visit[c].at = "use" THEN 1 ELSE 0)
    PROVE  InviteInv'
<1> DEFINE t == [Start EXCEPT !.at = "done"]
           old == visit[c].read
           n == IF visit[c].at = "use" THEN 1 ELSE 0
           U == Cardinality(Using)
           J == Cardinality(Joined)
           P == MaxUses * stale
<1>1. /\ visit \in [Calls -> VisitStates] /\ invite \in Invite /\ MaxUses \in Nat
      /\ invite.uses \in Nat /\ invite.uses <= MaxUses /\ stale \in Nat /\ cuts \in Nat
      /\ IsFiniteSet(Using) /\ IsFiniteSet(Joined) /\ U \in Nat /\ J \in Nat
      /\ P \in Nat /\ MaxUses * (stale + 1) = P + MaxUses
      /\ J <= P + invite.uses + cuts + U
  BY InviteFacts
<1>2. /\ invite' = row /\ visit' = [visit EXCEPT ![c] = t]
      /\ stale' = IF invite = old THEN stale ELSE stale + 1
  BY DEF SaveInvite
<1>3. t \in VisitStates /\ t.at = "done"
  BY StartType DEF VisitStates
<1> HIDE DEF t, P
<1>4. Joined' = Joined
  BY DEF Joined
<1>5. visit' \in [Calls -> VisitStates] /\ (\A d \in Calls : VisitFits(d)')
      /\ Using' = Using \ {c} /\ (c \in Using <=> visit[c].at = "use")
  BY <1>2, <1>3, <1>4, VisitMoves
<1>6. IsFiniteSet(Using') /\ Cardinality(Using') = U - n /\ n \in Nat /\ Cardinality(Using') \in Nat
  <2>1. CASE visit[c].at = "use"
    BY <1>1, <1>5, <2>1, OneMemberLess
  <2>2. CASE visit[c].at # "use"
    <3>1. Using' = Using
      BY <1>5, <2>2
    <3> QED
      BY <1>1, <2>2, <3>1
  <2> QED
    BY <2>1, <2>2
<1>7. old.uses \in Nat /\ row.uses \in Nat /\ row.uses = old.uses + n
  BY <1>1 DEF VisitStates, Invite
<1> HIDE DEF n, U, J
<1>8. InviteTypeOK'
  BY <1>2, <1>5 DEF InviteInv, InviteTypeOK, VisitStates
<1>9. CallsFinite'
  BY <1>1, <1>2, <1>4, <1>6 DEF CallsFinite
<1>10. AccountsExist'
  BY DEF InviteInv, AccountsExist, Account
<1>11. (Cardinality(Joined))' = J /\ (Cardinality(Using))' = U - n
  BY <1>4, <1>6 DEF J
<1>12. UsesBounded'
  <2>1. CASE invite = old
    <3>1. (MaxUses * stale)' = P
      BY <1>2, <2>1 DEF P
    <3> QED
      BY <1>1, <1>2, <1>6, <1>7, <1>11, <2>1, <3>1 DEF UsesBounded
  <2>2. CASE invite # old
    <3>1. (MaxUses * stale)' = P + MaxUses
      BY <1>1, <1>2, <2>2
    <3> QED
      BY <1>1, <1>2, <1>6, <1>7, <1>11, <3>1 DEF UsesBounded
  <2> QED
    BY <2>1, <2>2
<1> QED
  BY <1>5, <1>8, <1>9, <1>10, <1>12 DEF InviteInv

LEMMA UseInviteStep ==
    ASSUME InviteInv, NEW c \in Calls, UseInvite(c)
    PROVE  InviteInv'
<1> DEFINE old == visit[c].read
           n == old.uses + 1
           done == old.used \/ n >= MaxUses
           row == [old EXCEPT !.uses = n, !.used = done]
<1>1. old \in Invite /\ old.uses < MaxUses /\ visit[c].at = "use"
  <2>1. visit[c].at = "use"
    BY DEF UseInvite
  <2> QED
    BY <2>1, InviteFacts DEF VisitStates, InviteInv, VisitFits
<1>2. n \in 0..MaxUses /\ old.uses \in Nat
  BY <1>1, InvitationConstants DEF Invite
<1>3. done \in BOOLEAN
  OBVIOUS
<1>4. SaveInvite(c, row) /\ UNCHANGED <<over, participant, users, cuts>>
  BY DEF UseInvite
<1> HIDE DEF n, done
<1>5. row \in Invite /\ row.uses = n
  BY <1>1, <1>2, <1>3 DEF Invite
<1>6. row.uses = old.uses + (IF visit[c].at = "use" THEN 1 ELSE 0)
  BY <1>1, <1>5 DEF n
<1> HIDE DEF row
<1> QED
  BY <1>1, <1>4, <1>5, <1>6, SaveInviteStep

LEMMA SaveRevokedStep ==
    ASSUME InviteInv, NEW c \in Calls, SaveRevoked(c)
    PROVE  InviteInv'
<1> DEFINE old == visit[c].read
           row == [old EXCEPT !.revoked = TRUE]
<1>1. old \in Invite /\ visit[c].at = "revoke"
  BY InviteFacts DEF SaveRevoked, VisitStates
<1>2. SaveInvite(c, row) /\ UNCHANGED <<over, participant, users, cuts>>
  BY DEF SaveRevoked
<1>3. row \in Invite /\ row.uses = old.uses /\ old.uses \in Nat
  <2>1. old.uses \in 0..MaxUses /\ old.used \in BOOLEAN
    BY <1>1 DEF Invite
  <2>2. row \in Invite /\ row.uses = old.uses
    BY <1>1 DEF Invite
  <2> QED
    BY <2>1, <2>2
<1>4. row.uses = old.uses + (IF visit[c].at = "use" THEN 1 ELSE 0)
  BY <1>1, <1>3
<1> HIDE DEF row
<1> QED
  BY <1>1, <1>2, <1>3, <1>4, SaveInviteStep

LEMMA LinkParticipantStep ==
    ASSUME InviteInv, NEW c \in Calls, LinkParticipant(c)
    PROVE  InviteInv'
<1> DEFINE t == [visit[c] EXCEPT !.at = "done"]
           g == visit[c].guest
           e == visit[c].who
<1>1. /\ visit \in [Calls -> VisitStates] /\ participant \in [Calls -> SeatNames]
      /\ users \subseteq Emails
  BY InviteFacts
<1>2. /\ visit[c].at = "link" /\ participant' = [participant EXCEPT ![g] = Account(e)]
      /\ visit' = [visit EXCEPT ![c].at = "done"]
      /\ UNCHANGED <<invite, over, users, stale, cuts>>
  BY DEF LinkParticipant, To
<1>3. t \in VisitStates /\ t.at = "done" /\ visit' = [visit EXCEPT ![c] = t]
  BY <1>1, <1>2 DEF VisitStates
<1>4. e \in Emails /\ e \in users /\ g \in Joined /\ g \in Calls
  BY <1>2 DEF InviteInv, VisitFits, Joined
<1> HIDE DEF t, g, e
<1>5. /\ participant' \in [Calls -> SeatNames] /\ participant'[g] = Account(e)
      /\ \A d \in Calls : d # g => participant'[d] = participant[d]
  BY <1>1, <1>2, <1>4 DEF SeatNames
<1>6. Joined' = Joined
  BY <1>4, <1>5, NamesDiffer DEF Joined
<1>7. visit' \in [Calls -> VisitStates] /\ (\A d \in Calls : VisitFits(d)')
      /\ Using' = Using
  <2>1. c \notin Using
    BY <1>2 DEF Using
  <2>2. Joined \subseteq Joined' /\ users \subseteq users'
    BY <1>2, <1>6
  <2> QED
    BY <1>3, <2>1, <2>2, VisitMoves
<1>8. InviteTypeOK'
  BY <1>2, <1>5, <1>7 DEF InviteInv, InviteTypeOK, VisitStates, SeatNames
<1>9. CallsFinite'
  BY <1>2, <1>6, <1>7 DEF InviteInv, CallsFinite
<1>10. AccountsExist'
  <2> SUFFICES ASSUME NEW d \in Calls, NEW f \in Emails, participant'[d] = Account(f)
               PROVE  f \in users
    BY <1>2 DEF AccountsExist, Account
  <2>1. CASE d = g
    <3>1. Account(f) = Account(e)
      BY <1>5, <2>1
    <3>2. f = e
      BY <3>1 DEF Account
    <3> QED
      BY <1>4, <3>2
  <2>2. CASE d # g
    BY <1>5, <2>2 DEF InviteInv, AccountsExist
  <2> QED
    BY <2>1, <2>2
<1>11. UsesBounded'
  BY <1>2, <1>6, <1>7 DEF InviteInv, UsesBounded
<1> QED
  BY <1>7, <1>8, <1>9, <1>10, <1>11 DEF InviteInv

LEMMA CutShortStep ==
    ASSUME InviteInv, NEW c \in Calls, CutShort(c)
    PROVE  InviteInv'
<1> DEFINE t == [visit[c] EXCEPT !.at = "done"]
<1>1. /\ visit \in [Calls -> VisitStates] /\ IsFiniteSet(Using)
      /\ Cardinality(Using) \in Nat /\ Cardinality(Joined) \in Nat /\ cuts \in Nat
      /\ invite.uses \in Nat /\ MaxUses * stale \in Nat
      /\ Cardinality(Joined) <= MaxUses * stale + invite.uses + cuts + Cardinality(Using)
  BY InviteFacts
<1>2. cuts' = cuts + 1 /\ visit' = [visit EXCEPT ![c].at = "done"]
      /\ UNCHANGED <<invite, over, participant, users, stale>>
  BY DEF CutShort, To
<1>3. t \in VisitStates /\ t.at = "done" /\ visit' = [visit EXCEPT ![c] = t]
  BY <1>1, <1>2 DEF VisitStates
<1> HIDE DEF t
<1>4. Joined' = Joined
  BY <1>2 DEF Joined
<1>5. visit' \in [Calls -> VisitStates] /\ (\A d \in Calls : VisitFits(d)') /\ Using' = Using \ {c}
  BY <1>2, <1>3, <1>4, VisitMoves
<1>6. IsFiniteSet(Using') /\ Cardinality(Using') \in Nat /\ Cardinality(Using') + 1 >= Cardinality(Using)
  <2>1. CASE c \in Using
    <3>1. IsFiniteSet(Using') /\ Cardinality(Using') \in Nat
          /\ Cardinality(Using') = Cardinality(Using) - 1
      BY <1>1, <1>5, <2>1, OneMemberLess
    <3> QED
      BY <1>1, <3>1
  <2>2. CASE c \notin Using
    <3>1. Using' = Using
      BY <1>5, <2>2
    <3> QED
      BY <1>1, <3>1
  <2> QED
    BY <2>1, <2>2
<1>7. InviteTypeOK'
  BY <1>2, <1>5 DEF InviteInv, InviteTypeOK, VisitStates
<1>8. CallsFinite'
  BY <1>2, <1>4, <1>6 DEF InviteInv, CallsFinite
<1>9. AccountsExist'
  BY <1>2 DEF InviteInv, AccountsExist, Account
<1>10. UsesBounded'
  <2>1. (Cardinality(Joined))' = Cardinality(Joined) /\ (MaxUses * stale)' = MaxUses * stale
        /\ (Cardinality(Using))' = Cardinality(Using')
    BY <1>2, <1>4
  <2> QED
    BY <1>1, <1>2, <1>6, <2>1 DEF UsesBounded
<1> QED
  BY <1>5, <1>7, <1>8, <1>9, <1>10 DEF InviteInv

LEMMA InviteStepInv == InviteInv /\ [InviteNext]_inviteVars => InviteInv'
<1> SUFFICES ASSUME InviteInv, [InviteNext]_inviteVars PROVE InviteInv'
  OBVIOUS
<1>1. CASE Expire \/ UNCHANGED inviteVars
  <2>1. UNCHANGED <<invite, participant, users, visit, stale, cuts>>
    BY <1>1 DEF Expire, inviteVars
  <2>2. Joined' = Joined /\ Using' = Using
    BY <2>1 DEF Joined, Using
  <2> QED
    BY <2>1, <2>2 DEF InviteInv, InviteTypeOK, CallsFinite, VisitFits, AccountsExist, Account, UsesBounded
<1>2. ASSUME NEW c \in Calls, NEW who \in Emails \cup {Guest}, joinByToken(c, who) PROVE InviteInv'
  BY <1>2, JoinByTokenStep
<1>3. ASSUME NEW c \in Calls, FindDuplicate(c) PROVE InviteInv'
  BY <1>3, FindDuplicateStep
<1>4. ASSUME NEW c \in Calls, InsertParticipant(c) PROVE InviteInv'
  BY <1>4, InsertParticipantStep
<1>5. ASSUME NEW c \in Calls, UseInvite(c) PROVE InviteInv'
  BY <1>5, UseInviteStep
<1>6. ASSUME NEW c \in Calls, invalidate(c) PROVE InviteInv'
  BY <1>6, InvalidateStep
<1>7. ASSUME NEW c \in Calls, SaveRevoked(c) PROVE InviteInv'
  BY <1>7, SaveRevokedStep
<1>8. ASSUME NEW c \in Calls, NEW d \in Calls, NEW e \in Emails, upgradeGuest(c, d, e)
      PROVE  InviteInv'
  BY <1>8, UpgradeGuestStep
<1>9. ASSUME NEW c \in Calls, RegisterUser(c) PROVE InviteInv'
  BY <1>9, RegisterUserStep
<1>10. ASSUME NEW c \in Calls, LinkParticipant(c) PROVE InviteInv'
  BY <1>10, LinkParticipantStep
<1>11. ASSUME NEW c \in Calls, CutShort(c) PROVE InviteInv'
  BY <1>11, CutShortStep
<1> QED
  BY <1>1, <1>2, <1>3, <1>4, <1>5, <1>6, <1>7, <1>8, <1>9, <1>10, <1>11 DEF InviteNext

\* CapLeaksOnlyByRaces for any number of calls, uses, races and failures.
THEOREM CapsHold == InviteSpec => []CapLeaksOnlyByRaces
<1>1. InviteInv => CapLeaksOnlyByRaces
  <2> SUFFICES ASSUME InviteInv PROVE CapLeaksOnlyByRaces
    OBVIOUS
  <2>1. Cardinality(Joined) <= MaxUses * (1 + stale) + cuts + Cardinality(Using)
    <3>1. /\ MaxUses \in Nat /\ stale \in Nat /\ cuts \in Nat /\ MaxUses * stale \in Nat
          /\ Cardinality(Using) \in Nat /\ Cardinality(Joined) \in Nat
          /\ invite.uses \in Nat /\ invite.uses <= MaxUses
          /\ Cardinality(Joined) <= MaxUses * stale + invite.uses + cuts + Cardinality(Using)
      BY InviteFacts
    <3>2. MaxUses * (1 + stale) = MaxUses * stale + MaxUses
      BY <3>1, OneRoundMore
    <3> QED
      BY <3>1, <3>2
  <2>2. \A c \in Joined, e \in Emails : participant[c] = Account(e) => e \in users
    BY DEF InviteInv, AccountsExist, Joined
  <2> QED
    BY <2>1, <2>2, Zenon DEF CapLeaksOnlyByRaces, Using
<1> QED
  BY <1>1, InviteInitInv, InviteStepInv, PTL DEF InviteSpec

-----------------------------------------------------------------------------
(* Collaborations *)

Actions == DOMAIN StatusAfter
Collaborations == [status : CollaborationStatus \cup {"none"},
                   share : Percentages \cup {NoShare}, auditLog : Seq(Actions)]
PetitionStates == [at : {"new", "insert", "done"} \cup Actions,
                   artist : Artists \cup {NoShare}, row : Collaborations]

\* An audit log begins with the invitation, is followed by one answer at most, and by
\* removals; the row's status is what its last entry says.
LegalLog(log, status) ==
    /\ Len(log) > 0
    /\ log[1] = "invited" /\ status = StatusAfter[log[Len(log)]]
    /\ \A i \in 2..Len(log) : log[i] # "invited" /\ (i = 2 \/ log[i] = "removed")

LegalRow(row) ==
    IF row.status = "none" THEN row = NoCollaboration ELSE LegalLog(row.auditLog, row.status)

\* What a request goes on with: a fresh invitation, or a row as it once was, pending if
\* the request answers it.
RowRead(c) ==
    /\ petition[c].at = "new" => c \notin saved
    /\ petition[c].at = "insert" =>
         petition[c].row.status = "invited" /\ petition[c].row.auditLog = <<"invited">>
    /\ petition[c].at \in {"accepted", "rejected"} => petition[c].row.status = "invited"
    /\ petition[c].at \notin {"new", "done"} =>
         /\ petition[c].artist \in Artists /\ c \notin saved
         /\ petition[c].row.status # "none" /\ LegalRow(petition[c].row)

\* Without a save of a stale row every save has its entry, and removals are final.
NothingLost ==
    overwrites = 0 =>
        /\ IsFiniteSet(Recorded) /\ IsFiniteSet(saved)
        /\ Cardinality(Recorded) = Cardinality(saved)
        /\ \A a \in removedOnce : collaboration[a].status = "removed"

CollaborationInv ==
    /\ CollaborationTypeOK
    /\ \A a \in Artists : LegalRow(collaboration[a])
    /\ \A c \in Petitions : RowRead(c)
    /\ NothingLost

LEMMA CollaborationFacts ==
    ASSUME CollaborationTypeOK
    PROVE  /\ collaboration \in [Artists -> Collaborations]
           /\ petition \in [Petitions -> PetitionStates]
           /\ saved \subseteq Petitions /\ removedOnce \subseteq Artists /\ overwrites \in Nat
BY DEF CollaborationTypeOK, Collaborations, PetitionStates, Actions

LEMMA TypesBack ==
    ASSUME collaboration' \in [Artists -> Collaborations],
           petition' \in [Petitions -> PetitionStates],
           saved' \subseteq Petitions, removedOnce' \subseteq Artists, overwrites' \in Nat
    PROVE  CollaborationTypeOK'
BY DEF CollaborationTypeOK, Collaborations, PetitionStates, Actions

LEMMA ActionNames ==
    /\ Actions = {"invited", "accepted", "rejected", "removed"}
    /\ \A x \in Actions : StatusAfter[x] \in CollaborationStatus /\ StatusAfter[x] # "none"
    /\ StatusAfter["invited"] = "invited" /\ StatusAfter["accepted"] = "active"
    /\ StatusAfter["rejected"] = "rejected" /\ StatusAfter["removed"] = "removed"
BY DEF Actions, StatusAfter, CollaborationStatus

\* A legal log goes on, after a pending invitation with an answer, after anything with a
\* removal.
LEMMA LogGoesOn ==
    ASSUME NEW log \in Seq(Actions), NEW status, LegalLog(log, status),
           NEW action \in {"accepted", "rejected", "removed"},
           action # "removed" => status = "invited"
    PROVE  /\ Append(log, action) \in Seq(Actions) /\ Len(Append(log, action)) = Len(log) + 1
           /\ LegalLog(Append(log, action), StatusAfter[action])
<1> DEFINE new == Append(log, action)
<1>1. /\ new \in Seq(Actions) /\ Len(new) = Len(log) + 1 /\ Len(log) \in Nat /\ Len(log) > 0
      /\ \A i \in 1..Len(log) : new[i] = log[i]
      /\ new[Len(log) + 1] = action
  BY ActionNames DEF LegalLog
<1> HIDE DEF new
<1>2. action # "removed" => Len(log) = 1
  <2> SUFFICES ASSUME action # "removed", Len(log) # 1 PROVE FALSE
    OBVIOUS
  <2>1. Len(log) \in 2..Len(log) /\ status = "invited"
    <3>1. Len(log) >= 2
      BY <1>1
    <3> QED
      BY <1>1, <3>1
  <2>2. log[Len(log)] # "invited" /\ log[Len(log)] \in Actions
    BY <1>1, <2>1 DEF LegalLog
  <2>3. StatusAfter[log[Len(log)]] = "invited"
    BY <2>1 DEF LegalLog
  <2> QED
    BY <2>2, <2>3, ActionNames
<1>3. \A i \in 2..Len(new) : new[i] # "invited" /\ (i = 2 \/ new[i] = "removed")
  <2> SUFFICES ASSUME NEW i \in 2..Len(new) PROVE new[i] # "invited" /\ (i = 2 \/ new[i] = "removed")
    OBVIOUS
  <2>1. CASE i = Len(log) + 1
    <3>1. new[i] = action
      BY <1>1, <2>1
    <3>2. ASSUME action # "removed" PROVE i = 2
      <4>1. Len(log) = 1
        BY <1>2, <3>2
      <4> QED
        BY <2>1, <4>1
    <3> QED
      BY <3>1, <3>2
  <2>2. CASE i # Len(log) + 1
    <3>1. i \in 2..Len(log) /\ new[i] = log[i]
      BY <1>1, <2>2
    <3> QED
      BY <3>1 DEF LegalLog
  <2> QED
    BY <2>1, <2>2
<1>4. new[1] = "invited"
  BY <1>1 DEF LegalLog
<1>5. new[Len(new)] = action /\ Len(new) > 0
  BY <1>1
<1>6. LegalLog(new, StatusAfter[action])
  BY <1>3, <1>4, <1>5 DEF LegalLog
<1> QED
  BY <1>1, <1>6 DEF new

\* The entries after one artist's log has grown by one.
LEMMA OneEntryMore ==
    ASSUME collaboration \in [Artists -> Collaborations], NEW a \in Artists,
           NEW row \in Collaborations, collaboration' = [collaboration EXCEPT ![a] = row],
           Len(row.auditLog) = Len(collaboration[a].auditLog) + 1,
           IsFiniteSet(Recorded)
    PROVE  IsFiniteSet(Recorded') /\ Cardinality(Recorded') = Cardinality(Recorded) + 1
<1> DEFINE n == Len(collaboration[a].auditLog)
<1>1. /\ collaboration'[a] = row /\ \A b \in Artists : b # a => collaboration'[b] = collaboration[b]
      /\ n \in Nat
      /\ DOMAIN collaboration[a].auditLog = 1..n
      /\ DOMAIN row.auditLog = 1..(n + 1)
  <2>1. collaboration[a].auditLog \in Seq(Actions) /\ row.auditLog \in Seq(Actions)
    BY DEF Collaborations
  <2>2. DOMAIN collaboration[a].auditLog = 1..Len(collaboration[a].auditLog)
        /\ DOMAIN row.auditLog = 1..Len(row.auditLog) /\ Len(collaboration[a].auditLog) \in Nat
    BY <2>1
  <2> QED
    BY <2>2
<1>2. 1..(n + 1) = (1..n) \cup {n + 1} /\ n + 1 \notin 1..n
  BY <1>1
<1> HIDE DEF n
<1>3. Recorded' = UNION {{b} \X DOMAIN collaboration'[b].auditLog : b \in Artists}
  BY DEF Recorded
<1>4. Recorded' = Recorded \cup {<<a, n + 1>>}
  <2>1. ASSUME NEW x \in Recorded' PROVE x \in Recorded \cup {<<a, n + 1>>}
    <3>1. PICK b \in Artists : x \in {b} \X DOMAIN collaboration'[b].auditLog
      BY <1>3
    <3>2. CASE b # a
      BY <1>1, <3>1, <3>2 DEF Recorded
    <3>3. CASE b = a
      <4>1. x \in {a} \X (1..(n + 1))
        BY <1>1, <3>1, <3>3
      <4>2. x = <<a, n + 1>> \/ x \in {a} \X DOMAIN collaboration[a].auditLog
        BY <1>1, <1>2, <4>1
      <4> QED
        BY <4>2 DEF Recorded
    <3> QED
      BY <3>2, <3>3
  <2>2. ASSUME NEW x \in Recorded PROVE x \in Recorded'
    <3>1. PICK b \in Artists : x \in {b} \X DOMAIN collaboration[b].auditLog
      BY DEF Recorded
    <3>2. DOMAIN collaboration[b].auditLog \subseteq DOMAIN collaboration'[b].auditLog
      <4>1. CASE b = a
        BY <1>1, <1>2, <4>1
      <4>2. CASE b # a
        BY <1>1, <4>2
      <4> QED
        BY <4>1, <4>2
    <3>3. x \in {b} \X DOMAIN collaboration'[b].auditLog
      BY <3>1, <3>2
    <3> QED
      BY <1>3, <3>3
  <2>3. <<a, n + 1>> \in Recorded'
    <3>1. n + 1 \in DOMAIN collaboration'[a].auditLog
      BY <1>1, <1>2
    <3>2. <<a, n + 1>> \in {a} \X DOMAIN collaboration'[a].auditLog
      BY <3>1
    <3> QED
      BY <1>3, <3>2
  <2> QED
    BY <2>1, <2>2, <2>3
<1>5. <<a, n + 1>> \notin Recorded
  <2> SUFFICES ASSUME <<a, n + 1>> \in Recorded PROVE FALSE
    OBVIOUS
  <2>1. PICK b \in Artists : <<a, n + 1>> \in {b} \X DOMAIN collaboration[b].auditLog
    BY DEF Recorded
  <2>2. b = a /\ n + 1 \in DOMAIN collaboration[b].auditLog
    BY <2>1
  <2> QED
    BY <1>1, <1>2, <2>2
<1> QED
  BY <1>4, <1>5, OneMemberMore

LEMMA CollaborationInitInv == CollaborationInit => CollaborationInv
<1> SUFFICES ASSUME CollaborationInit PROVE CollaborationInv
  OBVIOUS
<1>1. NoCollaboration \in Collaborations /\ NoCollaboration.status = "none"
      /\ NoCollaboration.auditLog = <<>>
  BY DEF NoCollaboration, Collaborations
<1>2. Unserved \in PetitionStates /\ Unserved.at = "new"
  BY <1>1 DEF Unserved, PetitionStates
<1>3. /\ \A a \in Artists : collaboration[a] = NoCollaboration
      /\ \A c \in Petitions : petition[c] = Unserved
      /\ collaboration \in [Artists -> Collaborations] /\ petition \in [Petitions -> PetitionStates]
      /\ saved = {} /\ removedOnce = {} /\ overwrites = 0
  BY <1>1, <1>2 DEF CollaborationInit
<1>4. CollaborationTypeOK
  BY <1>3 DEF CollaborationTypeOK, Collaborations, PetitionStates, Actions
<1>5. Recorded = {}
  <2> SUFFICES ASSUME NEW x \in Recorded PROVE FALSE
    OBVIOUS
  <2>1. PICK a \in Artists : x \in {a} \X DOMAIN collaboration[a].auditLog
    BY DEF Recorded
  <2>2. DOMAIN collaboration[a].auditLog = {}
    BY <1>1, <1>3
  <2> QED
    BY <2>1, <2>2
<1>6. NothingLost
  BY <1>3, <1>5, FS_EmptySet DEF NothingLost
<1>7. \A a \in Artists : LegalRow(collaboration[a])
  BY <1>1, <1>3 DEF LegalRow
<1>8. \A c \in Petitions : RowRead(c)
  BY <1>2, <1>3 DEF RowRead
<1> QED
  BY <1>4, <1>6, <1>7, <1>8 DEF CollaborationInv

\* A request that reads: the row it goes on with is the artist's, or a fresh invitation.
LEMMA ReadsStep ==
    ASSUME CollaborationInv, NEW c \in Petitions, NEW a \in Artists,
           NEW place \in {"insert", "accepted", "rejected", "removed"},
           NEW row \in Collaborations, Reads(c, place, a, row),
           row.status # "none", LegalRow(row),
           place = "insert" => row.auditLog = <<"invited">>,
           place # "removed" => row.status = "invited"
    PROVE  CollaborationInv'
<1> DEFINE t == [at |-> place, artist |-> a, row |-> row]
<1>1. /\ petition[c].at = "new" /\ petition' = [petition EXCEPT ![c] = t]
      /\ UNCHANGED <<collaboration, saved, removedOnce, overwrites>>
  BY DEF Reads
<1>2. t \in PetitionStates /\ t.at = place /\ t.artist = a /\ t.row = row
  BY ActionNames DEF PetitionStates
<1> HIDE DEF t
<1>3. CollaborationTypeOK
  BY DEF CollaborationInv
<1>4. petition' \in [Petitions -> PetitionStates] /\ petition'[c] = t
      /\ \A d \in Petitions : d # c => petition'[d] = petition[d]
  BY <1>1, <1>2, <1>3, CollaborationFacts
<1>5. CollaborationTypeOK'
  BY <1>1, <1>3, <1>4, CollaborationFacts, TypesBack
<1>6. c \notin saved
  BY <1>1 DEF CollaborationInv, RowRead
<1>7. RowRead(c)'
  BY <1>1, <1>2, <1>4, <1>6 DEF RowRead
<1>8. ASSUME NEW d \in Petitions, d # c PROVE RowRead(d)'
  <2>1. RowRead(d) /\ petition'[d] = petition[d]
    BY <1>4, <1>8 DEF CollaborationInv
  <2> QED
    BY <1>1, <2>1 DEF RowRead
<1>9. NothingLost'
  BY <1>1 DEF CollaborationInv, NothingLost, Recorded
<1>10. (\A b \in Artists : LegalRow(collaboration[b]))'
  BY <1>1 DEF CollaborationInv, LegalRow
<1> QED
  BY <1>5, <1>7, <1>8, <1>9, <1>10 DEF CollaborationInv

LEMMA CreateStep ==
    ASSUME CollaborationInv, NEW c \in Petitions, NEW a \in Artists,
           NEW share \in Percentages \cup {NoShare}, createCollaboration(c, a, share)
    PROVE  CollaborationInv'
<1> DEFINE log == <<"invited">>
           row == [status |-> "invited", share |-> share, auditLog |-> log]
<1>1. log \in Seq(Actions) /\ Len(log) = 1 /\ log[1] = "invited"
  BY ActionNames
<1> HIDE DEF log
<1>2. row \in Collaborations /\ row.status = "invited" /\ row.auditLog = log
  BY <1>1 DEF Collaborations, CollaborationStatus
<1>3. Reads(c, "insert", a, row)
  BY DEF createCollaboration, log
<1> HIDE DEF row
<1>4. LegalRow(row)
  <2>1. log[Len(log)] = "invited" /\ 2..Len(log) = {}
    BY <1>1
  <2>2. LegalLog(log, "invited")
    BY <1>1, <2>1, ActionNames DEF LegalLog
  <2> QED
    BY <1>2, <2>2 DEF LegalRow
<1> QED
  BY <1>2, <1>3, <1>4, ReadsStep DEF log

LEMMA RespondStep ==
    ASSUME CollaborationInv, NEW c \in Petitions, NEW a \in Artists,
           NEW answer \in {"accepted", "rejected"}, respondToCollaboration(c, a, answer)
    PROVE  CollaborationInv'
<1>1. collaboration[a] \in Collaborations /\ LegalRow(collaboration[a])
      /\ collaboration[a].status = "invited" /\ Reads(c, answer, a, collaboration[a])
  BY CollaborationFacts DEF CollaborationInv, respondToCollaboration, Pending
<1> QED
  BY <1>1, ReadsStep

LEMMA RemoveStep ==
    ASSUME CollaborationInv, NEW c \in Petitions, NEW a \in Artists, removeCollaboration(c, a)
    PROVE  CollaborationInv'
<1>1. collaboration[a] \in Collaborations /\ LegalRow(collaboration[a])
      /\ collaboration[a].status # "none" /\ Reads(c, "removed", a, collaboration[a])
  BY CollaborationFacts DEF CollaborationInv, removeCollaboration
<1> QED
  BY <1>1, ReadsStep

\* A request that commits a legal row: every other row and request is as it was.
LEMMA CommitsKeep ==
    ASSUME CollaborationInv, NEW c \in Petitions, NEW row \in Collaborations, Commits(c, row),
           petition[c].at \notin {"new", "done"}, row.status # "none", LegalRow(row),
           removedOnce' \subseteq Artists, overwrites' \in Nat
    PROVE  /\ CollaborationTypeOK'
           /\ (\A a \in Artists : LegalRow(collaboration[a]))'
           /\ \A d \in Petitions : RowRead(d)'
           /\ petition[c].artist \in Artists /\ c \notin saved
           /\ collaboration' = [collaboration EXCEPT ![petition[c].artist] = row]
           /\ collaboration'[petition[c].artist] = row
           /\ \A b \in Artists : b # petition[c].artist => collaboration'[b] = collaboration[b]
           /\ saved' = saved \cup {c}
<1> DEFINE a == petition[c].artist
           t == [Unserved EXCEPT !.at = "done"]
<1>1. /\ collaboration' = [collaboration EXCEPT ![a] = row]
      /\ petition' = [petition EXCEPT ![c] = t] /\ saved' = saved \cup {c}
  BY DEF Commits
<1>2. a \in Artists /\ c \notin saved
  BY DEF CollaborationInv, RowRead
<1>3. CollaborationTypeOK
  BY DEF CollaborationInv
<1>4. t \in PetitionStates /\ t.at = "done"
  <2>1. NoCollaboration \in Collaborations
    BY DEF NoCollaboration, Collaborations
  <2>2. Unserved \in PetitionStates
    BY <2>1 DEF Unserved, PetitionStates
  <2> QED
    BY <2>2 DEF PetitionStates
<1> HIDE DEF t, a
<1>5. /\ collaboration' \in [Artists -> Collaborations] /\ collaboration'[a] = row
      /\ \A b \in Artists : b # a => collaboration'[b] = collaboration[b]
      /\ petition' \in [Petitions -> PetitionStates] /\ petition'[c] = t
      /\ \A d \in Petitions : d # c => petition'[d] = petition[d]
  BY <1>1, <1>2, <1>3, <1>4, CollaborationFacts
<1>6. CollaborationTypeOK'
  BY <1>1, <1>3, <1>5, CollaborationFacts, TypesBack
<1>7. ASSUME NEW b \in Artists PROVE LegalRow(collaboration[b])'
  <2>1. LegalRow(collaboration'[b])
    BY <1>5 DEF CollaborationInv
  <2> QED
    BY <2>1 DEF LegalRow, LegalLog
<1>8. ASSUME NEW d \in Petitions PROVE RowRead(d)'
  <2>1. CASE d = c
    BY <1>4, <1>5, <2>1 DEF RowRead
  <2>2. CASE d # c
    <3>1. RowRead(d) /\ petition'[d] = petition[d] /\ (d \in saved' => d \in saved)
      BY <1>1, <1>5, <2>2 DEF CollaborationInv
    <3> QED
      BY <3>1 DEF RowRead
  <2> QED
    BY <2>1, <2>2
<1> QED
  BY <1>1, <1>2, <1>5, <1>6, <1>7, <1>8 DEF a

\* A commit that adds one entry to the artist's log adds one request and one entry.
LEMMA OneSaveMore ==
    ASSUME CollaborationInv, NEW c \in Petitions, c \notin saved, saved' = saved \cup {c},
           NEW a \in Artists, NEW row \in Collaborations,
           collaboration' = [collaboration EXCEPT ![a] = row],
           Len(row.auditLog) = Len(collaboration[a].auditLog) + 1,
           overwrites = 0,
           \A b \in removedOnce' : collaboration'[b].status = "removed"
    PROVE  NothingLost'
<1>1. /\ IsFiniteSet(Recorded) /\ IsFiniteSet(saved) /\ Cardinality(Recorded) = Cardinality(saved)
      /\ collaboration \in [Artists -> Collaborations]
  BY CollaborationFacts DEF CollaborationInv, NothingLost
<1>2. IsFiniteSet(Recorded') /\ Cardinality(Recorded') = Cardinality(Recorded) + 1
  BY <1>1, OneEntryMore
<1>3. IsFiniteSet(saved') /\ Cardinality(saved') = Cardinality(saved) + 1
  BY <1>1, OneMemberMore
<1>4. (Cardinality(Recorded))' = (Cardinality(saved))'
  BY <1>1, <1>2, <1>3
<1> QED
  BY <1>2, <1>3, <1>4 DEF NothingLost

LEMMA InsertCollaborationStep ==
    ASSUME CollaborationInv, NEW c \in Petitions, InsertCollaboration(c)
    PROVE  CollaborationInv'
<1> DEFINE a == petition[c].artist
           row == petition[c].row
<1>1. /\ petition[c].at = "insert" /\ collaboration[a] = NoCollaboration /\ Commits(c, row)
      /\ UNCHANGED <<removedOnce, overwrites>>
  BY DEF InsertCollaboration
<1>2. row \in Collaborations /\ overwrites \in Nat /\ removedOnce \subseteq Artists
  BY CollaborationFacts DEF CollaborationInv, PetitionStates
<1>3. /\ row.status = "invited" /\ row.auditLog = <<"invited">> /\ LegalRow(row) /\ row.status # "none"
  BY <1>1 DEF CollaborationInv, RowRead
<1> HIDE DEF row
<1>4. /\ CollaborationTypeOK'
      /\ (\A b \in Artists : LegalRow(collaboration[b]))'
      /\ \A d \in Petitions : RowRead(d)'
      /\ a \in Artists /\ c \notin saved /\ saved' = saved \cup {c}
      /\ collaboration' = [collaboration EXCEPT ![a] = row] /\ collaboration'[a] = row
      /\ \A b \in Artists : b # a => collaboration'[b] = collaboration[b]
  BY <1>1, <1>2, <1>3, CommitsKeep
<1> HIDE DEF a
<1>5. NothingLost'
  <2>1. CASE overwrites # 0
    BY <1>1, <2>1 DEF NothingLost
  <2>2. CASE overwrites = 0
    <3>1. Len(collaboration[a].auditLog) = 0 /\ Len(row.auditLog) = 1
      BY <1>1, <1>3 DEF NoCollaboration
    <3>2. collaboration[a].status # "removed"
      BY <1>1 DEF NoCollaboration
    <3>3. \A b \in removedOnce : collaboration'[b].status = "removed"
      BY <1>2, <1>4, <2>2, <3>2 DEF CollaborationInv, NothingLost
    <3>4. Len(row.auditLog) = Len(collaboration[a].auditLog) + 1
      BY <3>1
    <3>5. \A b \in removedOnce' : collaboration'[b].status = "removed"
      BY <1>1, <3>3
    <3> QED
      BY <1>2, <1>4, <2>2, <3>4, <3>5, OneSaveMore
  <2> QED
    BY <2>1, <2>2
<1> QED
  BY <1>4, <1>5 DEF CollaborationInv

LEMMA SaveCollaborationStep ==
    ASSUME CollaborationInv, NEW c \in Petitions, SaveCollaboration(c)
    PROVE  CollaborationInv'
<1> DEFINE a == petition[c].artist
           action == petition[c].at
           old == petition[c].row
           log == Append(old.auditLog, action)
           status == StatusAfter[action]
           row == [old EXCEPT !.status = status, !.auditLog = log]
<1>1. /\ action \in {"accepted", "rejected", "removed"} /\ Commits(c, row)
      /\ removedOnce' = IF action = "removed" THEN removedOnce \cup {a} ELSE removedOnce
      /\ overwrites' = IF collaboration[a] = old THEN overwrites ELSE overwrites + 1
  BY DEF SaveCollaboration
<1>2. old \in Collaborations /\ overwrites \in Nat /\ removedOnce \subseteq Artists
  BY CollaborationFacts DEF CollaborationInv, PetitionStates
<1>3. /\ old.status # "none" /\ LegalRow(old) /\ (action # "removed" => old.status = "invited")
      /\ a \in Artists
  BY <1>1 DEF CollaborationInv, RowRead
<1>4. LegalLog(old.auditLog, old.status) /\ old.auditLog \in Seq(Actions)
  BY <1>2, <1>3 DEF LegalRow, Collaborations
<1>5. log \in Seq(Actions) /\ Len(log) = Len(old.auditLog) + 1 /\ LegalLog(log, status)
  BY <1>1, <1>3, <1>4, LogGoesOn
<1>6. status \in CollaborationStatus /\ status # "none"
  BY <1>1, ActionNames
<1>7. action = "removed" <=> status = "removed"
  BY <1>1, ActionNames
<1> HIDE DEF log, status
<1>8. row \in Collaborations /\ row.status = status /\ row.auditLog = log
  BY <1>2, <1>5, <1>6 DEF Collaborations
<1> HIDE DEF row
<1>9. LegalRow(row)
  BY <1>5, <1>6, <1>8 DEF LegalRow
<1>10. removedOnce' \subseteq Artists /\ overwrites' \in Nat
  BY <1>1, <1>2, <1>3
<1>11. /\ CollaborationTypeOK'
       /\ (\A b \in Artists : LegalRow(collaboration[b]))'
       /\ \A d \in Petitions : RowRead(d)'
       /\ c \notin saved /\ saved' = saved \cup {c}
       /\ collaboration' = [collaboration EXCEPT ![a] = row] /\ collaboration'[a] = row
       /\ \A b \in Artists : b # a => collaboration'[b] = collaboration[b]
  BY <1>1, <1>6, <1>8, <1>9, <1>10, CommitsKeep
<1> HIDE DEF a, old, action
<1>12. NothingLost'
  <2>1. CASE overwrites' # 0
    BY <2>1 DEF NothingLost
  <2>2. CASE overwrites' = 0
    <3>1. collaboration[a] = old /\ overwrites = 0
      BY <1>1, <1>2, <2>2
    <3>2. Len(row.auditLog) = Len(collaboration[a].auditLog) + 1
      BY <1>5, <1>8, <3>1
    <3>3. \A b \in removedOnce : collaboration[b].status = "removed"
      BY <3>1 DEF CollaborationInv, NothingLost
    <3>4. ASSUME NEW b \in removedOnce' PROVE collaboration'[b].status = "removed"
      <4>1. CASE action = "removed"
        BY <1>1, <1>2, <1>7, <1>8, <1>11, <3>3, <4>1
      <4>2. CASE action # "removed"
        <5>1. b \in removedOnce /\ old.status = "invited"
          BY <1>1, <1>3, <4>2
        <5>2. b # a
          BY <3>1, <3>3, <5>1
        <5> QED
          BY <1>2, <1>11, <3>3, <5>1, <5>2
      <4> QED
        BY <4>1, <4>2
    <3> QED
      BY <1>3, <1>8, <1>11, <3>1, <3>2, <3>4, OneSaveMore
  <2> QED
    BY <2>1, <2>2
<1> QED
  BY <1>11, <1>12 DEF CollaborationInv

LEMMA RollBackPetitionStep ==
    ASSUME CollaborationInv, NEW c \in Petitions, RollBackPetition(c)
    PROVE  CollaborationInv'
<1> DEFINE t == [Unserved EXCEPT !.at = "done"]
<1>1. petition' = [petition EXCEPT ![c] = t]
      /\ UNCHANGED <<collaboration, saved, removedOnce, overwrites>>
  BY DEF RollBackPetition
<1>2. t \in PetitionStates /\ t.at = "done"
  <2>1. NoCollaboration \in Collaborations
    BY DEF NoCollaboration, Collaborations
  <2>2. Unserved \in PetitionStates
    BY <2>1 DEF Unserved, PetitionStates
  <2> QED
    BY <2>2 DEF PetitionStates
<1> HIDE DEF t
<1>3. CollaborationTypeOK
  BY DEF CollaborationInv
<1>4. petition' \in [Petitions -> PetitionStates] /\ petition'[c] = t
      /\ \A d \in Petitions : d # c => petition'[d] = petition[d]
  BY <1>1, <1>2, <1>3, CollaborationFacts
<1>5. CollaborationTypeOK'
  BY <1>1, <1>3, <1>4, CollaborationFacts, TypesBack
<1>6. ASSUME NEW d \in Petitions PROVE RowRead(d)'
  <2>1. CASE d = c
    BY <1>2, <1>4, <2>1 DEF RowRead
  <2>2. CASE d # c
    <3>1. RowRead(d) /\ petition'[d] = petition[d]
      BY <1>4, <2>2 DEF CollaborationInv
    <3> QED
      BY <1>1, <3>1 DEF RowRead
  <2> QED
    BY <2>1, <2>2
<1>7. NothingLost'
  BY <1>1 DEF CollaborationInv, NothingLost, Recorded
<1>8. (\A b \in Artists : LegalRow(collaboration[b]))'
  BY <1>1 DEF CollaborationInv, LegalRow
<1> QED
  BY <1>5, <1>6, <1>7, <1>8 DEF CollaborationInv

LEMMA CollaborationStepInv ==
    CollaborationInv /\ [CollaborationNext]_collaborationVars => CollaborationInv'
<1> SUFFICES ASSUME CollaborationInv, [CollaborationNext]_collaborationVars PROVE CollaborationInv'
  OBVIOUS
<1>1. ASSUME NEW c \in Petitions, NEW a \in Artists, NEW share \in Percentages \cup {NoShare},
             createCollaboration(c, a, share)
      PROVE  CollaborationInv'
  BY <1>1, CreateStep
<1>2. ASSUME NEW c \in Petitions, NEW a \in Artists, NEW answer \in {"accepted", "rejected"},
             respondToCollaboration(c, a, answer)
      PROVE  CollaborationInv'
  BY <1>2, RespondStep
<1>3. ASSUME NEW c \in Petitions, NEW a \in Artists, removeCollaboration(c, a)
      PROVE  CollaborationInv'
  BY <1>3, RemoveStep
<1>4. ASSUME NEW c \in Petitions, InsertCollaboration(c) PROVE CollaborationInv'
  BY <1>4, InsertCollaborationStep
<1>5. ASSUME NEW c \in Petitions, SaveCollaboration(c) PROVE CollaborationInv'
  BY <1>5, SaveCollaborationStep
<1>6. ASSUME NEW c \in Petitions, RollBackPetition(c) PROVE CollaborationInv'
  BY <1>6, RollBackPetitionStep
<1>7. CASE UNCHANGED collaborationVars
  <2>1. UNCHANGED <<collaboration, petition, saved, removedOnce, overwrites>>
    BY <1>7 DEF collaborationVars
  <2>2. CollaborationTypeOK'
    BY <2>1 DEF CollaborationInv, CollaborationTypeOK
  <2>3. (\A b \in Artists : LegalRow(collaboration[b]))'
    BY <2>1 DEF CollaborationInv, LegalRow
  <2>4. (\A d \in Petitions : RowRead(d))'
    BY <2>1 DEF CollaborationInv, RowRead
  <2>5. NothingLost'
    BY <2>1 DEF CollaborationInv, NothingLost, Recorded
  <2> QED
    BY <2>2, <2>3, <2>4, <2>5 DEF CollaborationInv
<1> QED
  BY <1>1, <1>2, <1>3, <1>4, <1>5, <1>6, <1>7 DEF CollaborationNext

\* LogsReadRight for any number of artists and requests, however they overtake each other.
THEOREM AuditLogsReadRight == CollaborationSpec => []LogsReadRight
<1>1. CollaborationInv => LogsReadRight
  <2> SUFFICES ASSUME CollaborationInv PROVE LogsReadRight
    OBVIOUS
  <2>1. ASSUME NEW a \in Artists, collaboration[a].auditLog # <<>>
        PROVE  LegalLog(collaboration[a].auditLog, collaboration[a].status)
    <3>1. LegalRow(collaboration[a])
      BY DEF CollaborationInv
    <3> QED
      BY <2>1, <3>1 DEF LegalRow, NoCollaboration
  <2>2. overwrites = 0 => /\ Cardinality(Recorded) = Cardinality(saved)
                          /\ \A a \in removedOnce : collaboration[a].status = "removed"
    BY DEF CollaborationInv, NothingLost
  <2> QED
    BY <2>1, <2>2 DEF LogsReadRight, LegalLog
<1> QED
  BY <1>1, CollaborationInitInv, CollaborationStepInv, PTL DEF CollaborationSpec

-----------------------------------------------------------------------------
(* Archiving *)

DeedStates ==
    [at : {"new", "participants", "payments", "delete", "deleted", "split", "archived",
           "check", "write", "paying", "done"},
     reason : {"expired", "other"}, peopled : BOOLEAN, number : Nat, source : Movers \cup {NoOne},
     credited : SUBSET Movers, payments : SUBSET Movers, gone : SUBSET Movers]

\* What every interleaving keeps of the rows.
RowsFit ==
    /\ ~live => ~peopled
    /\ ~peopled => credited = {}
    /\ credited \subseteq settled /\ payments \subseteq settled /\ settled \subseteq Movers
    /\ live \/ Archives # {}

\* What a call has read was written by payments that committed; a payment under way
\* holds the rows of a split that is there; a restore goes on with an archive.
DeedFits(c) ==
    /\ deed[c].credited \subseteq settled /\ deed[c].payments \subseteq settled
    /\ deed[c].gone \subseteq settled
    /\ ~deed[c].peopled => deed[c].credited = {}
    /\ deed[c].number <= starts
    /\ c \in settled => deed[c].at = "done"
    /\ deed[c].at = "paying" => holder = c /\ live /\ peopled
    /\ deed[c].at \in {"check", "write"} =>
         deed[c].source \in Movers /\ deed[deed[c].source].at \in {"archived", "done"}

\* An archive under way that has read the participants.
Reading == {"payments", "delete", "deleted", "split"}

\* While no restore has overlapped an archive: an archive that found no participants
\* leaves them to one that has them; one that did copied the credit of everybody who had
\* paid before it began; and while the split is there its copy is complete, up to what it
\* was copying over, and what it deletes it has copied.
CopyFits(c) ==
    /\ deed[c].at \in Reading /\ ~deed[c].peopled => \E b \in Archives : deed[b].peopled
    /\ deed[c].at \in Reading /\ deed[c].peopled =>
         settled \ (raced \cup overtaken) \subseteq deed[c].credited
    /\ live /\ deed[c].at \in {"payments", "delete"} => settled \ raced \subseteq deed[c].credited
    /\ live /\ deed[c].at = "delete" => settled \ raced \subseteq deed[c].payments
    /\ live /\ deed[c].at \in {"deleted", "split"} =>
         deed[c].gone \ raced \subseteq deed[c].credited \cap deed[c].payments
    /\ live /\ deed[c].at = "split" => holder = c /\ payments \subseteq deed[c].gone

ParticipantsKept == (live /\ peopled) \/ \E b \in Archives : deed[b].peopled
PaymentsKept ==
    \A p \in settled \ raced :
        IF live THEN p \in credited \cap payments
        ELSE \E b \in Archives : p \in deed[b].credited \cap deed[b].payments

\* What holds as long as no restore has overlapped an archive.
ArchivesIntact ==
    /\ ParticipantsKept /\ PaymentsKept /\ wronged \subseteq raced \cup overtaken
    /\ \A c \in Movers : CopyFits(c)

ArchivingInv ==
    /\ ArchivingTypeOK /\ RowsFit
    /\ \A c \in Movers : DeedFits(c)
    /\ ~overrun => ArchivesIntact

LEMMA ArchivingFacts ==
    ASSUME ArchivingTypeOK
    PROVE  /\ live \in BOOLEAN /\ peopled \in BOOLEAN /\ starts \in Nat
           /\ credited \subseteq Movers /\ payments \subseteq Movers
           /\ holder \in Movers \cup {NoOne} /\ penalised \subseteq Movers
           /\ deed \in [Movers -> DeedStates]
BY DEF ArchivingTypeOK, DeedStates

LEMMA ArchivingTypesBack ==
    ASSUME live' \in BOOLEAN, peopled' \in BOOLEAN, starts' \in Nat,
           credited' \subseteq Movers, payments' \subseteq Movers,
           holder' \in Movers \cup {NoOne}, penalised' \subseteq Movers,
           deed' \in [Movers -> DeedStates]
    PROVE  ArchivingTypeOK'
BY DEF ArchivingTypeOK, DeedStates

LEMMA ArchivingInitInv == ArchivingInit => ArchivingInv
<1> SUFFICES ASSUME ArchivingInit PROVE ArchivingInv
  OBVIOUS
<1>1. /\ live = TRUE /\ peopled = TRUE /\ credited = {} /\ payments = {}
      /\ deed = [c \in Movers |-> Fresh] /\ holder = NoOne /\ starts = 0
      /\ penalised = {} /\ settled = {} /\ raced = {} /\ overtaken = {} /\ wronged = {}
      /\ overrun = FALSE
  BY DEF ArchivingInit
<1>2. /\ Fresh \in DeedStates /\ Fresh.at = "new" /\ Fresh.credited = {} /\ Fresh.payments = {}
      /\ Fresh.gone = {} /\ Fresh.number = 0
  BY DEF Fresh, DeedStates
<1>3. ArchivingTypeOK
  <2>1. deed \in [Movers -> DeedStates]
    BY <1>1, <1>2
  <2> QED
    BY <1>1, <2>1 DEF ArchivingTypeOK, DeedStates
<1>4. RowsFit
  BY <1>1 DEF RowsFit
<1>5. \A c \in Movers : DeedFits(c)
  BY <1>1, <1>2 DEF DeedFits
<1>6. \A c \in Movers : CopyFits(c)
  BY <1>1, <1>2 DEF CopyFits, Reading
<1>7. ParticipantsKept /\ PaymentsKept
  BY <1>1 DEF ParticipantsKept, PaymentsKept
<1> QED
  BY <1>1, <1>3, <1>4, <1>5, <1>6, <1>7 DEF ArchivingInv, ArchivesIntact

\* Calls that are not served keep what they hold.
LEMMA OthersFit ==
    ASSUME ArchivingInv, NEW d \in Movers, deed'[d] = deed[d],
           settled \subseteq settled', d \in settled' => d \in settled,
           starts' \in Nat, starts' >= starts,
           deed[d].at = "paying" => holder' = d /\ live' /\ peopled',
           \A b \in Movers : deed[b].at \in {"archived", "done"} => deed'[b].at \in {"archived", "done"}
    PROVE  DeedFits(d)'
<1>1. DeedFits(d) /\ deed[d].number \in Nat /\ starts \in Nat
  BY ArchivingFacts DEF ArchivingInv, DeedStates
<1> QED
  BY <1>1 DEF DeedFits

\* One call moves on to t and changes no rows and no books; it may take or leave the
\* rows' locks.
LEMMA QuietDeed ==
    ASSUME ArchivingInv, NEW c \in Movers, NEW t \in DeedStates,
           deed' = [deed EXCEPT ![c] = t],
           live' = live, peopled' = peopled, credited' = credited, payments' = payments,
           penalised' = penalised, settled' = settled, raced' = raced,
           overtaken' = overtaken, overrun' = overrun, wronged' = wronged,
           starts' \in Nat, starts' >= starts,
           holder' \in Movers \cup {NoOne},
           \A d \in Movers : d # c /\ holder = d => holder' = d,
           deed[c].at \notin {"archived", "done"}, t.at # "archived",
           t.credited \subseteq settled, t.payments \subseteq settled, t.gone \subseteq settled,
           ~t.peopled => t.credited = {},
           t.number <= starts',
           t.at = "paying" => holder' = c /\ live /\ peopled,
           t.at \in {"check", "write"} =>
             t.source \in Movers /\ deed[t.source].at \in {"archived", "done"},
           ~overrun /\ t.at \in Reading =>
             /\ ~t.peopled => \E b \in Archives : deed[b].peopled
             /\ t.peopled => settled \ (raced \cup overtaken) \subseteq t.credited
             /\ live /\ t.at \in {"payments", "delete"} => settled \ raced \subseteq t.credited
             /\ live /\ t.at = "delete" => settled \ raced \subseteq t.payments
             /\ live /\ t.at \in {"deleted", "split"} =>
                  t.gone \ raced \subseteq t.credited \cap t.payments
             /\ live /\ t.at = "split" => holder' = c /\ payments \subseteq t.gone
    PROVE  ArchivingInv'
<1>1. ArchivingTypeOK /\ deed \in [Movers -> DeedStates] /\ starts \in Nat
  BY ArchivingFacts DEF ArchivingInv
<1>2. /\ deed' \in [Movers -> DeedStates] /\ deed'[c] = t
      /\ \A d \in Movers : d # c => deed'[d] = deed[d]
  BY <1>1
<1>3. ArchivingTypeOK'
  BY <1>1, <1>2, ArchivingFacts, ArchivingTypesBack
<1>4. Archives' = Archives /\ c \notin Archives
  BY <1>2 DEF Archives, At
<1>5. RowsFit'
  BY <1>4 DEF ArchivingInv, RowsFit
<1>6. c \notin settled
  BY DEF ArchivingInv, DeedFits
<1>7. \A b \in Movers : deed[b].at \in {"archived", "done"} => deed'[b].at \in {"archived", "done"}
  BY <1>2
<1>8. DeedFits(c)'
  <2>1. t.at \in {"check", "write"} => t.source \in Movers /\ deed'[t.source].at \in {"archived", "done"}
    BY <1>7
  <2> QED
    BY <1>2, <1>6, <2>1 DEF DeedFits
<1>9. ASSUME NEW d \in Movers, d # c PROVE DeedFits(d)'
  <2>1. deed[d].at = "paying" => holder' = d /\ live' /\ peopled'
    BY <1>9 DEF ArchivingInv, DeedFits
  <2> QED
    BY <1>2, <1>7, <1>9, <2>1, OthersFit
<1>10. ASSUME ~overrun PROVE ArchivesIntact'
  <2>1. \A b \in Archives : b \in Movers /\ deed'[b] = deed[b]
    BY <1>2, <1>4 DEF Archives
  <2>2. ParticipantsKept'
    BY <1>4, <1>10, <2>1 DEF ArchivingInv, ArchivesIntact, ParticipantsKept
  <2>3. PaymentsKept'
    BY <1>4, <1>10, <2>1 DEF ArchivingInv, ArchivesIntact, PaymentsKept
  <2>4. wronged' \subseteq raced' \cup overtaken'
    BY <1>10 DEF ArchivingInv, ArchivesIntact
  <2>5. CopyFits(c)'
    <3>1. t.at \in Reading /\ ~t.peopled => \E b \in Archives' : deed'[b].peopled
      BY <1>4, <1>10, <2>1
    <3> QED
      BY <1>2, <1>10, <3>1 DEF CopyFits, Reading
  <2>6. ASSUME NEW d \in Movers, d # c PROVE CopyFits(d)'
    <3>1. CopyFits(d) /\ deed'[d] = deed[d]
      BY <1>2, <1>10, <2>6 DEF ArchivingInv, ArchivesIntact
    <3>2. deed[d].at \in Reading /\ ~deed[d].peopled => \E b \in Archives' : deed'[b].peopled
      BY <1>4, <2>1, <3>1 DEF CopyFits
    <3> QED
      BY <2>6, <3>1, <3>2 DEF CopyFits
  <2> QED
    BY <2>2, <2>3, <2>4, <2>5, <2>6 DEF ArchivesIntact
<1> QED
  BY <1>3, <1>5, <1>8, <1>9, <1>10 DEF ArchivingInv

\* What a call's own entry is known to be.
LEMMA DeedFacts ==
    ASSUME ArchivingInv, NEW c \in Movers
    PROVE  /\ deed \in [Movers -> DeedStates] /\ deed[c] \in DeedStates
           /\ starts \in Nat /\ holder \in Movers \cup {NoOne} /\ NoOne \notin Movers
           /\ DeedFits(c) /\ RowsFit
           /\ ~overrun => /\ CopyFits(c) /\ ParticipantsKept /\ PaymentsKept
BY ArchivingFacts, ArchivingConstants DEF ArchivingInv, ArchivesIntact

\* Moving on without changing what was read.
LEMMA Relocated ==
    ASSUME ArchivingInv, NEW c \in Movers, NEW place, MoveOn(c, place),
           place \in {"new", "participants", "payments", "delete", "deleted", "split", "archived",
                      "check", "write", "paying", "done"}
    PROVE  \E t \in DeedStates :
             /\ deed' = [deed EXCEPT ![c] = t] /\ t.at = place
             /\ t.credited = deed[c].credited /\ t.payments = deed[c].payments
             /\ t.gone = deed[c].gone /\ t.peopled = deed[c].peopled
             /\ t.number = deed[c].number /\ t.source = deed[c].source /\ t.reason = deed[c].reason
<1> DEFINE t == [deed[c] EXCEPT !.at = place]
<1>1. deed \in [Movers -> DeedStates] /\ deed[c] \in DeedStates
  BY DeedFacts
<1>2. t \in DeedStates /\ deed' = [deed EXCEPT ![c] = t]
  BY <1>1 DEF DeedStates, MoveOn
<1> QED
  BY <1>1, <1>2 DEF DeedStates

\* Calls that end, and release what they hold.
LEMMA EndingStep ==
    ASSUME ArchivingInv, NEW c \in Movers, MoveOn(c, "done"),
           deed[c].at \notin {"archived", "done"},
           UNCHANGED <<rowVars, bookVars, starts>>, holder' = holder \/ Release(c)
    PROVE  ArchivingInv'
<1>1. PICK t \in DeedStates :
        /\ deed' = [deed EXCEPT ![c] = t] /\ t.at = "done"
        /\ t.credited = deed[c].credited /\ t.payments = deed[c].payments
        /\ t.gone = deed[c].gone /\ t.peopled = deed[c].peopled /\ t.number = deed[c].number
  BY Relocated
<1>2. /\ live' = live /\ peopled' = peopled /\ credited' = credited /\ payments' = payments
      /\ penalised' = penalised /\ settled' = settled /\ raced' = raced
      /\ overtaken' = overtaken /\ overrun' = overrun /\ wronged' = wronged /\ starts' = starts
  BY DEF rowVars, bookVars
<1>3. holder' \in Movers \cup {NoOne} /\ \A d \in Movers : d # c /\ holder = d => holder' = d
  BY DeedFacts DEF Release
<1>4. DeedFits(c) /\ starts \in Nat
  BY DeedFacts
<1>5. t.at \notin Reading
  BY <1>1 DEF Reading
<1>6. /\ t.credited \subseteq settled /\ t.payments \subseteq settled /\ t.gone \subseteq settled
      /\ (~t.peopled => t.credited = {}) /\ t.number <= starts' /\ starts' \in Nat /\ starts' >= starts
  BY <1>1, <1>2, <1>4 DEF DeedFits
<1> QED
  BY <1>1, <1>2, <1>3, <1>5, <1>6, QuietDeed

LEMMA LockSplitStep ==
    ASSUME ArchivingInv, NEW c \in Movers, LockSplit(c)
    PROVE  ArchivingInv'
<1>1. /\ deed[c].at = "new" /\ live /\ peopled /\ holder = NoOne /\ holder' = c
      /\ MoveOn(c, "paying") /\ UNCHANGED <<rowVars, bookVars, starts>>
  BY DEF LockSplit, At
<1>2. PICK t \in DeedStates :
        /\ deed' = [deed EXCEPT ![c] = t] /\ t.at = "paying"
        /\ t.credited = deed[c].credited /\ t.payments = deed[c].payments
        /\ t.gone = deed[c].gone /\ t.peopled = deed[c].peopled /\ t.number = deed[c].number
  BY <1>1, Relocated
<1>3. /\ live' = live /\ peopled' = peopled /\ credited' = credited /\ payments' = payments
      /\ penalised' = penalised /\ settled' = settled /\ raced' = raced
      /\ overtaken' = overtaken /\ overrun' = overrun /\ wronged' = wronged /\ starts' = starts
  BY <1>1 DEF rowVars, bookVars
<1>4. DeedFits(c) /\ starts \in Nat /\ NoOne \notin Movers
  BY DeedFacts
<1>5. holder' \in Movers \cup {NoOne} /\ \A d \in Movers : d # c /\ holder = d => holder' = d
  BY <1>1, <1>4
<1>6. t.at \notin Reading
  BY <1>2 DEF Reading
<1>7. /\ t.credited \subseteq settled /\ t.payments \subseteq settled /\ t.gone \subseteq settled
      /\ (~t.peopled => t.credited = {}) /\ t.number <= starts' /\ starts' \in Nat /\ starts' >= starts
  BY <1>2, <1>3, <1>4 DEF DeedFits
<1> QED
  BY <1>1, <1>2, <1>3, <1>5, <1>6, <1>7, QuietDeed

LEMMA ArchiveSplitStep ==
    ASSUME ArchivingInv, NEW c \in Movers, NEW reason \in {"expired", "other"},
           archiveSplit(c, reason)
    PROVE  ArchivingInv'
<1> DEFINE n == starts + 1
           t == [deed[c] EXCEPT !.at = "participants", !.reason = reason, !.number = n]
<1>1. /\ deed[c].at = "new" /\ starts' = n /\ holder' = holder
      /\ deed' = [deed EXCEPT ![c].at = "participants", ![c].reason = reason, ![c].number = n]
      /\ UNCHANGED <<rowVars, bookVars>>
  BY DEF archiveSplit, At
<1>2. deed \in [Movers -> DeedStates] /\ deed[c] \in DeedStates /\ DeedFits(c) /\ starts \in Nat
      /\ holder \in Movers \cup {NoOne}
  BY DeedFacts
<1>3. n \in Nat /\ n >= starts
  BY <1>2
<1> HIDE DEF n
<1>4. /\ t \in DeedStates /\ deed' = [deed EXCEPT ![c] = t] /\ t.at = "participants"
      /\ t.credited = deed[c].credited /\ t.payments = deed[c].payments
      /\ t.gone = deed[c].gone /\ t.peopled = deed[c].peopled /\ t.number = n
  BY <1>1, <1>2, <1>3 DEF DeedStates
<1> HIDE DEF t
<1>5. /\ live' = live /\ peopled' = peopled /\ credited' = credited /\ payments' = payments
      /\ penalised' = penalised /\ settled' = settled /\ raced' = raced
      /\ overtaken' = overtaken /\ overrun' = overrun /\ wronged' = wronged
  BY <1>1 DEF rowVars, bookVars
<1>6. t.at \notin Reading
  BY <1>4 DEF Reading
<1>7. /\ t.credited \subseteq settled /\ t.payments \subseteq settled /\ t.gone \subseteq settled
      /\ (~t.peopled => t.credited = {}) /\ t.number <= starts'
  BY <1>1, <1>2, <1>3, <1>4 DEF DeedFits
<1> QED
  BY <1>1, <1>2, <1>3, <1>4, <1>5, <1>6, <1>7, QuietDeed

LEMMA FindParticipantsStep ==
    ASSUME ArchivingInv, NEW c \in Movers, FindParticipants(c)
    PROVE  ArchivingInv'
<1> DEFINE t == [deed[c] EXCEPT !.at = "payments", !.peopled = peopled, !.credited = credited]
<1>1. /\ deed[c].at = "participants" /\ starts' = starts /\ holder' = holder
      /\ deed' = [deed EXCEPT ![c].at = "payments", ![c].peopled = peopled, ![c].credited = credited]
      /\ UNCHANGED <<rowVars, bookVars>>
  BY DEF FindParticipants, At
<1>2. deed \in [Movers -> DeedStates] /\ deed[c] \in DeedStates /\ DeedFits(c) /\ starts \in Nat
      /\ holder \in Movers \cup {NoOne} /\ RowsFit
      /\ (~overrun => ParticipantsKept /\ PaymentsKept)
  BY DeedFacts
<1>3. peopled \in BOOLEAN /\ credited \subseteq Movers /\ live \in BOOLEAN
  BY ArchivingFacts DEF ArchivingInv
<1>4. /\ t \in DeedStates /\ deed' = [deed EXCEPT ![c] = t] /\ t.at = "payments"
      /\ t.credited = credited /\ t.payments = deed[c].payments
      /\ t.gone = deed[c].gone /\ t.peopled = peopled /\ t.number = deed[c].number
  BY <1>1, <1>2, <1>3 DEF DeedStates
<1> HIDE DEF t
<1>5. /\ live' = live /\ peopled' = peopled /\ credited' = credited /\ payments' = payments
      /\ penalised' = penalised /\ settled' = settled /\ raced' = raced
      /\ overtaken' = overtaken /\ overrun' = overrun /\ wronged' = wronged
  BY <1>1 DEF rowVars, bookVars
<1>6. /\ t.credited \subseteq settled /\ t.payments \subseteq settled /\ t.gone \subseteq settled
      /\ (~t.peopled => t.credited = {}) /\ t.number <= starts'
  BY <1>1, <1>2, <1>4 DEF DeedFits, RowsFit
<1>7. ASSUME ~overrun
      PROVE  /\ ~peopled => \E b \in Archives : deed[b].peopled
             /\ live => settled \ raced \subseteq credited
             /\ peopled => settled \ (raced \cup overtaken) \subseteq credited
  BY <1>2, <1>7 DEF ParticipantsKept, PaymentsKept, RowsFit
<1>8. ~overrun /\ t.at \in Reading =>
        /\ ~t.peopled => \E b \in Archives : deed[b].peopled
        /\ t.peopled => settled \ (raced \cup overtaken) \subseteq t.credited
        /\ live /\ t.at \in {"payments", "delete"} => settled \ raced \subseteq t.credited
        /\ live /\ t.at = "delete" => settled \ raced \subseteq t.payments
        /\ live /\ t.at \in {"deleted", "split"} =>
             t.gone \ raced \subseteq t.credited \cap t.payments
        /\ live /\ t.at = "split" => holder' = c /\ payments \subseteq t.gone
  BY <1>4, <1>7
<1>9. /\ starts' \in Nat /\ starts' >= starts /\ holder' \in Movers \cup {NoOne}
      /\ \A d \in Movers : d # c /\ holder = d => holder' = d
      /\ deed[c].at \notin {"archived", "done"}
      /\ t.at \notin {"archived", "paying", "check", "write"}
  BY <1>1, <1>2, <1>4
<1> QED
  BY <1>4, <1>5, <1>6, <1>8, <1>9, QuietDeed

LEMMA FindPaymentsStep ==
    ASSUME ArchivingInv, NEW c \in Movers, FindPayments(c)
    PROVE  ArchivingInv'
<1> DEFINE t == [deed[c] EXCEPT !.at = "delete", !.payments = payments]
<1>1. /\ deed[c].at = "payments" /\ starts' = starts /\ holder' = holder
      /\ deed' = [deed EXCEPT ![c].at = "delete", ![c].payments = payments]
      /\ UNCHANGED <<rowVars, bookVars>>
  BY DEF FindPayments, At
<1>2. deed \in [Movers -> DeedStates] /\ deed[c] \in DeedStates /\ DeedFits(c) /\ starts \in Nat
      /\ holder \in Movers \cup {NoOne} /\ RowsFit
      /\ (~overrun => CopyFits(c) /\ PaymentsKept)
  BY DeedFacts
<1>3. payments \subseteq Movers
  BY ArchivingFacts DEF ArchivingInv
<1>4. /\ t \in DeedStates /\ deed' = [deed EXCEPT ![c] = t] /\ t.at = "delete"
      /\ t.credited = deed[c].credited /\ t.payments = payments
      /\ t.gone = deed[c].gone /\ t.peopled = deed[c].peopled /\ t.number = deed[c].number
  BY <1>1, <1>2, <1>3 DEF DeedStates
<1> HIDE DEF t
<1>5. /\ live' = live /\ peopled' = peopled /\ credited' = credited /\ payments' = payments
      /\ penalised' = penalised /\ settled' = settled /\ raced' = raced
      /\ overtaken' = overtaken /\ overrun' = overrun /\ wronged' = wronged
  BY <1>1 DEF rowVars, bookVars
<1>6. /\ t.credited \subseteq settled /\ t.payments \subseteq settled /\ t.gone \subseteq settled
      /\ (~t.peopled => t.credited = {}) /\ t.number <= starts'
  BY <1>1, <1>2, <1>4 DEF DeedFits, RowsFit
<1>7. ASSUME ~overrun
      PROVE  /\ ~deed[c].peopled => \E b \in Archives : deed[b].peopled
             /\ deed[c].peopled => settled \ (raced \cup overtaken) \subseteq deed[c].credited
             /\ live => settled \ raced \subseteq deed[c].credited
             /\ live => settled \ raced \subseteq payments
  BY <1>1, <1>2, <1>7 DEF CopyFits, PaymentsKept, Reading
<1>8. ~overrun /\ t.at \in Reading =>
        /\ ~t.peopled => \E b \in Archives : deed[b].peopled
        /\ t.peopled => settled \ (raced \cup overtaken) \subseteq t.credited
        /\ live /\ t.at \in {"payments", "delete"} => settled \ raced \subseteq t.credited
        /\ live /\ t.at = "delete" => settled \ raced \subseteq t.payments
        /\ live /\ t.at \in {"deleted", "split"} =>
             t.gone \ raced \subseteq t.credited \cap t.payments
        /\ live /\ t.at = "split" => holder' = c /\ payments \subseteq t.gone
  BY <1>4, <1>7
<1>9. /\ starts' \in Nat /\ starts' >= starts /\ holder' \in Movers \cup {NoOne}
      /\ \A d \in Movers : d # c /\ holder = d => holder' = d
      /\ deed[c].at \notin {"archived", "done"}
      /\ t.at \notin {"archived", "paying", "check", "write"}
  BY <1>1, <1>2, <1>4
<1> QED
  BY <1>4, <1>5, <1>6, <1>8, <1>9, QuietDeed

LEMMA DeletePaymentsStep ==
    ASSUME ArchivingInv, NEW c \in Movers, DeletePayments(c)
    PROVE  ArchivingInv'
<1> DEFINE t == [deed[c] EXCEPT !.at = "deleted", !.gone = payments]
<1>1. /\ deed[c].at = "delete" /\ starts' = starts /\ holder' = holder
      /\ deed' = [deed EXCEPT ![c].at = "deleted", ![c].gone = payments]
      /\ UNCHANGED <<rowVars, bookVars>>
  BY DEF DeletePayments, At
<1>2. deed \in [Movers -> DeedStates] /\ deed[c] \in DeedStates /\ DeedFits(c) /\ starts \in Nat
      /\ holder \in Movers \cup {NoOne} /\ RowsFit
      /\ (~overrun => CopyFits(c))
  BY DeedFacts
<1>3. payments \subseteq Movers
  BY ArchivingFacts DEF ArchivingInv
<1>4. /\ t \in DeedStates /\ deed' = [deed EXCEPT ![c] = t] /\ t.at = "deleted"
      /\ t.credited = deed[c].credited /\ t.payments = deed[c].payments
      /\ t.gone = payments /\ t.peopled = deed[c].peopled /\ t.number = deed[c].number
  BY <1>1, <1>2, <1>3 DEF DeedStates
<1> HIDE DEF t
<1>5. /\ live' = live /\ peopled' = peopled /\ credited' = credited /\ payments' = payments
      /\ penalised' = penalised /\ settled' = settled /\ raced' = raced
      /\ overtaken' = overtaken /\ overrun' = overrun /\ wronged' = wronged
  BY <1>1 DEF rowVars, bookVars
<1>6. /\ t.credited \subseteq settled /\ t.payments \subseteq settled /\ t.gone \subseteq settled
      /\ (~t.peopled => t.credited = {}) /\ t.number <= starts'
  BY <1>1, <1>2, <1>4 DEF DeedFits, RowsFit
<1>7. ASSUME ~overrun
      PROVE  /\ ~deed[c].peopled => \E b \in Archives : deed[b].peopled
             /\ deed[c].peopled => settled \ (raced \cup overtaken) \subseteq deed[c].credited
             /\ live => payments \ raced \subseteq deed[c].credited \cap deed[c].payments
  BY <1>1, <1>2, <1>7 DEF CopyFits, Reading, RowsFit
<1>8. ~overrun /\ t.at \in Reading =>
        /\ ~t.peopled => \E b \in Archives : deed[b].peopled
        /\ t.peopled => settled \ (raced \cup overtaken) \subseteq t.credited
        /\ live /\ t.at \in {"payments", "delete"} => settled \ raced \subseteq t.credited
        /\ live /\ t.at = "delete" => settled \ raced \subseteq t.payments
        /\ live /\ t.at \in {"deleted", "split"} =>
             t.gone \ raced \subseteq t.credited \cap t.payments
        /\ live /\ t.at = "split" => holder' = c /\ payments \subseteq t.gone
  BY <1>4, <1>7
<1>9. /\ starts' \in Nat /\ starts' >= starts /\ holder' \in Movers \cup {NoOne}
      /\ \A d \in Movers : d # c /\ holder = d => holder' = d
      /\ deed[c].at \notin {"archived", "done"}
      /\ t.at \notin {"archived", "paying", "check", "write"}
  BY <1>1, <1>2, <1>4
<1> QED
  BY <1>4, <1>5, <1>6, <1>8, <1>9, QuietDeed

LEMMA DeleteParticipantsStep ==
    ASSUME ArchivingInv, NEW c \in Movers, DeleteParticipants(c)
    PROVE  ArchivingInv'
<1>1. /\ deed[c].at = "deleted" /\ holder = NoOne /\ MoveOn(c, "split")
      /\ (live => payments \subseteq deed[c].gone)
      /\ holder' = IF live THEN c ELSE NoOne
      /\ UNCHANGED <<rowVars, bookVars, starts>>
  BY DEF DeleteParticipants, At, Referred
<1>2. PICK t \in DeedStates :
        /\ deed' = [deed EXCEPT ![c] = t] /\ t.at = "split"
        /\ t.credited = deed[c].credited /\ t.payments = deed[c].payments
        /\ t.gone = deed[c].gone /\ t.peopled = deed[c].peopled /\ t.number = deed[c].number
  BY <1>1, Relocated
<1>3. /\ live' = live /\ peopled' = peopled /\ credited' = credited /\ payments' = payments
      /\ penalised' = penalised /\ settled' = settled /\ raced' = raced
      /\ overtaken' = overtaken /\ overrun' = overrun /\ wronged' = wronged /\ starts' = starts
  BY <1>1 DEF rowVars, bookVars
<1>4. DeedFits(c) /\ starts \in Nat /\ NoOne \notin Movers /\ (~overrun => CopyFits(c))
  BY DeedFacts
<1>5. holder' \in Movers \cup {NoOne} /\ \A d \in Movers : d # c /\ holder = d => holder' = d
  BY <1>1, <1>4
<1>6. /\ t.credited \subseteq settled /\ t.payments \subseteq settled /\ t.gone \subseteq settled
      /\ (~t.peopled => t.credited = {}) /\ t.number <= starts' /\ starts' \in Nat /\ starts' >= starts
  BY <1>2, <1>3, <1>4 DEF DeedFits
<1>7. ASSUME ~overrun
      PROVE  /\ ~deed[c].peopled => \E b \in Archives : deed[b].peopled
             /\ deed[c].peopled => settled \ (raced \cup overtaken) \subseteq deed[c].credited
             /\ live => deed[c].gone \ raced \subseteq deed[c].credited \cap deed[c].payments
  BY <1>1, <1>4, <1>7 DEF CopyFits, Reading
<1>8. live => holder' = c /\ payments \subseteq t.gone
  BY <1>1, <1>2
<1>9. ~overrun /\ t.at \in Reading =>
        /\ ~t.peopled => \E b \in Archives : deed[b].peopled
        /\ t.peopled => settled \ (raced \cup overtaken) \subseteq t.credited
        /\ live /\ t.at \in {"payments", "delete"} => settled \ raced \subseteq t.credited
        /\ live /\ t.at = "delete" => settled \ raced \subseteq t.payments
        /\ live /\ t.at \in {"deleted", "split"} =>
             t.gone \ raced \subseteq t.credited \cap t.payments
        /\ live /\ t.at = "split" => holder' = c /\ payments \subseteq t.gone
  BY <1>2, <1>7, <1>8
<1>10. /\ starts' \in Nat /\ starts' >= starts /\ holder' \in Movers \cup {NoOne}
      /\ \A d \in Movers : d # c /\ holder = d => holder' = d
      /\ deed[c].at \notin {"archived", "done"}
      /\ t.at \notin {"archived", "paying", "check", "write"}
  BY <1>1, <1>2, <1>5, <1>6
<1>11. t \in DeedStates /\ deed' = [deed EXCEPT ![c] = t]
  BY <1>2
<1>12. deed[c].at # "archived" /\ deed[c].at # "done" /\ t.at = "split"
  BY <1>1, <1>2
<1> QED
  BY <1>3, <1>6, <1>9, <1>10, <1>11, <1>12, QuietDeed

\* The archive begun last is one of the archives: their numbers are bounded.
LEMMA LatestExists ==
    ASSUME ArchivingInv, Archives # {}
    PROVE  Latest \in Archives
<1> DEFINE T == {n \in Nat : \E b \in Archives : n = starts - deed[b].number}
<1>1. starts \in Nat /\ \A b \in Archives : b \in Movers /\ deed[b].number \in Nat /\ deed[b].number <= starts
  BY ArchivingFacts DEF ArchivingInv, Archives, DeedFits, DeedStates
<1>2. T # {} /\ T \in SUBSET Nat
  <2>1. PICK b \in Archives : TRUE
    OBVIOUS
  <2>2. starts - deed[b].number \in T
    BY <1>1
  <2> QED
    BY <2>2
<1>3. PICK n \in T : \A m \in T : n <= m
  <2> HIDE DEF T
  <2> QED
    BY <1>2, LeastNat
<1>4. PICK c \in Archives : n = starts - deed[c].number
  OBVIOUS
<1>5. ASSUME NEW b \in Archives PROVE deed[b].number <= deed[c].number
  <2>1. starts - deed[b].number \in T
    BY <1>1
  <2>2. n <= starts - deed[b].number
    BY <1>3, <2>1
  <2> QED
    BY <1>1, <1>4, <2>2
<1> QED
  BY <1>5 DEF Latest

LEMMA RestoreByIdStep ==
    ASSUME ArchivingInv, NEW c \in Movers, restoreSplitByOriginalId(c)
    PROVE  ArchivingInv'
<1> DEFINE a == Latest
           t == [deed[c] EXCEPT !.at = "check", !.source = a]
<1>1. /\ deed[c].at = "new" /\ starts' = starts /\ holder' = holder /\ Archives # {}
      /\ deed' = [deed EXCEPT ![c].at = "check", ![c].source = a]
      /\ UNCHANGED <<rowVars, bookVars>>
  BY DEF restoreSplitByOriginalId, At
<1>2. a \in Movers /\ deed[a].at = "archived"
  BY <1>1, LatestExists DEF Archives, At
<1> HIDE DEF a
<1>3. deed \in [Movers -> DeedStates] /\ deed[c] \in DeedStates /\ DeedFits(c) /\ starts \in Nat
      /\ holder \in Movers \cup {NoOne}
  BY DeedFacts
<1>4. /\ t \in DeedStates /\ deed' = [deed EXCEPT ![c] = t] /\ t.at = "check" /\ t.source = a
      /\ t.credited = deed[c].credited /\ t.payments = deed[c].payments
      /\ t.gone = deed[c].gone /\ t.peopled = deed[c].peopled /\ t.number = deed[c].number
  BY <1>1, <1>2, <1>3 DEF DeedStates
<1> HIDE DEF t
<1>5. /\ live' = live /\ peopled' = peopled /\ credited' = credited /\ payments' = payments
      /\ penalised' = penalised /\ settled' = settled /\ raced' = raced
      /\ overtaken' = overtaken /\ overrun' = overrun /\ wronged' = wronged
  BY <1>1 DEF rowVars, bookVars
<1>6. t.at \notin Reading
  BY <1>4 DEF Reading
<1>7. /\ t.credited \subseteq settled /\ t.payments \subseteq settled /\ t.gone \subseteq settled
      /\ (~t.peopled => t.credited = {}) /\ t.number <= starts'
  BY <1>1, <1>3, <1>4 DEF DeedFits
<1>8. /\ starts' \in Nat /\ starts' >= starts /\ holder' \in Movers \cup {NoOne}
      /\ \A d \in Movers : d # c /\ holder = d => holder' = d
      /\ deed[c].at \notin {"archived", "done"} /\ t.at # "archived" /\ t.at # "paying"
      /\ t.source \in Movers /\ deed[t.source].at \in {"archived", "done"}
  BY <1>1, <1>2, <1>3, <1>4
<1> QED
  BY <1>4, <1>5, <1>6, <1>7, <1>8, QuietDeed

LEMMA RestoreStep ==
    ASSUME ArchivingInv, NEW c \in Movers, restoreSplit(c)
    PROVE  ArchivingInv'
<1>1. /\ deed[c].at = "check" /\ holder' = holder /\ MoveOn(c, "write")
      /\ UNCHANGED <<rowVars, bookVars, starts>>
  BY DEF restoreSplit, At
<1>2. PICK t \in DeedStates :
        /\ deed' = [deed EXCEPT ![c] = t] /\ t.at = "write"
        /\ t.credited = deed[c].credited /\ t.payments = deed[c].payments
        /\ t.gone = deed[c].gone /\ t.peopled = deed[c].peopled /\ t.number = deed[c].number
        /\ t.source = deed[c].source
  BY <1>1, Relocated
<1>3. /\ live' = live /\ peopled' = peopled /\ credited' = credited /\ payments' = payments
      /\ penalised' = penalised /\ settled' = settled /\ raced' = raced
      /\ overtaken' = overtaken /\ overrun' = overrun /\ wronged' = wronged /\ starts' = starts
  BY <1>1 DEF rowVars, bookVars
<1>4. DeedFits(c) /\ starts \in Nat /\ holder \in Movers \cup {NoOne}
  BY DeedFacts
<1>5. t.at \notin Reading
  BY <1>2 DEF Reading
<1>6. /\ t.credited \subseteq settled /\ t.payments \subseteq settled /\ t.gone \subseteq settled
      /\ (~t.peopled => t.credited = {}) /\ t.number <= starts' /\ starts' \in Nat /\ starts' >= starts
      /\ t.source \in Movers /\ deed[t.source].at \in {"archived", "done"}
  BY <1>1, <1>2, <1>3, <1>4 DEF DeedFits
<1> QED
  BY <1>1, <1>2, <1>3, <1>4, <1>5, <1>6, QuietDeed

LEMMA CommitPaymentStep ==
    ASSUME ArchivingInv, NEW c \in Movers, CommitPayment(c)
    PROVE  ArchivingInv'
<1>1. /\ deed[c].at = "paying" /\ MoveOn(c, "done") /\ Release(c)
      /\ credited' = credited \cup {c} /\ payments' = payments \cup {c}
      /\ settled' = settled \cup {c}
      /\ raced' = IF Copying = {} THEN raced ELSE raced \cup {c}
      /\ overtaken' = IF Begun = {} THEN overtaken ELSE overtaken \cup {c}
      /\ UNCHANGED <<live, peopled, penalised, overrun, wronged, starts>>
  BY DEF CommitPayment, At
<1>2. PICK t \in DeedStates :
        /\ deed' = [deed EXCEPT ![c] = t] /\ t.at = "done"
        /\ t.credited = deed[c].credited /\ t.payments = deed[c].payments
        /\ t.gone = deed[c].gone /\ t.peopled = deed[c].peopled /\ t.number = deed[c].number
  BY <1>1, Relocated
<1>3. /\ deed \in [Movers -> DeedStates] /\ DeedFits(c) /\ RowsFit /\ starts \in Nat
      /\ holder \in Movers \cup {NoOne} /\ NoOne \notin Movers
  BY DeedFacts
<1>4. /\ deed' \in [Movers -> DeedStates] /\ deed'[c] = t
      /\ \A d \in Movers : d # c => deed'[d] = deed[d]
  BY <1>2, <1>3
<1>5. holder = c /\ live /\ peopled
  BY <1>1, <1>3 DEF DeedFits
<1>6. ArchivingTypeOK'
  <2>1. ArchivingTypeOK /\ holder' \in Movers \cup {NoOne}
    BY <1>1, <1>3 DEF ArchivingInv, Release
  <2>2. credited' \subseteq Movers /\ payments' \subseteq Movers
    BY <1>1, <2>1, ArchivingFacts
  <2> QED
    BY <1>1, <1>4, <2>1, <2>2, ArchivingFacts, ArchivingTypesBack
<1>7. Archives' = Archives /\ c \notin Archives
  BY <1>1, <1>2, <1>4 DEF Archives, At
<1>8. RowsFit'
  BY <1>1, <1>3, <1>5, <1>7 DEF RowsFit
<1>9. \A b \in Movers : deed[b].at \in {"archived", "done"} => deed'[b].at \in {"archived", "done"}
  BY <1>2, <1>4
<1>10. DeedFits(c)'
  BY <1>1, <1>2, <1>3, <1>4 DEF DeedFits
<1>11. ASSUME NEW d \in Movers, d # c PROVE DeedFits(d)'
  <2>1. deed[d].at # "paying"
    BY <1>5, <1>11 DEF ArchivingInv, DeedFits
  <2>2. settled \subseteq settled' /\ (d \in settled' => d \in settled) /\ starts' \in Nat /\ starts' >= starts
    BY <1>1, <1>3, <1>11
  <2> QED
    BY <1>4, <1>9, <1>11, <2>1, <2>2, OthersFit
<1>12. ASSUME ~overrun PROVE ArchivesIntact'
  <2>1. ArchivesIntact /\ raced \subseteq raced' /\ overtaken \subseteq overtaken'
    BY <1>1, <1>12 DEF ArchivingInv
  <2>2. ParticipantsKept'
    BY <1>1, <1>5 DEF ParticipantsKept
  <2>3. PaymentsKept'
    BY <1>1, <1>5, <2>1 DEF ArchivesIntact, PaymentsKept
  <2>4. wronged' \subseteq raced' \cup overtaken'
    BY <1>1, <2>1 DEF ArchivesIntact
  <2>5. CopyFits(c)'
    BY <1>2, <1>4 DEF CopyFits, Reading
  <2>6. ASSUME NEW d \in Movers, d # c PROVE CopyFits(d)'
    <3>1. CopyFits(d) /\ deed'[d] = deed[d]
      BY <1>4, <2>1, <2>6 DEF ArchivesIntact
    <3>2. deed[d].at \in Reading => c \in overtaken'
      BY <1>1 DEF Reading, Begun, Copying
    <3>3. deed[d].at \in {"payments", "delete"} => c \in raced'
      BY <1>1 DEF Copying
    <3>4. ~(deed[d].at = "split")
      BY <1>5, <2>6, <3>1 DEF CopyFits
    <3>5. deed[d].at \in Reading /\ ~deed[d].peopled => \E b \in Archives' : deed'[b].peopled
      <4>1. \A b \in Archives : deed'[b] = deed[b]
        BY <1>4, <1>7 DEF Archives
      <4> QED
        BY <1>7, <3>1, <4>1 DEF CopyFits
    <3>6. deed[d].at \in Reading /\ deed[d].peopled =>
            settled' \ (raced' \cup overtaken') \subseteq deed[d].credited
      BY <1>1, <2>1, <3>1, <3>2 DEF CopyFits
    <3>7. /\ deed[d].at \in {"payments", "delete"} => settled' \ raced' \subseteq deed[d].credited
          /\ deed[d].at = "delete" => settled' \ raced' \subseteq deed[d].payments
      BY <1>1, <1>5, <2>1, <3>1, <3>3 DEF CopyFits
    <3>8. deed[d].at \in {"deleted", "split"} =>
            deed[d].gone \ raced' \subseteq deed[d].credited \cap deed[d].payments
      BY <1>5, <2>1, <3>1 DEF CopyFits
    <3> QED
      BY <3>1, <3>4, <3>5, <3>6, <3>7, <3>8 DEF CopyFits
  <2> QED
    BY <2>2, <2>3, <2>4, <2>5, <2>6 DEF ArchivesIntact
<1> QED
  BY <1>1, <1>6, <1>8, <1>10, <1>11, <1>12 DEF ArchivingInv

LEMMA DeleteSplitStep ==
    ASSUME ArchivingInv, NEW c \in Movers, DeleteSplit(c)
    PROVE  ArchivingInv'
<1>1. /\ deed[c].at = "split" /\ MoveOn(c, "archived") /\ Release(c)
      /\ holder = c \/ (holder = NoOne /\ ~(live /\ peopled))
      /\ live' = FALSE /\ peopled' = FALSE /\ credited' = {} /\ payments' = {}
      /\ penalised' = penalised \cup Penalised(c)
      /\ wronged' = wronged \cup ((Penalised(c) \ penalised) \cap settled)
      /\ UNCHANGED <<settled, raced, overtaken, overrun, starts>>
  BY DEF DeleteSplit, At
<1>2. PICK t \in DeedStates :
        /\ deed' = [deed EXCEPT ![c] = t] /\ t.at = "archived"
        /\ t.credited = deed[c].credited /\ t.payments = deed[c].payments
        /\ t.gone = deed[c].gone /\ t.peopled = deed[c].peopled /\ t.number = deed[c].number
  BY <1>1, Relocated
<1>3. /\ deed \in [Movers -> DeedStates] /\ DeedFits(c) /\ RowsFit /\ starts \in Nat
      /\ holder \in Movers \cup {NoOne} /\ NoOne \notin Movers
  BY DeedFacts
<1>4. /\ deed' \in [Movers -> DeedStates] /\ deed'[c] = t
      /\ \A d \in Movers : d # c => deed'[d] = deed[d]
  BY <1>2, <1>3
<1>5. ArchivingTypeOK'
  <2>1. ArchivingTypeOK /\ holder' \in Movers \cup {NoOne}
    BY <1>1, <1>3 DEF ArchivingInv, Release
  <2>2. penalised' \subseteq Movers
    BY <1>1, <2>1, ArchivingFacts DEF Penalised
  <2> QED
    BY <1>1, <1>3, <1>4, <2>1, <2>2, ArchivingTypesBack
<1>6. Archives' = Archives \cup {c} /\ c \notin Archives
  BY <1>1, <1>2, <1>4 DEF Archives, At
<1>7. RowsFit'
  BY <1>1, <1>3, <1>6 DEF RowsFit
<1>8. \A b \in Movers : deed[b].at \in {"archived", "done"} => deed'[b].at \in {"archived", "done"}
  BY <1>2, <1>4
<1>9. DeedFits(c)'
  BY <1>1, <1>2, <1>3, <1>4 DEF DeedFits
<1>10. ASSUME NEW d \in Movers, d # c PROVE DeedFits(d)'
  <2>1. deed[d].at # "paying"
    BY <1>1, <1>3, <1>10 DEF ArchivingInv, DeedFits
  <2> QED
    BY <1>1, <1>3, <1>4, <1>8, <1>10, <2>1, OthersFit
<1>11. ASSUME ~overrun PROVE ArchivesIntact'
  <2>1. /\ ArchivesIntact /\ CopyFits(c)
    BY <1>11 DEF ArchivingInv, ArchivesIntact
  <2>2. \A b \in Archives : b # c /\ b \in Movers /\ deed'[b] = deed[b]
    BY <1>4, <1>6 DEF Archives
  <2>3. \E b \in Archives' : deed'[b].peopled
    <3>1. CASE deed[c].peopled
      BY <1>2, <1>4, <1>6, <3>1
    <3>2. CASE ~deed[c].peopled
      <4>1. PICK b \in Archives : deed[b].peopled
        BY <1>1, <2>1, <3>2 DEF CopyFits, Reading
      <4> QED
        BY <1>6, <2>2, <4>1
    <3> QED
      BY <3>1, <3>2
  <2>4. PaymentsKept'
    <3> SUFFICES ASSUME NEW p \in settled \ raced
                 PROVE  \E b \in Archives' : p \in deed'[b].credited \cap deed'[b].payments
      BY <1>1 DEF PaymentsKept
    <3>1. CASE live
      <4>1. p \in payments
        BY <2>1, <3>1 DEF ArchivesIntact, PaymentsKept
      <4>2. p \in deed[c].gone
        BY <1>1, <2>1, <3>1, <4>1 DEF CopyFits
      <4>3. p \in deed[c].credited \cap deed[c].payments
        BY <1>1, <2>1, <3>1, <4>2 DEF CopyFits
      <4> QED
        BY <1>2, <1>4, <1>6, <4>3
    <3>2. CASE ~live
      <4>1. PICK b \in Archives : p \in deed[b].credited \cap deed[b].payments
        BY <2>1, <3>2 DEF ArchivesIntact, PaymentsKept
      <4> QED
        BY <1>6, <2>2, <4>1
    <3> QED
      BY <3>1, <3>2
  <2>5. wronged' \subseteq raced' \cup overtaken'
    <3>1. (Penalised(c) \ penalised) \cap settled \subseteq raced \cup overtaken
      BY <1>1, <2>1 DEF CopyFits, Reading, Penalised
    <3> QED
      BY <1>1, <2>1, <3>1 DEF ArchivesIntact
  <2>6. CopyFits(c)'
    BY <1>2, <1>4 DEF CopyFits, Reading
  <2>7. ASSUME NEW d \in Movers, d # c PROVE CopyFits(d)'
    <3>1. CopyFits(d) /\ deed'[d] = deed[d]
      BY <1>4, <2>1, <2>7 DEF ArchivesIntact
    <3> QED
      BY <1>1, <2>3, <3>1 DEF CopyFits
  <2>8. ParticipantsKept'
    BY <2>3 DEF ParticipantsKept
  <2> QED
    BY <2>4, <2>5, <2>6, <2>7, <2>8 DEF ArchivesIntact
<1> QED
  BY <1>1, <1>5, <1>7, <1>9, <1>10, <1>11 DEF ArchivingInv

LEMMA WriteBackStep ==
    ASSUME ArchivingInv, NEW c \in Movers, WriteBack(c)
    PROVE  ArchivingInv'
<1> DEFINE s == deed[c].source
           a == deed[s]
<1>1. /\ deed[c].at = "write" /\ holder = NoOne
      /\ live' = TRUE /\ peopled' = (peopled \/ a.peopled)
      /\ credited' = IF a.peopled THEN a.credited ELSE credited
      /\ payments' = payments \cup a.payments
      /\ raced' = raced \cup (settled \ (a.credited \cap a.payments))
      /\ overrun' = (overrun \/ Begun # {})
      /\ deed' = [deed EXCEPT ![c].at = "done", ![s].at = "done"]
      /\ UNCHANGED <<penalised, settled, overtaken, wronged, holder, starts>>
  BY DEF WriteBack, At
<1>2. /\ deed \in [Movers -> DeedStates] /\ DeedFits(c) /\ RowsFit /\ starts \in Nat
      /\ holder \in Movers \cup {NoOne} /\ NoOne \notin Movers
  BY DeedFacts
<1>3. s \in Movers /\ a.at \in {"archived", "done"} /\ s # c
  BY <1>1, <1>2 DEF DeedFits
<1>4. DeedFits(s) /\ a \in DeedStates
  BY <1>2, <1>3, DeedFacts
<1> HIDE DEF a, s
<1> DEFINE t(d) == [deed[d] EXCEPT !.at = "done"]
<1>5. /\ deed' \in [Movers -> DeedStates]
      /\ \A d \in Movers : d \notin {c, s} => deed'[d] = deed[d]
      /\ \A d \in {c, s} : deed'[d] = t(d)
  <2>1. \A d \in Movers : t(d) \in DeedStates
    BY <1>2 DEF DeedStates
  <2>2. deed' = [d \in Movers |-> IF d \in {c, s} THEN t(d) ELSE deed[d]]
    BY <1>1, <1>2, <1>3
  <2> HIDE DEF t
  <2> QED
    BY <1>2, <1>3, <2>1, <2>2
<1>6. \A d \in {c, s} : /\ deed'[d].at = "done" /\ deed'[d].credited = deed[d].credited
                        /\ deed'[d].payments = deed[d].payments /\ deed'[d].gone = deed[d].gone
                        /\ deed'[d].peopled = deed[d].peopled /\ deed'[d].number = deed[d].number
  BY <1>2, <1>3, <1>5 DEF DeedStates
<1> HIDE DEF t
<1>7. ArchivingTypeOK'
  <2>1. ArchivingTypeOK /\ a.peopled \in BOOLEAN /\ a.credited \subseteq Movers /\ a.payments \subseteq Movers
    BY <1>4 DEF ArchivingInv, DeedStates
  <2>2. peopled' \in BOOLEAN
    BY <1>1, <2>1, Zenon
  <2>3. credited' \subseteq Movers /\ payments' \subseteq Movers
    BY <1>1, <2>1, ArchivingFacts
  <2> QED
    BY <1>1, <1>2, <1>5, <2>1, <2>2, <2>3, ArchivingFacts, ArchivingTypesBack
<1>8. /\ a.credited \subseteq settled /\ a.payments \subseteq settled
      /\ (~a.peopled => a.credited = {})
  BY <1>4 DEF DeedFits, a
<1>9. RowsFit'
  BY <1>1, <1>2, <1>8 DEF RowsFit
<1>10. \A b \in Movers : deed[b].at \in {"archived", "done"} => deed'[b].at \in {"archived", "done"}
  BY <1>5, <1>6
<1>11. ASSUME NEW d \in Movers PROVE DeedFits(d)'
  <2>1. CASE d \in {c, s}
    <3>1. DeedFits(d)
      BY <1>2, <1>4, <2>1
    <3> QED
      BY <1>1, <1>6, <2>1, <3>1 DEF DeedFits
  <2>2. CASE d \notin {c, s}
    <3>1. deed[d].at # "paying"
      BY <1>1, <1>2 DEF ArchivingInv, DeedFits
    <3> QED
      BY <1>1, <1>2, <1>5, <1>10, <2>2, <3>1, OthersFit
  <2> QED
    BY <2>1, <2>2
<1>12. ASSUME ~overrun' PROVE ArchivesIntact'
  <2>1. Begun = {} /\ ArchivesIntact
    BY <1>1, <1>12 DEF ArchivingInv
  <2>2. ASSUME NEW d \in Movers PROVE CopyFits(d)'
    <3>1. deed[d].at \notin Reading
      BY <2>1 DEF Begun, Copying, Reading
    <3>2. deed'[d].at \notin Reading
      BY <1>5, <1>6, <3>1 DEF Reading
    <3> QED
      BY <3>2 DEF CopyFits, Reading
  <2>3. ParticipantsKept'
    <3>1. CASE peopled \/ a.peopled
      BY <1>1, <3>1 DEF ParticipantsKept
    <3>2. CASE ~(peopled \/ a.peopled)
      <4>1. PICK b \in Archives : deed[b].peopled
        BY <2>1, <3>2 DEF ArchivesIntact, ParticipantsKept
      <4>2. b \in Movers /\ b # c /\ b # s
        BY <1>1, <3>2, <4>1 DEF Archives, At, a
      <4>3. b \in Archives' /\ deed'[b].peopled
        BY <1>5, <4>1, <4>2 DEF Archives, At
      <4> QED
        BY <4>3 DEF ParticipantsKept
    <3> QED
      BY <3>1, <3>2
  <2>4. PaymentsKept'
    <3> SUFFICES ASSUME NEW p \in settled' \ raced' PROVE p \in credited' \cap payments'
      BY <1>1 DEF PaymentsKept
    <3>1. p \in a.credited \cap a.payments
      BY <1>1
    <3> QED
      BY <1>1, <1>8, <3>1
  <2>5. wronged' \subseteq raced' \cup overtaken'
    BY <1>1, <2>1 DEF ArchivesIntact
  <2> QED
    BY <2>2, <2>3, <2>4, <2>5 DEF ArchivesIntact
<1> QED
  BY <1>7, <1>9, <1>11, <1>12 DEF ArchivingInv

LEMMA ArchivingStepInv == ArchivingInv /\ [ArchivingNext]_archivingVars => ArchivingInv'
<1> SUFFICES ASSUME ArchivingInv, [ArchivingNext]_archivingVars PROVE ArchivingInv'
  OBVIOUS
<1>1. ASSUME NEW c \in Movers, LockSplit(c) PROVE ArchivingInv'
  BY <1>1, LockSplitStep
<1>2. ASSUME NEW c \in Movers, CommitPayment(c) PROVE ArchivingInv'
  BY <1>2, CommitPaymentStep
<1>3. ASSUME NEW c \in Movers, NEW reason \in {"expired", "other"}, archiveSplit(c, reason)
      PROVE  ArchivingInv'
  BY <1>3, ArchiveSplitStep
<1>4. ASSUME NEW c \in Movers, FindParticipants(c) PROVE ArchivingInv'
  BY <1>4, FindParticipantsStep
<1>5. ASSUME NEW c \in Movers, FindPayments(c) PROVE ArchivingInv'
  BY <1>5, FindPaymentsStep
<1>6. ASSUME NEW c \in Movers, DeletePayments(c) PROVE ArchivingInv'
  BY <1>6, DeletePaymentsStep
<1>7. ASSUME NEW c \in Movers, DeleteParticipants(c) PROVE ArchivingInv'
  BY <1>7, DeleteParticipantsStep
<1>8. ASSUME NEW c \in Movers, DeleteSplit(c) PROVE ArchivingInv'
  BY <1>8, DeleteSplitStep
<1>9. ASSUME NEW c \in Movers, RefusedDelete(c) \/ RollBack(c) PROVE ArchivingInv'
  <2>1. /\ MoveOn(c, "done") /\ deed[c].at \notin {"archived", "done"}
        /\ UNCHANGED <<rowVars, bookVars, starts>> /\ (holder' = holder \/ Release(c))
    BY <1>9 DEF RefusedDelete, RollBack, At
  <2> QED
    BY <2>1, EndingStep
<1>10. ASSUME NEW c \in Movers, restoreSplitByOriginalId(c) PROVE ArchivingInv'
  BY <1>10, RestoreByIdStep
<1>11. ASSUME NEW c \in Movers, restoreSplit(c) PROVE ArchivingInv'
  BY <1>11, RestoreStep
<1>12. ASSUME NEW c \in Movers, WriteBack(c) PROVE ArchivingInv'
  BY <1>12, WriteBackStep
<1>13. CASE UNCHANGED archivingVars
  <2>1. /\ live' = live /\ peopled' = peopled /\ credited' = credited /\ payments' = payments
        /\ deed' = deed /\ holder' = holder /\ starts' = starts /\ penalised' = penalised
        /\ settled' = settled /\ raced' = raced /\ overtaken' = overtaken
        /\ overrun' = overrun /\ wronged' = wronged
    BY <1>13 DEF archivingVars
  <2>2. ArchivingTypeOK' /\ RowsFit' /\ \A c \in Movers : DeedFits(c)'
    BY <2>1 DEF ArchivingInv, ArchivingTypeOK, RowsFit, DeedFits, Archives, At
  <2>3. Archives' = Archives
    BY <2>1 DEF Archives, At
  <2>4. ArchivesIntact => ArchivesIntact'
    BY <2>1, <2>3 DEF ArchivesIntact, ParticipantsKept, PaymentsKept, CopyFits
  <2> QED
    BY <2>1, <2>2, <2>4 DEF ArchivingInv
<1> QED
  BY <1>1, <1>2, <1>3, <1>4, <1>5, <1>6, <1>7, <1>8, <1>9, <1>10, <1>11, <1>12, <1>13
     DEF ArchivingNext

\* ArchivingLosesOnlyByRaces for any number of participants, archives, restores and
\* failures.
THEOREM ArchivesKeepSplits == ArchivingSpec => []ArchivingLosesOnlyByRaces
<1>1. ArchivingInv => ArchivingLosesOnlyByRaces
  BY DEF ArchivingInv, RowsFit, ArchivesIntact, ParticipantsKept, PaymentsKept, ArchivingLosesOnlyByRaces
<1> QED
  BY <1>1, ArchivingInitInv, ArchivingStepInv, PTL DEF ArchivingSpec

-----------------------------------------------------------------------------
(* Types *)

\* Rows, and what every request holds of them, keep their types for any number of
\* concurrent requests: a stale save writes a row as it could have been.
THEOREM RequestTypes ==
    /\ InviteSpec => []InviteTypeOK
    /\ LinkSpec => []LinkTypeOK
    /\ IdempotencySpec => []IdempotencyTypeOK
    /\ ArchivingSpec => []ArchivingTypeOK
    /\ DebtSpec => []DebtTypeOK
    /\ CollaborationSpec => []CollaborationTypeOK
    /\ DisputesSpec => []DisputeRowsOK
<1>1. InviteSpec => []InviteTypeOK
  <2>1. InviteInv => InviteTypeOK
    BY DEF InviteInv
  <2> QED
    BY <2>1, InviteInitInv, InviteStepInv, PTL DEF InviteSpec
<1>2. LinkSpec => []LinkTypeOK
  <2>1. LinkInv => LinkTypeOK
    BY DEF LinkInv
  <2> QED
    BY <2>1, LinkInitInv, LinkStepInv, PTL DEF LinkSpec
<1>3. IdempotencySpec => []IdempotencyTypeOK
  <2>1. ReplayInv => IdempotencyTypeOK
    BY DEF ReplayInv
  <2> QED
    BY <2>1, ReplayInitInv, ReplayStepInv, PTL DEF IdempotencySpec
<1>4. ArchivingSpec => []ArchivingTypeOK
  <2>1. ArchivingInv => ArchivingTypeOK
    BY DEF ArchivingInv
  <2> QED
    BY <2>1, ArchivingInitInv, ArchivingStepInv, PTL DEF ArchivingSpec
<1>5. DebtSpec => []DebtTypeOK
  <2>1. DebtInv => DebtTypeOK
    BY DEF DebtInv
  <2> QED
    BY <2>1, DebtInvariant, PTL
<1>6. CollaborationSpec => []CollaborationTypeOK
  <2>1. CollaborationInv => CollaborationTypeOK
    BY DEF CollaborationInv
  <2> QED
    BY <2>1, CollaborationInitInv, CollaborationStepInv, PTL DEF CollaborationSpec
<1>7. DisputesSpec => []DisputeRowsOK
  <2>1. DisputeInv => DisputeRowsOK
    BY DEF DisputeInv
  <2> QED
    BY <2>1, DisputeInvariant, PTL
<1> QED
  BY <1>1, <1>2, <1>3, <1>4, <1>5, <1>6, <1>7
=================================================================================
