-------------------------- MODULE SplitEscrowProofs --------------------------
(***************************************************************************)
(* SplitEscrow for every number of accounts and escrows: its types, the    *)
(* agreement of its books, the funding of a Ready split, and the exact     *)
(* backing of the active escrows by the contract's token balance.          *)
(***************************************************************************)
EXTENDS SplitEscrow, SumsProofs, FiniteSetTheorems

-----------------------------------------------------------------------------
(* The distribution loop of release_funds *)

\* A map with a positive sum has a last positive key.
LEMMA LastObligorExists ==
    ASSUME NEW s \in Split, SumTo(s.obligations, NumAddresses) > 0
    PROVE  /\ LastObligor(s) \in Address
           /\ s.obligations[LastObligor(s)] > 0
           /\ \A b \in Address : s.obligations[b] > 0 => b <= LastObligor(s)
<1> DEFINE N == NumAddresses
           o == s.obligations
           T == {n \in 0..N : \E a \in 1..N : o[a] > 0 /\ n = N - a}
<1>0. N \in Nat /\ o \in [1..N -> Nat] /\ o \in [1..N -> Int] /\ 0 \in 0..N
  BY EscrowConstants DEF Split, Address
<1>1. \E a \in 1..N : o[a] > 0
  <2> SUFFICES ASSUME \A a \in 1..N : ~(o[a] > 0) PROVE FALSE
    OBVIOUS
  <2>1. \A k \in (0+1)..N : o[k] = 0
    BY <1>0
  <2>2. SumTo(o, N) = SumTo(o, 0) /\ SumTo(o, 0) = 0
    <3> HIDE DEF o, N
    <3> QED
      BY <1>0, <2>1, SumTail, SumSteps
  <2> QED
    BY <2>2
<1>2. T # {} /\ T \in SUBSET Nat
  <2>1. PICK a \in 1..N : o[a] > 0
    BY <1>1
  <2>2. N - a \in 0..N
    BY <1>0
  <2>3. N - a \in T
    BY <2>1, <2>2
  <2> QED
    BY <2>3
<1>3. PICK x \in T : \A y \in T : x <= y
  <2> HIDE DEF T
  <2> QED
    BY <1>2, LeastNat
<1>4. PICK a \in 1..N : o[a] > 0 /\ x = N - a
  OBVIOUS
<1>5. ASSUME NEW b \in 1..N, o[b] > 0 PROVE b <= a
  <2>1. N - b \in T
    BY <1>0, <1>5
  <2>2. x <= N - b
    BY <1>3, <2>1
  <2> QED
    BY <1>0, <1>4, <2>2
<1> QED
  BY <1>4, <1>5 DEF LastObligor, Address

\* Rounding down never gives out more than there is.
LEMMA DivBounds ==
    ASSUME NEW n \in Nat, NEW d \in Nat, d > 0
    PROVE  n \div d \in Nat /\ d * (n \div d) <= n
OBVIOUS

LEMMA CancelFactor ==
    ASSUME NEW d \in Nat, d > 0, NEW x \in Int, NEW y \in Int, d * x <= d * y
    PROVE  x <= y
OBVIOUS

LEMMA TimesCommutes == \A x, y \in Int : x * y = y * x
OBVIOUS

\* Whatever the fee, the distribution loop transfers exactly the net amount:
\* no share is negative and the last obligor absorbs the rounding dust.
THEOREM TransfersAddUpToNet ==
    ASSUME NEW s \in Split, s.deposited_amount > 0,
           SumTo(s.obligations, NumAddresses) = s.deposited_amount,
           NEW net \in 0..s.deposited_amount
    PROVE  /\ Transfers(s, net) \in [Address -> Nat]
           /\ SumTo(Transfers(s, net), NumAddresses) = net
<1> DEFINE N == NumAddresses
           o == s.obligations
           D == s.deposited_amount
           p == ProRata(s, net)
           l == LastObligor(s)
           sh == Shares(s, net)
<1>0. /\ N \in Nat /\ o \in [1..N -> Nat] /\ o \in [1..N -> Int]
      /\ D \in Nat /\ D > 0 /\ net \in Nat /\ net <= D
      /\ SumTo(o, N) = D /\ Address = 1..N
  BY EscrowConstants DEF Split, Address
<1>1. /\ l \in 1..N /\ o[l] > 0
      /\ \A b \in 1..N : o[b] > 0 => b <= l
  BY <1>0, LastObligorExists
<1>2. \A a \in 1..N : /\ p[a] \in Nat /\ D * p[a] <= net * o[a]
                      /\ o[a] = 0 => p[a] = 0
  <2> SUFFICES ASSUME NEW a \in 1..N
               PROVE  /\ p[a] \in Nat /\ D * p[a] <= net * o[a]
                      /\ o[a] = 0 => p[a] = 0
    OBVIOUS
  <2>1. p[a] = (o[a] * net) \div D
    BY <1>0 DEF ProRata
  <2>2. o[a] \in Nat /\ o[a] * net \in Nat /\ o[a] * net = net * o[a]
    BY <1>0
  <2>3. p[a] \in Nat /\ D * p[a] <= o[a] * net
    <3> HIDE DEF o, D, p
    <3> QED
      BY <1>0, <2>1, <2>2, DivBounds
  <2>4. ASSUME o[a] = 0 PROVE p[a] = 0
    BY <1>0, <2>1, <2>4
  <2> QED
    BY <2>2, <2>3, <2>4
<1>3. p \in [1..N -> Nat] /\ p \in [1..N -> Int]
  BY <1>0, <1>2 DEF ProRata
<1> HIDE DEF p, o, D, N, l
<1>4. SumTo(p, l-1) \in Nat /\ SumTo(p, l-1) <= net
  <2>1. l - 1 \in 0..N
    BY <1>0, <1>1
  <2>2. D * SumTo(p, l-1) <= net * SumTo(o, l-1)
    <3>1. \A k \in 1..N : D * p[k] <= net * o[k]
      BY <1>2
    <3>2. D \in Int /\ net \in Int /\ N \in Nat
      BY <1>0
    <3> QED
      BY <1>0, <1>3, <2>1, <3>1, <3>2, SumScale
  <2>3. /\ SumTo(o, l-1) \in Nat /\ SumTo(o, l-1) <= D
        /\ SumTo(p, l-1) \in Nat
    BY <1>0, <1>3, <2>1, SumNonNegative
  <2>4. net * SumTo(o, l-1) <= net * D
    BY <1>0, <2>3
  <2>5. D * SumTo(p, l-1) <= D * net
    <3>1. net * D = D * net
      BY <1>0, TimesCommutes
    <3>2. \A x, y, z \in Int : x <= y /\ y <= z => x <= z
      OBVIOUS
    <3>3. D * SumTo(p, l-1) \in Int /\ net * SumTo(o, l-1) \in Int /\ net * D \in Int
      BY <1>0, <2>3
    <3> QED
      BY <2>2, <2>4, <3>1, <3>2, <3>3
  <2> QED
    BY <1>0, <2>3, <2>5, CancelFactor
<1>5. sh = [a \in 1..N |-> IF a = l THEN net - SumTo(p, l-1) ELSE p[a]]
  BY <1>0 DEF Shares, p, l
<1>6. sh \in [1..N -> Nat] /\ sh \in [1..N -> Int]
  <2>1. net - SumTo(p, l-1) \in Nat
    BY <1>0, <1>4
  <2> QED
    BY <1>3, <1>5, <2>1
<1> HIDE DEF sh
<1>7. Transfers(s, net) = sh
  <2>1. \A a \in 1..N : sh[a] \in Nat
    BY <1>6
  <2>2. Transfers(s, net) = [a \in 1..N |-> IF sh[a] > 0 THEN sh[a] ELSE 0]
    BY <1>0 DEF Transfers, sh
  <2>3. \A a \in 1..N : (IF sh[a] > 0 THEN sh[a] ELSE 0) = sh[a]
    BY <2>1
  <2> QED
    BY <2>2, <2>3, <1>6
<1>8. SumTo(sh, N) = net
  <2>1. l \in 0..N /\ l - 1 \in 0..N /\ l \in 1..N
    BY <1>0, <1>1
  <2>2. \A k \in 1..(l-1) : sh[k] = p[k]
    BY <1>0, <1>1, <1>5
  <2>3. SumTo(sh, l-1) = SumTo(p, l-1)
    BY <1>0, <1>3, <1>6, <2>1, <2>2, SumSame
  <2>4. SumTo(sh, l) = SumTo(sh, l-1) + sh[l]
    BY <1>0, <1>6, <2>1, SumSteps
  <2>5. sh[l] = net - SumTo(p, l-1)
    BY <1>5, <2>1
  <2>6. \A k \in (l+1)..N : sh[k] = 0
    <3> SUFFICES ASSUME NEW k \in (l+1)..N PROVE sh[k] = 0
      OBVIOUS
    <3>1. k \in 1..N /\ ~(k <= l) /\ k # l
      BY <1>0, <2>1
    <3>2. o[k] = 0
      BY <1>0, <1>1, <3>1
    <3> QED
      BY <1>2, <1>5, <3>1, <3>2
  <2>7. SumTo(sh, N) = SumTo(sh, l)
    BY <1>0, <1>6, <2>1, <2>6, SumTail
  <2> QED
    BY <1>0, <1>4, <2>3, <2>4, <2>5, <2>7
<1> QED
  BY <1>0, <1>6, <1>7, <1>8 DEF N

-----------------------------------------------------------------------------
(* The inductive invariant *)

\* What holds of every storage entry, in every stage of its life.
SplitInv(s) ==
    /\ s.balances = s.deposits
    /\ SumTo(s.balances, NumAddresses) = s.deposited_amount
    /\ SumTo(s.obligations, NumAddresses) = s.total_amount
    /\ \A a \in Address : s.balances[a] <= s.obligations[a]
    /\ \A a \in Address : s.balances[a] > 0 /\ s.status \in {"Pending", "Ready"}
                             => a \in s.participants
    /\ s.status \in {"Ready", "Released"} =>
         s.total_amount > 0 /\ s.deposited_amount = s.total_amount
    /\ s.status = "Pending" => s.total_amount > 0

EscrowInv ==
    /\ TypeOK
    /\ \A id \in SplitId : SplitInv(splits[id])
    /\ \A id \in SplitId : id >= nextSplitId => ~Exists(id)
    /\ VaultMatchesEscrows

\* The empty map sums to nothing.
LEMMA NothingIsZero ==
    /\ Nothing \in [Address -> Nat] /\ Nothing \in [Address -> Int]
    /\ SumTo(Nothing, NumAddresses) = 0
<1>1. /\ Nothing \in [1..NumAddresses -> Nat] /\ Nothing \in [1..NumAddresses -> Int]
      /\ \A k \in (0+1)..NumAddresses : Nothing[k] = 0
      /\ NumAddresses \in Nat /\ 0 \in 0..NumAddresses
  BY EscrowConstants DEF Nothing, Address
<1>2. SumTo(Nothing, NumAddresses) = SumTo(Nothing, 0) /\ SumTo(Nothing, 0) = 0
  BY <1>1, SumTail, SumSteps
<1> QED
  BY <1>1, <1>2 DEF Address

LEMMA NoSplitIsSplit == NoSplit \in Split /\ SplitInv(NoSplit)
<1>1. (CHOOSE n \in Notes : TRUE) \in Notes /\ (CHOOSE m \in Metadatas : TRUE) \in Metadatas
  BY EscrowConstants
<1>2. NoSplit \in Split
  BY <1>1, NothingIsZero DEF NoSplit, Split, Status, None
<1>3. SplitInv(NoSplit)
  BY NothingIsZero DEF NoSplit, SplitInv
<1> QED
  BY <1>2, <1>3

\* The token balance follows the one split a call touches.
LEMMA VaultFollowsSplit ==
    ASSUME TypeOK, splits' \in [SplitId -> Split], VaultMatchesEscrows,
           NEW id \in SplitId,
           \A j \in SplitId : j # id => splits'[j] = splits[j],
           vault' = vault + Held'[id] - Held[id]
    PROVE  VaultMatchesEscrows'
<1>1. Held \in [1..MaxSplits -> Int]
  BY DEF TypeOK, Held, SplitId, Split
<1>2. Held' \in [1..MaxSplits -> Int]
  BY DEF Held, SplitId, Split
<1>3. \A k \in 1..MaxSplits : k # id => Held[k] = Held'[k]
  BY DEF Held, SplitId, is_active
<1>4. id \in 1..MaxSplits /\ MaxSplits \in Nat
  BY EscrowConstants DEF SplitId
<1>5. SumTo(Held', MaxSplits) = SumTo(Held, MaxSplits) + Held'[id] - Held[id]
  BY <1>1, <1>2, <1>3, <1>4, SumUpdate
<1>6. SumTo(Held, MaxSplits) \in Int
  <2>1. MaxSplits \in 0..MaxSplits
    BY <1>4
  <2> QED
    BY <1>1, <1>4, <2>1, SumSteps
<1> QED
  BY <1>5, <1>6 DEF VaultMatchesEscrows

LEMMA AlertsAfterType ==
    ASSUME NEW alert \in [half : Nat, full : Nat], NEW b \in Nat, NEW c \in Nat,
           NEW o \in Nat
    PROVE  AlertsAfter(alert, b, c, o) \in [half : Nat, full : Nat]
<1>1. Crossed(b, c, o \div 2) \in Nat /\ Crossed(b, c, o) \in Nat
  BY DEF Crossed
<1> QED
  BY <1>1 DEF AlertsAfter

\* deposit keeps the books and the token balance in step.
LEMMA DepositStep ==
    ASSUME EscrowInv, NEW id \in SplitId, NEW a \in Address,
           NEW amount \in 1..MaxObligation, deposit(id, a, amount)
    PROVE  EscrowInv'
<1> DEFINE s == splits[id]
           N == NumAddresses
           u == splits'[id]
           after == s.deposits[a] + amount
           total == s.deposited_amount + amount
<1>0. /\ s \in Split /\ SplitInv(s) /\ s.status = "Pending"
      /\ amount \in Nat /\ amount > 0 /\ N \in Nat
      /\ splits \in [SplitId -> Split] /\ wallet \in [Address -> Nat] /\ vault \in Nat
      /\ after <= s.obligations[a] /\ total <= s.total_amount /\ amount <= wallet[a]
  BY EscrowConstants DEF EscrowInv, TypeOK, deposit, WithinObligation
<1>1. /\ s.balances \in [Address -> Nat] /\ s.deposits \in [Address -> Nat]
      /\ s.obligations \in [Address -> Nat] /\ s.participants \in SUBSET Address
      /\ s.deposited_amount \in Nat /\ s.total_amount \in Nat /\ s.max_participants \in Nat
      /\ s.alerts \in [Address -> [half : Nat, full : Nat]]
  BY <1>0 DEF Split
<1>2. u = [s EXCEPT !.participants = @ \cup {a},
                    !.deposits[a] = after,
                    !.balances[a] = after,
                    !.deposited_amount = total,
                    !.status = IF total >= s.total_amount THEN "Ready" ELSE "Pending",
                    !.alerts[a] = AlertsAfter(@, s.deposits[a], after, s.obligations[a])]
  <2>1. /\ s.alerts[a] \in [half : Nat, full : Nat] /\ s.balances[a] \in Nat
    BY <1>1
  <2> QED
    BY <1>0 DEF deposit, AfterDeposit
<1>3. /\ u.participants = s.participants \cup {a}
      /\ u.deposits = [s.deposits EXCEPT ![a] = after]
      /\ u.balances = [s.balances EXCEPT ![a] = after]
      /\ u.deposited_amount = total
      /\ u.status = IF total >= s.total_amount THEN "Ready" ELSE "Pending"
      /\ u.obligations = s.obligations /\ u.total_amount = s.total_amount
  BY <1>0, <1>2 DEF Split
<1>4. u \in Split
  <2>1. AlertsAfter(s.alerts[a], s.deposits[a], after, s.obligations[a])
          \in [half : Nat, full : Nat]
    <3>1. s.alerts[a] \in [half : Nat, full : Nat] /\ s.deposits[a] \in Nat
          /\ after \in Nat /\ s.obligations[a] \in Nat
      BY <1>0, <1>1
    <3> HIDE DEF s, after
    <3> QED
      BY <3>1, AlertsAfterType
  <2>2. /\ u.creator = s.creator /\ u.payee = s.payee /\ u.note = s.note
        /\ u.metadata = s.metadata /\ u.max_participants = s.max_participants
        /\ u.alerts = [s.alerts EXCEPT ![a] =
                         AlertsAfter(@, s.deposits[a], after, s.obligations[a])]
    BY <1>0, <1>2 DEF Split
  <2>3. /\ u.alerts \in [Address -> [half : Nat, full : Nat]]
        /\ u.deposits \in [Address -> Nat] /\ u.balances \in [Address -> Nat]
        /\ u.participants \in SUBSET Address
        /\ u.deposited_amount \in Nat /\ u.status \in Status
    BY <1>0, <1>1, <1>3, <2>1, <2>2 DEF Status
  <2>4. u = [creator |-> u.creator, payee |-> u.payee, total_amount |-> u.total_amount,
             deposited_amount |-> u.deposited_amount, status |-> u.status,
             max_participants |-> u.max_participants, participants |-> u.participants,
             balances |-> u.balances, deposits |-> u.deposits,
             obligations |-> u.obligations, note |-> u.note, metadata |-> u.metadata,
             alerts |-> u.alerts]
    BY <1>0, <1>2 DEF Split
  <2>5. /\ s.creator \in Address \cup {None} /\ s.payee \in Address \cup {None}
        /\ s.note \in Notes /\ s.metadata \in Metadatas
    BY <1>0 DEF Split
  <2> HIDE DEF u, s
  <2> QED
    BY <1>1, <1>3, <2>2, <2>3, <2>4, <2>5 DEF Split
<1>5. SplitInv(u)
  <2>1. a \in 1..N /\ s.balances \in [1..N -> Int] /\ u.balances \in [1..N -> Int]
    <3>1. after \in Nat
      BY <1>0, <1>1
    <3>2. u.balances \in [Address -> Nat]
      BY <1>1, <1>3, <3>1
    <3> HIDE DEF u, s
    <3> QED
      BY <1>1, <3>2 DEF Address
  <2>2. s.balances = s.deposits /\ s.balances[a] = s.deposits[a] /\ s.deposits[a] \in Nat
    BY <1>0, <1>1 DEF SplitInv
  <2>3. u.balances[a] = after /\ \A k \in 1..N : k # a => s.balances[k] = u.balances[k]
    <3> HIDE DEF u, s
    <3> QED
      BY <1>1, <1>3 DEF Address
  <2>4. SumTo(s.balances, N) = s.deposited_amount /\ SumTo(s.obligations, N) = s.total_amount
    BY <1>0 DEF SplitInv
  <2>5. SumTo(u.balances, N) = total
    <3>1. SumTo(u.balances, N) = SumTo(s.balances, N) + u.balances[a] - s.balances[a]
      <4> HIDE DEF u, s
      <4> QED
        BY <1>0, <2>1, <2>3, SumUpdate
    <3> HIDE DEF u
    <3> QED
      BY <1>0, <1>1, <2>2, <2>3, <2>4, <3>1
  <2>6. \A b \in Address : s.balances[b] <= s.obligations[b]
    BY <1>0 DEF SplitInv
  <2>7. \A b \in Address : u.balances[b] <= u.obligations[b]
    <3> HIDE DEF u, s
    <3> QED
      BY <1>0, <1>1, <1>3, <2>6
  <2>8. \A b \in Address : u.balances[b] > 0 => b \in u.participants
    <3>1. \A b \in Address : s.balances[b] > 0 => b \in s.participants
      BY <1>0 DEF SplitInv
    <3> HIDE DEF u, s
    <3> QED
      BY <1>1, <1>3, <3>1
  <2>9. s.total_amount > 0
    BY <1>0 DEF SplitInv
  <2>10. u.balances = u.deposits
    BY <1>3, <2>2
  <2>11. u.status \in {"Ready", "Released"} => u.deposited_amount = u.total_amount
    <3>1. total \in Nat /\ s.total_amount \in Nat /\ total <= s.total_amount
      BY <1>0, <1>1
    <3> HIDE DEF u, s, total
    <3> QED
      BY <1>3, <3>1
  <2> HIDE DEF u, s, total
  <2> QED
    BY <1>3, <2>4, <2>5, <2>7, <2>8, <2>9, <2>10, <2>11 DEF SplitInv
<1>6. splits' = [splits EXCEPT ![id] = u]
  BY <1>0 DEF deposit
<1>7. TypeOK'
  <2>1. wallet' \in [Address -> Nat] /\ vault' \in Nat
    BY <1>0, <1>1 DEF deposit
  <2>2. splits' \in [SplitId -> Split]
    BY <1>0, <1>4, <1>6
  <2> QED
    BY <2>1, <2>2 DEF EscrowInv, TypeOK, deposit, adminVars, pauseVars, listVars
<1>8. VaultMatchesEscrows'
  <2>1. vault' = vault + Held'[id] - Held[id]
    <3>1. Held[id] = s.deposited_amount
      BY <1>0 DEF Held, is_active
    <3>2. Held'[id] = total
      BY <1>3 DEF Held, is_active
    <3>3. vault' = vault + amount
      BY DEF deposit
    <3> QED
      BY <1>0, <1>1, <3>1, <3>2, <3>3
  <2>2. \A j \in SplitId : j # id => splits'[j] = splits[j]
    BY <1>0, <1>6
  <2> QED
    BY <1>0, <1>7, <2>1, <2>2, VaultFollowsSplit DEF EscrowInv, TypeOK
<1>9. \A j \in SplitId : SplitInv(splits'[j]) /\ (j >= nextSplitId' => splits'[j].status = "Absent")
  <2>1. nextSplitId' = nextSplitId /\ nextSplitId \in Nat
    BY DEF deposit, EscrowInv, TypeOK
  <2>2. ~(id >= nextSplitId)
    BY <1>0 DEF EscrowInv, Exists
  <2> HIDE DEF u, s
  <2> QED
    BY <1>0, <1>5, <1>6, <2>1, <2>2 DEF EscrowInv, Exists
<1> QED
  BY <1>7, <1>8, <1>9 DEF EscrowInv, Exists

\* A split is determined by its fields.
LEMMA SplitByFields ==
    ASSUME NEW u,
           u = [creator |-> u.creator, payee |-> u.payee, total_amount |-> u.total_amount,
                deposited_amount |-> u.deposited_amount, status |-> u.status,
                max_participants |-> u.max_participants, participants |-> u.participants,
                balances |-> u.balances, deposits |-> u.deposits,
                obligations |-> u.obligations, note |-> u.note, metadata |-> u.metadata,
                alerts |-> u.alerts],
           u.creator \in Address \cup {None}, u.payee \in Address \cup {None},
           u.total_amount \in Nat, u.deposited_amount \in Nat, u.status \in Status,
           u.max_participants \in Nat, u.participants \in SUBSET Address,
           u.balances \in [Address -> Nat], u.deposits \in [Address -> Nat],
           u.obligations \in [Address -> Nat], u.note \in Notes, u.metadata \in Metadatas,
           u.alerts \in [Address -> [half : Nat, full : Nat]]
    PROVE  u \in Split
BY DEF Split

\* The refund of an active split is its whole deposited amount.
LEMMA RefundIsDeposited ==
    ASSUME NEW s \in Split, SplitInv(s), s.status \in {"Pending", "Ready"}
    PROVE  /\ Refund(s) = s.balances
           /\ Refund(s) \in [Address -> Nat]
           /\ SumTo(Refund(s), NumAddresses) = s.deposited_amount
<1>1. s.balances \in [Address -> Nat]
  BY DEF Split
<1>2. \A a \in Address : s.balances[a] > 0 => a \in s.participants
  BY DEF SplitInv
<1>3. \A a \in Address : (IF a \in s.participants THEN s.balances[a] ELSE 0) = s.balances[a]
  BY <1>1, <1>2
<1>4. Refund(s) = s.balances
  BY <1>1, <1>3 DEF Refund
<1> QED
  BY <1>1, <1>4 DEF SplitInv

\* cancel_split empties the split's books and takes exactly that from the vault.
LEMMA CancelStep ==
    ASSUME EscrowInv, NEW id \in SplitId, cancel_split(id)
    PROVE  EscrowInv'
<1> DEFINE s == splits[id]
           N == NumAddresses
           u == splits'[id]
           refund == Refund(s)
<1>0. /\ s \in Split /\ SplitInv(s) /\ s.status \in {"Pending", "Ready"}
      /\ splits \in [SplitId -> Split] /\ wallet \in [Address -> Nat] /\ vault \in Nat
      /\ SumTo(refund, N) <= vault
  BY DEF EscrowInv, TypeOK, cancel_split, is_active
<1>1. refund = s.balances /\ refund \in [Address -> Nat]
      /\ SumTo(refund, N) = s.deposited_amount /\ s.balances = s.deposits
      /\ s.deposited_amount \in Nat
  BY <1>0, RefundIsDeposited DEF SplitInv, Split
<1>2. u = [s EXCEPT !.balances = [a \in Address |-> s.balances[a] - refund[a]],
                    !.deposits = [a \in Address |-> IF refund[a] > 0 THEN 0 ELSE s.deposits[a]],
                    !.participants = {},
                    !.deposited_amount = 0,
                    !.status = "Cancelled"]
  BY <1>0 DEF cancel_split
<1>3. /\ u.balances = [a \in Address |-> s.balances[a] - refund[a]]
      /\ u.deposits = [a \in Address |-> IF refund[a] > 0 THEN 0 ELSE s.deposits[a]]
      /\ u.participants = {} /\ u.deposited_amount = 0 /\ u.status = "Cancelled"
      /\ u.obligations = s.obligations /\ u.total_amount = s.total_amount
      /\ u.creator = s.creator /\ u.payee = s.payee /\ u.note = s.note
      /\ u.metadata = s.metadata /\ u.max_participants = s.max_participants
      /\ u.alerts = s.alerts
  BY <1>0, <1>2 DEF Split
<1>4. u.balances = Nothing /\ u.deposits = Nothing
  <2>1. \A a \in Address : s.balances[a] - refund[a] = 0
    BY <1>1
  <2>2. \A a \in Address : (IF refund[a] > 0 THEN 0 ELSE s.deposits[a]) = 0
    BY <1>1
  <2> QED
    BY <1>3, <2>1, <2>2 DEF Nothing
<1>5. /\ s.creator \in Address \cup {None} /\ s.payee \in Address \cup {None}
      /\ s.note \in Notes /\ s.metadata \in Metadatas /\ s.max_participants \in Nat
      /\ s.total_amount \in Nat /\ s.obligations \in [Address -> Nat]
      /\ s.alerts \in [Address -> [half : Nat, full : Nat]]
  BY <1>0 DEF Split
<1>6. u = [creator |-> u.creator, payee |-> u.payee, total_amount |-> u.total_amount,
           deposited_amount |-> u.deposited_amount, status |-> u.status,
           max_participants |-> u.max_participants, participants |-> u.participants,
           balances |-> u.balances, deposits |-> u.deposits,
           obligations |-> u.obligations, note |-> u.note, metadata |-> u.metadata,
           alerts |-> u.alerts]
  BY <1>0, <1>2 DEF Split
<1>7. splits' = [splits EXCEPT ![id] = u]
  BY <1>0 DEF cancel_split
<1>8. vault' = vault - SumTo(refund, N) /\ wallet' = [a \in Address |-> wallet[a] + refund[a]]
  BY DEF cancel_split
<1>9. SumTo(s.obligations, N) = s.total_amount
  BY <1>0 DEF SplitInv
<1>10. Held[id] = s.deposited_amount
  BY <1>0 DEF Held, is_active
<1> HIDE DEF u, s, refund
<1>11. u \in Split
  BY <1>3, <1>4, <1>5, <1>6, NothingIsZero, SplitByFields DEF Status
<1>12. SplitInv(u)
  BY <1>3, <1>4, <1>5, <1>9, NothingIsZero DEF SplitInv, Nothing
<1>13. TypeOK'
  <2>1. wallet' \in [Address -> Nat] /\ vault' \in Nat
    BY <1>0, <1>1, <1>8
  <2>2. splits' \in [SplitId -> Split]
    BY <1>0, <1>7, <1>11
  <2> QED
    BY <2>1, <2>2 DEF EscrowInv, TypeOK, cancel_split, adminVars, pauseVars, listVars
<1>14. VaultMatchesEscrows'
  <2>1. Held'[id] = 0
    BY <1>3 DEF Held, is_active, u
  <2>2. vault' = vault + Held'[id] - Held[id]
    BY <1>0, <1>1, <1>8, <1>10, <2>1
  <2>3. \A j \in SplitId : j # id => splits'[j] = splits[j]
    BY <1>0, <1>7
  <2>4. splits' \in [SplitId -> Split]
    BY <1>13 DEF TypeOK
  <2> QED
    BY <2>2, <2>3, <2>4, VaultFollowsSplit DEF EscrowInv
<1>15. \A j \in SplitId : SplitInv(splits'[j]) /\ (j >= nextSplitId' => splits'[j].status = "Absent")
  <2>1. nextSplitId' = nextSplitId /\ nextSplitId \in Nat
    BY DEF cancel_split, EscrowInv, TypeOK
  <2>2. ~(id >= nextSplitId)
    BY <1>0 DEF EscrowInv, Exists, s
  <2> QED
    BY <1>0, <1>7, <1>12, <2>1, <2>2 DEF EscrowInv, Exists
<1> QED
  BY <1>13, <1>14, <1>15 DEF EscrowInv, Exists

\* The fee is never more than the amount it is taken from.
LEMMA FeeBounds ==
    ASSUME NEW total \in Nat, NEW bps \in 0..MAX_BPS
    PROVE  calculate_fee(total, bps) \in 0..total
<1>1. bps \in Nat /\ bps <= 10000
  BY DEF MAX_BPS
<1>2. total * bps \in Nat /\ total * bps <= total * 10000
  BY <1>1
<1> DEFINE x == total * bps
<1>3. x \in Nat /\ x <= total * 10000
  BY <1>2
<1> HIDE DEF x
<1>4. x \div 10000 \in 0..total
  BY <1>3
<1> QED
  BY <1>4 DEF calculate_fee, MAX_BPS, x

LEMMA CreditType ==
    ASSUME NEW w \in [Address -> Nat], NEW a, NEW amount \in Nat
    PROVE  Credit(w, a, amount) \in [Address -> Nat]
<1>1. Credit(w, a, amount) = [b \in Address |-> IF b = a THEN w[a] + amount ELSE w[b]]
  BY DEF Credit
<1>2. ASSUME NEW b \in Address
      PROVE  (IF b = a THEN w[a] + amount ELSE w[b]) \in Nat
  OBVIOUS
<1> QED
  BY <1>1, <1>2

\* release_funds takes exactly the deposited amount from the vault.
LEMMA ReleaseStep ==
    ASSUME EscrowInv, NEW id \in SplitId, release_funds(id)
    PROVE  EscrowInv'
<1> DEFINE s == splits[id]
           N == NumAddresses
           u == splits'[id]
           fee == calculate_fee(s.deposited_amount, feeBps)
           net == s.deposited_amount - fee
           paid == SumTo(Transfers(s, net), N)
<1>0. /\ s \in Split /\ SplitInv(s) /\ s.status = "Ready"
      /\ splits \in [SplitId -> Split] /\ wallet \in [Address -> Nat] /\ vault \in Nat
      /\ feeBps \in 0..MAX_BPS /\ fee + paid <= vault
      /\ treasury \in Address
  BY DEF EscrowInv, TypeOK, release_funds
<1>1. /\ s.deposited_amount > 0 /\ s.deposited_amount = s.total_amount
      /\ SumTo(s.obligations, N) = s.deposited_amount /\ s.deposited_amount \in Nat
      /\ s.creator \in Address \cup {None} /\ s.payee \in Address \cup {None}
  BY <1>0 DEF SplitInv, Split
<1>2. fee \in Nat /\ net \in 0..s.deposited_amount
  <2>1. fee \in 0..s.deposited_amount
    BY <1>0, <1>1, FeeBounds
  <2> QED
    BY <1>1, <2>1
<1>3. paid = net
  BY <1>0, <1>1, <1>2, TransfersAddUpToNet
<1>4. u = [s EXCEPT !.status = "Released"] /\ splits' = [splits EXCEPT ![id] = u]
  BY <1>0 DEF release_funds
<1>5. u \in Split
  BY <1>0, <1>4 DEF Split, Status
<1>6. SplitInv(u) /\ u.status = "Released"
  <2>1. /\ u.balances = s.balances /\ u.deposits = s.deposits
        /\ u.obligations = s.obligations /\ u.deposited_amount = s.deposited_amount
        /\ u.total_amount = s.total_amount /\ u.status = "Released"
    BY <1>0, <1>4 DEF Split
  <2> HIDE DEF u, s
  <2> QED
    BY <1>0, <1>1, <2>1 DEF SplitInv
<1>7. /\ vault' = vault - fee - paid
      /\ wallet' = Credit(Credit(wallet, treasury, fee), Payee(s), paid)
  BY DEF release_funds
<1>8. wallet' \in [Address -> Nat]
  <2>1. Credit(wallet, treasury, fee) \in [Address -> Nat]
    BY <1>0, <1>2, CreditType
  <2>2. paid \in Nat
    BY <1>1, <1>2, <1>3
  <2> QED
    BY <1>7, <2>1, <2>2, CreditType
<1>9. vault' \in Nat /\ vault' = vault - s.deposited_amount
  BY <1>0, <1>1, <1>2, <1>3, <1>7
<1>10. Held[id] = s.deposited_amount /\ Held'[id] = 0
  BY <1>0, <1>6 DEF Held, is_active
<1> HIDE DEF u, s
<1>11. TypeOK'
  <2>1. splits' \in [SplitId -> Split]
    BY <1>0, <1>4, <1>5
  <2> QED
    BY <1>8, <1>9, <2>1 DEF EscrowInv, TypeOK, release_funds, adminVars, pauseVars, listVars
<1>12. VaultMatchesEscrows'
  <2>1. vault' = vault + Held'[id] - Held[id]
    BY <1>0, <1>1, <1>9, <1>10
  <2>2. \A j \in SplitId : j # id => splits'[j] = splits[j]
    BY <1>0, <1>4
  <2>3. splits' \in [SplitId -> Split]
    BY <1>11 DEF TypeOK
  <2> QED
    BY <2>1, <2>2, <2>3, VaultFollowsSplit DEF EscrowInv
<1>13. \A j \in SplitId : SplitInv(splits'[j]) /\ (j >= nextSplitId' => splits'[j].status = "Absent")
  <2>1. nextSplitId' = nextSplitId /\ nextSplitId \in Nat
    BY DEF release_funds, EscrowInv, TypeOK
  <2>2. ~(id >= nextSplitId)
    BY <1>0 DEF EscrowInv, Exists, s
  <2> QED
    BY <1>0, <1>4, <1>6, <2>1, <2>2 DEF EscrowInv, Exists
<1> QED
  BY <1>11, <1>12, <1>13 DEF EscrowInv, Exists

\* create_escrow writes a fresh entry that owes nothing yet.
LEMMA CreateStep ==
    ASSUME EscrowInv, CreateNext
    PROVE  EscrowInv'
<1>1. PICK creator \in Creators, payee \in Payees, cap \in CapChoices,
           obligations \in [Address -> 0..MaxObligation], listed \in BOOLEAN,
           note \in Notes, metadata \in Metadatas :
             create_escrow(creator, obligations, SumTo(obligations, NumAddresses), cap,
                           listed, note, metadata, payee)
  BY DEF CreateNext
<1> DEFINE id == nextSplitId
           total == SumTo(obligations, NumAddresses)
           u == [NoSplit EXCEPT !.creator = creator, !.payee = payee,
                                !.total_amount = total, !.status = "Pending",
                                !.max_participants = cap,
                                !.obligations = obligations,
                                !.note = note, !.metadata = metadata]
<1>2. /\ obligations \in [Address -> Nat] /\ obligations \in [1..NumAddresses -> Int]
      /\ creator \in Address /\ payee \in Address \cup {None} /\ cap \in Nat
      /\ NumAddresses \in Nat /\ NumAddresses \in 0..NumAddresses
  BY EscrowConstants DEF Address, None
<1>3. total \in Nat /\ total > 0
  <2>1. total \in Int
    BY <1>2, SumSteps
  <2> QED
    BY <1>1, <2>1 DEF create_escrow
<1>4. /\ id \in SplitId /\ splits \in [SplitId -> Split] /\ ~Exists(id)
      /\ splits' = [splits EXCEPT ![id] = u]
      /\ nextSplitId' = id + 1 /\ vault' = vault /\ wallet' = wallet
      /\ whitelistEnabled' = [whitelistEnabled EXCEPT ![id] = listed]
      /\ vault \in Nat /\ id \in Nat
  <2>1. id \in SplitId /\ id \in Nat
    <3>1. nextSplitId \in 1..(MaxSplits + 1) /\ nextSplitId <= MaxSplits /\ MaxSplits \in Nat
      BY <1>1, EscrowConstants DEF create_escrow, EscrowInv, TypeOK
    <3> QED
      BY <3>1 DEF SplitId
  <2>2. splits \in [SplitId -> Split] /\ vault \in Nat /\ ~Exists(id)
    BY <2>1 DEF EscrowInv, TypeOK
  <2>3. /\ splits' = [splits EXCEPT ![id] = u]
        /\ nextSplitId' = id + 1 /\ vault' = vault /\ wallet' = wallet
        /\ whitelistEnabled' = [whitelistEnabled EXCEPT ![id] = listed]
    BY <1>1 DEF create_escrow, tokenVars
  <2> QED
    BY <2>1, <2>2, <2>3
<1>5. /\ u.creator = creator /\ u.payee = payee /\ u.total_amount = total
      /\ u.status = "Pending" /\ u.max_participants = cap /\ u.obligations = obligations
      /\ u.note = note /\ u.metadata = metadata /\ u.balances = Nothing
      /\ u.deposits = Nothing /\ u.deposited_amount = 0 /\ u.participants = {}
      /\ u.alerts = [a \in Address |-> [half |-> 0, full |-> 0]]
  BY DEF NoSplit
<1>6. u = [creator |-> u.creator, payee |-> u.payee, total_amount |-> u.total_amount,
           deposited_amount |-> u.deposited_amount, status |-> u.status,
           max_participants |-> u.max_participants, participants |-> u.participants,
           balances |-> u.balances, deposits |-> u.deposits,
           obligations |-> u.obligations, note |-> u.note, metadata |-> u.metadata,
           alerts |-> u.alerts]
  <2>1. u = [NoSplit EXCEPT !.creator = creator, !.payee = payee,
                            !.total_amount = total, !.status = "Pending",
                            !.max_participants = cap, !.obligations = obligations,
                            !.note = note, !.metadata = metadata]
    OBVIOUS
  <2> HIDE DEF total, id, u
  <2> QED
    BY <2>1, NoSplitIsSplit DEF Split
<1> HIDE DEF u
<1>7. u \in Split
  <2>1. u.alerts \in [Address -> [half : Nat, full : Nat]]
    BY <1>5
  <2> HIDE DEF total
  <2>2. /\ u.creator \in Address \cup {None} /\ u.payee \in Address \cup {None}
        /\ u.total_amount \in Nat /\ u.deposited_amount \in Nat /\ u.status \in Status
        /\ u.max_participants \in Nat /\ u.participants \in SUBSET Address
        /\ u.obligations \in [Address -> Nat] /\ u.note \in Notes /\ u.metadata \in Metadatas
    BY <1>2, <1>3, <1>5 DEF Status
  <2>3. u.balances \in [Address -> Nat] /\ u.deposits \in [Address -> Nat]
    BY <1>5, NothingIsZero
  <2> QED
    BY <1>6, <2>1, <2>2, <2>3, SplitByFields
<1>8. SplitInv(u)
  <2>1. SumTo(u.obligations, NumAddresses) = u.total_amount
    BY <1>5
  <2> HIDE DEF total
  <2> QED
    BY <1>2, <1>3, <1>5, <2>1, NothingIsZero DEF SplitInv, Nothing
<1>9. splits' \in [SplitId -> Split]
  BY <1>4, <1>7
<1>10. TypeOK'
  <2>1. nextSplitId' \in 1..(MaxSplits + 1)
    BY <1>1, <1>4, EscrowConstants DEF SplitId
  <2>2. whitelistEnabled' \in [SplitId -> BOOLEAN]
    BY <1>4 DEF EscrowInv, TypeOK
  <2> QED
    BY <1>1, <1>9, <2>1, <2>2 DEF EscrowInv, TypeOK, create_escrow, adminVars, pauseVars,
                                  tokenVars
<1>11. VaultMatchesEscrows'
  <2>1. Held[id] = 0 /\ Held'[id] = 0
    BY <1>4, <1>5 DEF Held, is_active, Exists
  <2>2. vault' = vault + Held'[id] - Held[id]
    BY <1>4, <2>1
  <2>3. \A j \in SplitId : j # id => splits'[j] = splits[j]
    BY <1>4
  <2> QED
    BY <1>4, <1>9, <2>2, <2>3, VaultFollowsSplit DEF EscrowInv
<1>12. \A j \in SplitId : SplitInv(splits'[j]) /\ (j >= nextSplitId' => splits'[j].status = "Absent")
  <2>1. \A j \in SplitId : j # id => splits'[j] = splits[j]
    BY <1>4
  <2>2. \A j \in SplitId : j >= id + 1 => j # id /\ j >= id
    BY <1>4 DEF SplitId
  <2> QED
    BY <1>4, <1>8, <2>1, <2>2 DEF EscrowInv, Exists
<1> QED
  BY <1>10, <1>11, <1>12 DEF EscrowInv, Exists

\* set_note and update_metadata leave the money side of the split alone.
LEMMA EditStep ==
    ASSUME EscrowInv, NEW id \in SplitId,
           \/ \E note \in Notes : set_note(id, note)
           \/ \E metadata \in Metadatas : update_metadata(id, metadata)
    PROVE  EscrowInv'
<1> DEFINE s == splits[id]
           u == splits'[id]
<1>0. s \in Split /\ SplitInv(s) /\ splits \in [SplitId -> Split] /\ vault \in Nat
  BY DEF EscrowInv, TypeOK
<1>1. /\ \/ \E note \in Notes : u = [s EXCEPT !.note = note]
         \/ \E metadata \in Metadatas : u = [s EXCEPT !.metadata = metadata]
      /\ splits' = [splits EXCEPT ![id] = u]
  BY <1>0 DEF set_note, update_metadata
<1>2. u \in Split
  BY <1>0, <1>1 DEF Split
<1>3. /\ u.balances = s.balances /\ u.deposits = s.deposits /\ u.status = s.status
      /\ u.obligations = s.obligations /\ u.deposited_amount = s.deposited_amount
      /\ u.total_amount = s.total_amount /\ u.participants = s.participants
  BY <1>0, <1>1 DEF Split
<1> HIDE DEF u, s
<1>4. SplitInv(u)
  BY <1>0, <1>3 DEF SplitInv
<1>5. /\ vault' = vault /\ wallet' = wallet /\ nextSplitId' = nextSplitId
      /\ UNCHANGED <<adminVars, pauseVars, listVars, now>>
  BY DEF set_note, update_metadata, tokenVars
<1>6. splits' \in [SplitId -> Split]
  BY <1>0, <1>1, <1>2
<1>7. TypeOK'
  BY <1>5, <1>6 DEF EscrowInv, TypeOK, adminVars, pauseVars, listVars
<1>8. VaultMatchesEscrows'
  <2>1. Held'[id] = Held[id] /\ Held[id] \in Int
    BY <1>0, <1>3 DEF Held, is_active, u, s, Split
  <2>2. \A j \in SplitId : j # id => splits'[j] = splits[j]
    BY <1>0, <1>1
  <2> QED
    BY <1>0, <1>5, <1>6, <2>1, <2>2, VaultFollowsSplit DEF EscrowInv
<1>9. \A j \in SplitId : SplitInv(splits'[j]) /\ (j >= nextSplitId' => splits'[j].status = "Absent")
  BY <1>0, <1>1, <1>3, <1>4, <1>5 DEF EscrowInv, Exists, s
<1> QED
  BY <1>7, <1>8, <1>9 DEF EscrowInv, Exists

\* Calls that touch neither splits nor tokens.
LEMMA QuietStep ==
    ASSUME EscrowInv, UNCHANGED <<splits, vault, nextSplitId>>, TypeOK'
    PROVE  EscrowInv'
<1>1. Held' = Held
  BY DEF Held, is_active
<1>2. VaultMatchesEscrows'
  BY <1>1 DEF EscrowInv, VaultMatchesEscrows
<1> QED
  BY <1>2 DEF EscrowInv, Exists

LEMMA AdminStep ==
    ASSUME EscrowInv, AdminNext
    PROVE  EscrowInv'
<1>1. TypeOK /\ now \in Nat /\ TimelockSeconds \in Nat
  BY EscrowConstants DEF EscrowInv, TypeOK
<1>2. CASE \E a \in Admins, v \in Versions : initialize(a, v)
  <2>1. TypeOK' /\ UNCHANGED <<splits, vault, nextSplitId>>
    BY <1>1, <1>2, EscrowConstants
       DEF TypeOK, initialize, pauseVars, listVars, tokenVars, Address, None, MAX_BPS
  <2> QED
    BY <2>1, QuietStep
<1>3. CASE \E v \in Versions : upgrade_version(v)
  <2>1. TypeOK' /\ UNCHANGED <<splits, vault, nextSplitId>>
    BY <1>1, <1>3 DEF TypeOK, upgrade_version, pauseVars, listVars, tokenVars
  <2> QED
    BY <2>1, QuietStep
<1>4. CASE \E bps \in FeeChoices : set_fee(bps)
  <2>1. TypeOK' /\ UNCHANGED <<splits, vault, nextSplitId>>
    BY <1>1, <1>4, EscrowConstants
       DEF TypeOK, set_fee, pauseVars, listVars, tokenVars, MAX_BPS
  <2> QED
    BY <2>1, QuietStep
<1>5. CASE \E a \in Treasuries : set_treasury(a)
  <2>1. TypeOK' /\ UNCHANGED <<splits, vault, nextSplitId>>
    BY <1>1, <1>5, EscrowConstants
       DEF TypeOK, set_treasury, pauseVars, listVars, tokenVars, Address, None
  <2> QED
    BY <2>1, QuietStep
<1>6. CASE pause
  <2>1. TypeOK' /\ UNCHANGED <<splits, vault, nextSplitId>>
    BY <1>1, <1>6 DEF TypeOK, pause, adminVars, listVars, tokenVars
  <2> QED
    BY <2>1, QuietStep
<1>7. CASE schedule_unpause
  <2>1. TypeOK' /\ UNCHANGED <<splits, vault, nextSplitId>>
    BY <1>1, <1>7 DEF TypeOK, schedule_unpause, adminVars, listVars, tokenVars
  <2> QED
    BY <2>1, QuietStep
<1>8. CASE unpause
  <2>1. TypeOK' /\ UNCHANGED <<splits, vault, nextSplitId>>
    BY <1>1, <1>8 DEF TypeOK, unpause, adminVars, listVars, tokenVars
  <2> QED
    BY <2>1, QuietStep
<1> QED
  BY <1>2, <1>3, <1>4, <1>5, <1>6, <1>7, <1>8 DEF AdminNext

LEMMA WhitelistStep ==
    ASSUME EscrowInv, NEW id \in SplitId,
           \/ \E a \in Guests : add_to_whitelist(id, a)
           \/ \E a \in Guests : remove_from_whitelist(id, a)
           \/ \E enabled \in BOOLEAN : toggle_whitelist(id, enabled)
    PROVE  EscrowInv'
<1>1. TypeOK /\ Guests \subseteq Address
  BY EscrowConstants DEF EscrowInv, Address
<1>2. whitelist' \in [SplitId -> SUBSET Address] /\ whitelistEnabled' \in [SplitId -> BOOLEAN]
  BY <1>1 DEF TypeOK, add_to_whitelist, remove_from_whitelist, toggle_whitelist
<1>3. TypeOK' /\ UNCHANGED <<splits, vault, nextSplitId>>
  BY <1>1, <1>2 DEF TypeOK, add_to_whitelist, remove_from_whitelist, toggle_whitelist,
                    adminVars, pauseVars, tokenVars
<1> QED
  BY <1>3, QuietStep

LEMMA TickStep ==
    ASSUME EscrowInv, Tick
    PROVE  EscrowInv'
<1>1. TypeOK' /\ UNCHANGED <<splits, vault, nextSplitId>>
  BY DEF EscrowInv, TypeOK, Tick, adminVars, pauseVars, listVars, tokenVars
<1> QED
  BY <1>1, QuietStep

LEMMA InitEstablishesInv == Init => EscrowInv
<1> SUFFICES ASSUME Init PROVE EscrowInv
  OBVIOUS
<1>1. TypeOK
  <2>1. splits \in [SplitId -> Split] /\ wallet \in [Address -> Nat]
    BY NoSplitIsSplit, EscrowConstants DEF Init
  <2>2. whitelistEnabled \in [SplitId -> BOOLEAN] /\ whitelist \in [SplitId -> SUBSET Address]
    BY DEF Init
  <2>3. nextSplitId \in 1..(MaxSplits + 1) /\ feeBps \in 0..MAX_BPS /\ vault \in Nat /\ now \in Nat
    BY EscrowConstants DEF Init, MAX_BPS
  <2> QED
    BY <2>1, <2>2, <2>3 DEF Init, TypeOK
<1>2. \A id \in SplitId : SplitInv(splits[id]) /\ ~Exists(id)
  BY NoSplitIsSplit DEF Init, Exists, NoSplit
<1>3. VaultMatchesEscrows
  <2>1. Held = [id \in 1..MaxSplits |-> 0]
    BY <1>2 DEF Held, is_active, Exists, Init, NoSplit, SplitId
  <2>2. Held \in [1..MaxSplits -> Int] /\ \A k \in (0+1)..MaxSplits : Held[k] = 0
    BY <2>1
  <2>3. MaxSplits \in Nat /\ 0 \in 0..MaxSplits
    BY EscrowConstants
  <2>4. SumTo(Held, MaxSplits) = SumTo(Held, 0) /\ SumTo(Held, 0) = 0
    BY <2>2, <2>3, SumTail, SumSteps
  <2> QED
    BY <2>4 DEF VaultMatchesEscrows, Init
<1> QED
  BY <1>1, <1>2, <1>3 DEF EscrowInv

LEMMA NextPreservesInv == EscrowInv /\ [Next]_escrowVars => EscrowInv'
<1> SUFFICES ASSUME EscrowInv, [Next]_escrowVars PROVE EscrowInv'
  OBVIOUS
<1>1. CASE AdminNext
  BY <1>1, AdminStep
<1>2. CASE CreateNext
  BY <1>2, CreateStep
<1>3. CASE EditNext
  BY <1>3, EditStep, WhitelistStep DEF EditNext
<1>4. CASE MoneyNext
  BY <1>4, DepositStep, CancelStep, ReleaseStep DEF MoneyNext
<1>5. CASE Tick
  BY <1>5, TickStep
<1>6. CASE UNCHANGED escrowVars
  <2>1. UNCHANGED <<splits, vault, nextSplitId>>
    BY <1>6 DEF escrowVars, tokenVars
  <2>2. TypeOK'
    BY <1>6 DEF EscrowInv, TypeOK, escrowVars, adminVars, pauseVars, listVars, tokenVars
  <2> QED
    BY <2>1, <2>2, QuietStep
<1> QED
  BY <1>1, <1>2, <1>3, <1>4, <1>5, <1>6 DEF Next

\* The inductive invariant holds in every behaviour.
THEOREM EscrowInvariant == Spec => []EscrowInv
<1>1. Init => EscrowInv
  BY InitEstablishesInv
<1>2. EscrowInv /\ [Next]_escrowVars => EscrowInv'
  BY NextPreservesInv
<1> QED
  BY <1>1, <1>2, PTL DEF Spec

-----------------------------------------------------------------------------
(* What follows from it *)

\* Storage keeps its types and no token balance ever goes negative.
THEOREM EscrowTypes == Spec => []TypeOK
<1>1. EscrowInv => TypeOK
  BY DEF EscrowInv
<1> QED
  BY <1>1, EscrowInvariant, PTL

\* The contract's token balance is exactly the sum of what the active escrows hold.
THEOREM EscrowVaultBacked == Spec => []VaultMatchesEscrows
<1>1. EscrowInv => VaultMatchesEscrows
  BY DEF EscrowInv
<1> QED
  BY <1>1, EscrowInvariant, PTL

\* balances, deposits and deposited_amount always agree, under the obligations.
THEOREM EscrowBooksAgree == Spec => []BooksAgree
<1>1. EscrowInv => BooksAgree
  BY DEF EscrowInv, BooksAgree, SplitInv
<1> QED
  BY <1>1, EscrowInvariant, PTL

\* A paid escrow has every balance equal to its obligation: the totals agree and no
\* balance exceeds its obligation.
LEMMA ReadyBalances == EscrowInv => ReadyIsFullyFunded
<1> SUFFICES ASSUME EscrowInv, NEW id \in SplitId,
                    splits[id].status \in {"Ready", "Released"}
             PROVE  splits[id].balances = splits[id].obligations
  BY DEF ReadyIsFullyFunded
<1> DEFINE s == splits[id]
<1>1. s \in Split /\ SplitInv(s) /\ NumAddresses \in Nat
  BY EscrowConstants DEF EscrowInv, TypeOK
<1>2. s.balances \in [Address -> Nat] /\ s.obligations \in [Address -> Nat]
  BY <1>1 DEF Split
<1>3. s.balances \in [1..NumAddresses -> Int] /\ s.obligations \in [1..NumAddresses -> Int]
  BY <1>2 DEF Address
<1>4. SumTo(s.balances, NumAddresses) = SumTo(s.obligations, NumAddresses)
  BY <1>1 DEF SplitInv
<1>5. \A k \in 1..NumAddresses : s.balances[k] <= s.obligations[k]
  BY <1>1 DEF SplitInv, Address
<1>6. \A k \in 1..NumAddresses : s.balances[k] = s.obligations[k]
  <2> HIDE DEF s
  <2> QED
    BY <1>1, <1>3, <1>4, <1>5, SumTight
<1>7. \A k \in Address : s.balances[k] = s.obligations[k]
  BY <1>6 DEF Address
<1> HIDE DEF s
<1>8. s.balances = s.obligations
  BY <1>2, <1>7
<1> QED
  BY <1>8 DEF s

\* A Ready (or Released) split has every balance equal to its obligation.
THEOREM EscrowReadyFunded == Spec => []ReadyIsFullyFunded
  BY ReadyBalances, EscrowInvariant, PTL

-----------------------------------------------------------------------------
(* What a call can never do: the action properties of SplitEscrow *)

\* The unpause schedule of a freeze is never earlier than a full timelock after the
\* freeze began: pause drops the old schedule and time only grows.
FreezeInv ==
    /\ paused => pausedSince \in Nat /\ pausedSince <= now
    /\ paused /\ unpauseAt # NoTime => unpauseAt >= pausedSince + TimelockSeconds

LEMMA FreezeInvStep == TypeOK /\ FreezeInv /\ [Next]_escrowVars => FreezeInv'
<1> SUFFICES ASSUME TypeOK, FreezeInv, [Next]_escrowVars PROVE FreezeInv'
  OBVIOUS
<1>1. now \in Nat /\ TimelockSeconds \in Nat /\ unpauseAt \in Int
  BY EscrowConstants DEF TypeOK, NoTime
<1>2. CASE UNCHANGED <<pauseVars, now>>
  BY <1>2 DEF FreezeInv, pauseVars
<1>3. CASE pause
  BY <1>1, <1>3 DEF FreezeInv, pause
<1>4. CASE schedule_unpause
  BY <1>1, <1>4 DEF FreezeInv, schedule_unpause
<1>5. CASE unpause
  BY <1>1, <1>5 DEF FreezeInv, unpause
<1>6. CASE Tick
  BY <1>1, <1>6 DEF FreezeInv, Tick, pauseVars
<1>7. CASE AdminNext
  BY <1>2, <1>3, <1>4, <1>5, <1>7
     DEF AdminNext, initialize, upgrade_version, set_fee, set_treasury
<1>8. CASE CreateNext
  BY <1>2, <1>8 DEF CreateNext, create_escrow
<1>9. CASE EditNext
  BY <1>2, <1>9 DEF EditNext, set_note, update_metadata, add_to_whitelist,
                    remove_from_whitelist, toggle_whitelist
<1>10. CASE MoneyNext
  BY <1>2, <1>10 DEF MoneyNext, deposit, cancel_split, release_funds
<1>11. CASE UNCHANGED escrowVars
  BY <1>2, <1>11 DEF escrowVars
<1> QED
  BY <1>6, <1>7, <1>8, <1>9, <1>10, <1>11 DEF Next

\* A freeze lasts at least the full timelock, whatever the admin schedules.
THEOREM EscrowFreezeLasts == Spec => FreezeLastsTimelock
<1>1. Init => FreezeInv
  BY DEF Init, FreezeInv
<1>2. TypeOK /\ FreezeInv /\ [Next]_escrowVars => FreezeInv'
  BY FreezeInvStep
<1>3. TypeOK /\ FreezeInv /\ [Next]_escrowVars
        => [paused /\ ~paused' => now >= pausedSince + TimelockSeconds]_escrowVars
  <2> SUFFICES ASSUME TypeOK, FreezeInv, Next, paused, ~paused'
               PROVE  now >= pausedSince + TimelockSeconds
    BY DEF escrowVars, pauseVars
  <2>1. now \in Nat /\ TimelockSeconds \in Nat /\ unpauseAt \in Int
    BY EscrowConstants DEF TypeOK, NoTime
  <2>2. ~UNCHANGED pauseVars
    BY DEF pauseVars
  <2>3. unpause
    <3>1. CASE AdminNext
      BY <2>2, <3>1 DEF AdminNext, initialize, upgrade_version, set_fee, set_treasury,
                        pause, schedule_unpause
    <3>2. ~CreateNext
      BY <2>2 DEF CreateNext, create_escrow
    <3>3. ~EditNext
      BY <2>2 DEF EditNext, set_note, update_metadata, add_to_whitelist,
                  remove_from_whitelist, toggle_whitelist
    <3>4. ~MoneyNext
      BY <2>2 DEF MoneyNext, deposit, cancel_split, release_funds
    <3>5. ~Tick
      BY <2>2 DEF Tick
    <3> QED
      BY <3>1, <3>2, <3>3, <3>4, <3>5 DEF Next
  <2> QED
    BY <2>1, <2>3 DEF unpause, FreezeInv
<1> QED
  BY <1>1, <1>2, <1>3, EscrowTypes, PTL DEF Spec, FreezeLastsTimelock

\* While the freeze is on no token moves and no escrow changes status.
THEOREM EscrowFreezeHalts == Spec => FreezeHaltsMoney
<1> DEFINE Halted == paused => /\ vault' = vault /\ wallet' = wallet
                               /\ \A id \in SplitId :
                                    Exists(id) => splits'[id].status = splits[id].status
<1>1. EscrowInv /\ [Next]_escrowVars => [Halted]_escrowVars
  <2> SUFFICES ASSUME EscrowInv, Next, paused PROVE Halted
    BY DEF escrowVars
  <2>1. splits \in [SplitId -> Split] /\ nextSplitId \in Nat
    BY EscrowConstants DEF EscrowInv, TypeOK
  <2>2. CASE UNCHANGED <<splits, tokenVars>>
    BY <2>2 DEF tokenVars
  <2>3. CASE AdminNext
    BY <2>2, <2>3 DEF AdminNext, initialize, upgrade_version, set_fee, set_treasury,
                      pause, schedule_unpause, unpause
  <2>4. CASE CreateNext
    BY <2>1, <2>4 DEF CreateNext, create_escrow, EscrowInv, tokenVars
  <2>5. CASE EditNext
    <3>1. ASSUME NEW id \in SplitId, NEW note, set_note(id, note) PROVE Halted
      BY <2>1, <3>1 DEF set_note, tokenVars, Split
    <3>2. ASSUME NEW id \in SplitId, NEW metadata, update_metadata(id, metadata) PROVE Halted
      BY <2>1, <3>2 DEF update_metadata, tokenVars, Split
    <3> QED
      BY <2>2, <2>5, <3>1, <3>2 DEF EditNext, add_to_whitelist, remove_from_whitelist,
                                    toggle_whitelist
  <2>6. ~MoneyNext
    BY DEF MoneyNext, deposit, cancel_split, release_funds, require_not_paused
  <2>7. CASE Tick
    BY <2>2, <2>7 DEF Tick
  <2> QED
    BY <2>3, <2>4, <2>5, <2>6, <2>7 DEF Next
<1> QED
  BY <1>1, EscrowInvariant, PTL DEF Spec, FreezeHaltsMoney

LEMMA TerminalStep ==
    ASSUME EscrowInv, [Next]_escrowVars, NEW id \in SplitId,
           splits[id].status \in {"Released", "Cancelled"}
    PROVE  splits'[id] = splits[id]
<1>1. splits \in [SplitId -> Split] /\ nextSplitId \in Nat /\ id \in Nat
  BY EscrowConstants DEF EscrowInv, TypeOK, SplitId
<1>2. ~is_active(id) /\ Exists(id) /\ splits[id].status # "Ready"
  BY DEF is_active, Exists
<1>3. CASE AdminNext
  BY <1>3 DEF AdminNext, initialize, upgrade_version, set_fee, set_treasury,
              pause, schedule_unpause, unpause
<1>4. CASE CreateNext
  <2>1. id # nextSplitId
    BY <1>1, <1>2 DEF EscrowInv
  <2> QED
    BY <1>1, <1>4, <2>1 DEF CreateNext, create_escrow
<1>5. CASE EditNext
  BY <1>1, <1>2, <1>5 DEF EditNext, set_note, update_metadata, add_to_whitelist,
                          remove_from_whitelist, toggle_whitelist
<1>6. CASE MoneyNext
  <2>1. ASSUME NEW j \in SplitId, NEW a \in Address, NEW amount \in 1..MaxObligation,
               deposit(j, a, amount)
        PROVE  splits'[id] = splits[id]
    <3>1. j # id
      BY <2>1 DEF deposit
    <3> QED
      BY <1>1, <2>1, <3>1 DEF deposit
  <2>2. ASSUME NEW j \in SplitId, cancel_split(j) PROVE splits'[id] = splits[id]
    <3>1. j # id
      BY <1>2, <2>2 DEF cancel_split
    <3> QED
      BY <1>1, <2>2, <3>1 DEF cancel_split
  <2>3. ASSUME NEW j \in SplitId, release_funds(j) PROVE splits'[id] = splits[id]
    <3>1. j # id
      BY <1>2, <2>3 DEF release_funds
    <3> QED
      BY <1>1, <2>3, <3>1 DEF release_funds
  <2> QED
    BY <1>6, <2>1, <2>2, <2>3 DEF MoneyNext
<1>7. CASE Tick
  BY <1>7 DEF Tick
<1> QED
  BY <1>3, <1>4, <1>5, <1>6, <1>7 DEF Next, escrowVars

\* Released and Cancelled escrows never change again.
THEOREM EscrowTerminalFinal == Spec => TerminalIsFinal
<1>1. EscrowInv /\ [Next]_escrowVars
        => [\A id \in SplitId : splits[id].status \in {"Released", "Cancelled"}
                                 => splits'[id] = splits[id]]_escrowVars
  BY TerminalStep
<1> QED
  BY <1>1, EscrowInvariant, PTL DEF Spec, TerminalIsFinal

-----------------------------------------------------------------------------
(* Which call ends an escrow *)

LEMMA StatusChange ==
    ASSUME EscrowInv, Next, NEW id \in SplitId, Exists(id),
           splits'[id].status # splits[id].status
    PROVE  \/ \E a \in Address, amount \in 1..MaxObligation : deposit(id, a, amount)
           \/ cancel_split(id)
           \/ release_funds(id)
<1>1. splits \in [SplitId -> Split] /\ nextSplitId \in Nat /\ id \in Nat
  BY EscrowConstants DEF EscrowInv, TypeOK, SplitId
<1>2. ~AdminNext
  BY DEF AdminNext, initialize, upgrade_version, set_fee, set_treasury,
         pause, schedule_unpause, unpause
<1>3. ~CreateNext
  <2> SUFFICES ASSUME CreateNext PROVE FALSE
    OBVIOUS
  <2>1. id # nextSplitId
    BY <1>1 DEF EscrowInv
  <2> QED
    BY <1>1, <2>1 DEF CreateNext, create_escrow
<1>4. ~EditNext
  <2>1. ASSUME NEW j \in SplitId, NEW note, set_note(j, note) PROVE FALSE
    BY <1>1, <2>1 DEF set_note, Split
  <2>2. ASSUME NEW j \in SplitId, NEW metadata, update_metadata(j, metadata) PROVE FALSE
    BY <1>1, <2>2 DEF update_metadata, Split
  <2> QED
    BY <2>1, <2>2 DEF EditNext, add_to_whitelist, remove_from_whitelist, toggle_whitelist
<1>5. ~Tick
  BY DEF Tick
<1>6. PICK j \in SplitId :
         \/ \E a \in Address, amount \in 1..MaxObligation : deposit(j, a, amount)
         \/ cancel_split(j)
         \/ release_funds(j)
  BY <1>2, <1>3, <1>4, <1>5 DEF Next, MoneyNext
<1>7. j = id
  BY <1>1, <1>6 DEF deposit, cancel_split, release_funds
<1> QED
  BY <1>6, <1>7

LEMMA StatusAfter ==
    ASSUME EscrowInv, NEW id \in SplitId
    PROVE  /\ \A a \in Address, amount \in 1..MaxObligation :
                deposit(id, a, amount) => splits'[id].status \in {"Pending", "Ready"}
           /\ cancel_split(id) => splits'[id].status = "Cancelled"
           /\ release_funds(id) => splits'[id].status = "Released"
<1>1. splits \in [SplitId -> Split]
  BY DEF EscrowInv, TypeOK
<1>2. ASSUME NEW a \in Address, NEW amount \in 1..MaxObligation, deposit(id, a, amount)
      PROVE  splits'[id].status \in {"Pending", "Ready"}
  <2>1. splits'[id] = AfterDeposit(splits[id], a, amount)
    BY <1>1, <1>2 DEF deposit
  <2>2. splits[id] \in Split
    BY <1>1
  <2> QED
    BY <2>1, <2>2 DEF AfterDeposit, Split
<1>3. ASSUME cancel_split(id) PROVE splits'[id].status = "Cancelled"
  BY <1>1, <1>3 DEF cancel_split, Split
<1>4. ASSUME release_funds(id) PROVE splits'[id].status = "Released"
  BY <1>1, <1>4 DEF release_funds, Split
<1> QED
  BY <1>2, <1>3, <1>4

\* Cancelling gives every account back exactly what it put into the escrow.
THEOREM EscrowCancelRefunds == Spec => CancelRefundsDeposits
<1> DEFINE Refunded == \A id \in SplitId :
                         is_active(id) /\ splits'[id].status = "Cancelled" =>
                           \A a \in Address : wallet'[a] = wallet[a] + splits[id].deposits[a]
<1>1. EscrowInv /\ [Next]_escrowVars => [Refunded]_escrowVars
  <2> SUFFICES ASSUME EscrowInv, Next, NEW id \in SplitId, is_active(id),
                      splits'[id].status = "Cancelled", NEW a \in Address
               PROVE  wallet'[a] = wallet[a] + splits[id].deposits[a]
    BY DEF escrowVars
  <2>1. Exists(id) /\ splits'[id].status # splits[id].status
    BY DEF is_active, Exists
  <2>2. cancel_split(id)
    BY <2>1, StatusChange, StatusAfter
  <2>3. splits[id] \in Split /\ SplitInv(splits[id])
    BY DEF EscrowInv, TypeOK
  <2>4. Refund(splits[id]) = splits[id].balances
    BY <2>3, RefundIsDeposited DEF is_active
  <2>5. splits[id].balances = splits[id].deposits
    BY <2>3 DEF SplitInv
  <2>6. wallet' = [b \in Address |-> wallet[b] + Refund(splits[id])[b]]
    BY <2>2 DEF cancel_split
  <2> QED
    BY <2>4, <2>5, <2>6
<1> QED
  BY <1>1, EscrowInvariant, PTL DEF Spec, CancelRefundsDeposits

\* A release pays the whole escrow out: the rounded-down fee to the treasury and
\* every remaining unit to the payee, whatever the obligations of the split.
THEOREM EscrowReleasePays == Spec => ReleasePaysNetToPayee
<1> DEFINE fee(s) == (s.total_amount * feeBps) \div MAX_BPS
           Paid == \A id \in SplitId :
             splits[id].status = "Ready" /\ splits'[id].status = "Released" =>
               \A a \in Address :
                 wallet'[a] = wallet[a]
                                + (IF a = treasury THEN fee(splits[id]) ELSE 0)
                                + (IF a = Payee(splits[id])
                                   THEN splits[id].total_amount - fee(splits[id]) ELSE 0)
<1>1. EscrowInv /\ [Next]_escrowVars => [Paid]_escrowVars
  <2> SUFFICES ASSUME EscrowInv, Next, NEW id \in SplitId, splits[id].status = "Ready",
                      splits'[id].status = "Released"
               PROVE  \A a \in Address :
                        wallet'[a] = wallet[a]
                                       + (IF a = treasury THEN fee(splits[id]) ELSE 0)
                                       + (IF a = Payee(splits[id])
                                          THEN splits[id].total_amount - fee(splits[id]) ELSE 0)
    BY DEF escrowVars
  <2> DEFINE s == splits[id]
             f == calculate_fee(s.deposited_amount, feeBps)
             net == s.deposited_amount - f
             paid == SumTo(Transfers(s, net), NumAddresses)
  <2>1. release_funds(id)
    BY StatusChange, StatusAfter DEF Exists
  <2>2. s \in Split /\ SplitInv(s) /\ wallet \in [Address -> Nat] /\ feeBps \in 0..MAX_BPS
    BY DEF EscrowInv, TypeOK
  <2>3. /\ s.deposited_amount \in Nat /\ s.deposited_amount > 0
        /\ s.deposited_amount = s.total_amount
        /\ SumTo(s.obligations, NumAddresses) = s.deposited_amount
    BY <2>2 DEF SplitInv, Split
  <2>4. f \in 0..s.deposited_amount
    BY <2>2, <2>3, FeeBounds
  <2>5. net \in 0..s.deposited_amount
    BY <2>3, <2>4
  <2>6. paid = net
    <3> HIDE DEF s, net
    <3> QED
      BY <2>2, <2>3, <2>5, TransfersAddUpToNet
  <2>7. f = fee(s)
    BY <2>3 DEF calculate_fee
  <2>8. wallet' = Credit(Credit(wallet, treasury, f), Payee(s), paid)
    BY <2>1 DEF release_funds
  <2> DEFINE payee == Payee(s)
  <2>9. wallet' = Credit(Credit(wallet, treasury, f), payee, net)
    BY <2>6, <2>8
  <2>10. f \in Nat /\ net \in Nat /\ net = s.total_amount - f
    BY <2>3, <2>4, <2>5
  <2> HIDE DEF s, f, net, payee, paid
  <2>11. \A a \in Address :
            wallet'[a] = wallet[a] + (IF a = treasury THEN f ELSE 0)
                                   + (IF a = payee THEN net ELSE 0)
    BY <2>2, <2>9, <2>10 DEF Credit
  <2> QED
    BY <2>7, <2>10, <2>11 DEF s, payee
<1> QED
  BY <1>1, EscrowInvariant, PTL DEF Spec, ReleasePaysNetToPayee

-----------------------------------------------------------------------------
(* The refund loop *)

\* The number of participants of an escrow never exceeds its cap.
CapInv ==
    \A id \in SplitId :
        /\ IsFiniteSet(splits[id].participants)
        /\ Cardinality(splits[id].participants) <= splits[id].max_participants

LEMMA CapStep == EscrowInv /\ CapInv /\ [Next]_escrowVars => CapInv'
<1> SUFFICES ASSUME EscrowInv, CapInv, [Next]_escrowVars PROVE CapInv'
  OBVIOUS
<1>1. splits \in [SplitId -> Split]
  BY DEF EscrowInv, TypeOK
<1> DEFINE Capped(s) == IsFiniteSet(s.participants)
                          /\ Cardinality(s.participants) <= s.max_participants
<1>2. CASE UNCHANGED splits
  BY <1>2 DEF CapInv
<1>3. ASSUME NEW j \in SplitId, NEW u, splits' = [splits EXCEPT ![j] = u], Capped(u)
      PROVE  CapInv'
  BY <1>1, <1>3 DEF CapInv
<1>4. CASE AdminNext
  BY <1>2, <1>4 DEF AdminNext, initialize, upgrade_version, set_fee, set_treasury,
                    pause, schedule_unpause, unpause
<1>5. CASE CreateNext
  <2>1. PICK creator \in Creators, payee \in Payees, cap \in CapChoices,
             obligations \in [Address -> 0..MaxObligation], listed \in BOOLEAN,
             note \in Notes, metadata \in Metadatas :
               create_escrow(creator, obligations, SumTo(obligations, NumAddresses), cap,
                             listed, note, metadata, payee)
    BY <1>5 DEF CreateNext
  <2> DEFINE u == [NoSplit EXCEPT !.creator = creator, !.payee = payee,
                                  !.total_amount = SumTo(obligations, NumAddresses),
                                  !.status = "Pending", !.max_participants = cap,
                                  !.obligations = obligations,
                                  !.note = note, !.metadata = metadata]
  <2>2. splits' = [splits EXCEPT ![nextSplitId] = u]
    BY <2>1 DEF create_escrow
  <2>3. nextSplitId \in SplitId
    BY <2>1, EscrowConstants DEF create_escrow, EscrowInv, TypeOK, SplitId
  <2>4. u.participants = {} /\ u.max_participants = cap /\ cap \in Nat
    BY EscrowConstants DEF NoSplit
  <2>5. Capped(u)
    BY <2>4, FS_EmptySet
  <2> HIDE DEF u
  <2> QED
    BY <1>3, <2>2, <2>3, <2>5
<1>6. CASE EditNext
  <2>1. ASSUME NEW id \in SplitId, NEW note, set_note(id, note) PROVE CapInv'
    BY <1>1, <2>1 DEF set_note, Split, CapInv
  <2>2. ASSUME NEW id \in SplitId, NEW metadata, update_metadata(id, metadata) PROVE CapInv'
    BY <1>1, <2>2 DEF update_metadata, Split, CapInv
  <2> QED
    BY <1>2, <1>6, <2>1, <2>2 DEF EditNext, add_to_whitelist, remove_from_whitelist,
                                  toggle_whitelist
<1>7. CASE MoneyNext
  <2>1. ASSUME NEW id \in SplitId, NEW a \in Address, NEW amount \in 1..MaxObligation,
               deposit(id, a, amount)
        PROVE  CapInv'
    <3> DEFINE s == splits[id]
    <3>1. /\ splits' = [splits EXCEPT ![id] = AfterDeposit(s, a, amount)]
          /\ MayJoin(s, a)
      BY <2>1 DEF deposit
    <3>2. s \in Split /\ Capped(s) /\ s.max_participants \in Nat
      BY <1>1 DEF CapInv, Split
    <3>3. AfterDeposit(s, a, amount).participants = s.participants \cup {a}
          /\ AfterDeposit(s, a, amount).max_participants = s.max_participants
      BY <3>2 DEF AfterDeposit, Split
    <3>4. IsFiniteSet(s.participants \cup {a})
          /\ Cardinality(s.participants \cup {a})
               = IF a \in s.participants THEN Cardinality(s.participants)
                                         ELSE Cardinality(s.participants) + 1
      BY <3>2, FS_AddElement
    <3>5. Cardinality(s.participants) \in Nat
      BY <3>2, FS_CardinalityType
    <3> HIDE DEF s
    <3>6. Capped(AfterDeposit(s, a, amount))
      BY <3>1, <3>2, <3>3, <3>4, <3>5 DEF MayJoin
    <3> QED
      BY <1>3, <3>1, <3>6
  <2>2. ASSUME NEW id \in SplitId, cancel_split(id) PROVE CapInv'
    <3> DEFINE u == splits'[id]
    <3>1. splits' = [splits EXCEPT ![id] = u] /\ u.participants = {}
          /\ u.max_participants = splits[id].max_participants
      BY <1>1, <2>2 DEF cancel_split, Split
    <3>2. splits[id].max_participants \in Nat
      BY <1>1 DEF Split
    <3> HIDE DEF u
    <3>3. Capped(u)
      BY <3>1, <3>2, FS_EmptySet
    <3> QED
      BY <1>3, <3>1, <3>3
  <2>3. ASSUME NEW id \in SplitId, release_funds(id) PROVE CapInv'
    BY <1>1, <2>3 DEF release_funds, Split, CapInv
  <2> QED
    BY <1>7, <2>1, <2>2, <2>3 DEF MoneyNext
<1>8. CASE Tick
  BY <1>2, <1>8 DEF Tick
<1> QED
  BY <1>2, <1>4, <1>5, <1>6, <1>7, <1>8 DEF Next, escrowVars

LEMMA InitCaps == Init => CapInv
<1>1. NoSplit.participants = {} /\ NoSplit.max_participants = 0
  BY DEF NoSplit
<1>2. \A id \in SplitId : Init => splits[id] = NoSplit
  BY DEF Init
<1> QED
  BY <1>1, <1>2, FS_EmptySet DEF CapInv

\* Nobody with money in an active escrow is missing from its refund loop, and the
\* loop never runs over more participants than the cap allows.
THEOREM EscrowRefundComplete == Spec => []RefundReachesEveryone
<1>1. Init => CapInv
  BY InitCaps
<1>2. EscrowInv /\ CapInv => RefundReachesEveryone
  <2> SUFFICES ASSUME EscrowInv, CapInv, NEW id \in SplitId
               PROVE  /\ \A a \in Address : splits[id].balances[a] > 0 /\ is_active(id)
                                              => a \in splits[id].participants
                      /\ Cardinality(splits[id].participants) <= splits[id].max_participants
    BY DEF RefundReachesEveryone
  <2> QED
    BY DEF EscrowInv, SplitInv, CapInv, is_active
<1> QED
  BY <1>1, <1>2, CapStep, EscrowInvariant, PTL DEF Spec

-----------------------------------------------------------------------------
(* Alerts and caps *)

Obligors(s) == {a \in Address : s.obligations[a] > 0}

\* The alerts of a record are those its deposits call for.
AlertsFit(s) ==
    \A a \in Address :
        /\ s.alerts[a].full = IF s.obligations[a] > 0 /\ s.deposits[a] = s.obligations[a]
                              THEN 1 ELSE 0
        /\ s.alerts[a].half = IF s.obligations[a] > 1
                                 /\ s.deposits[a] >= s.obligations[a] \div 2
                              THEN 1 ELSE 0

\* A released record had room for everyone who owes.
RoomForAll(s) == Cardinality(Obligors(s)) <= s.max_participants

AlertInv ==
    \A id \in SplitId :
        /\ is_active(id) => AlertsFit(splits[id])
        /\ splits[id].status = "Released" => RoomForAll(splits[id])

\* One deposit crosses a level once: it starts below or at it and never ends above the
\* obligation.
LEMMA CrossedOnce ==
    ASSUME NEW o \in Nat, o > 0, NEW d \in Nat, NEW m \in Nat, m > 0, d + m <= o
    PROVE  /\ (IF d = o THEN 1 ELSE 0) + Crossed(d, d + m, o) = IF d + m = o THEN 1 ELSE 0
           /\ (IF o > 1 /\ d >= o \div 2 THEN 1 ELSE 0) + Crossed(d, d + m, o \div 2)
                = IF o > 1 /\ d + m >= o \div 2 THEN 1 ELSE 0
<1> DEFINE h == o \div 2
<1>1. h \in Nat /\ (o > 1 => h > 0) /\ (o = 1 => h = 0)
  OBVIOUS
<1> HIDE DEF h
<1>2. (IF d = o THEN 1 ELSE 0) + Crossed(d, d + m, o) = IF d + m = o THEN 1 ELSE 0
  BY DEF Crossed
<1>3. (IF o > 1 /\ d >= h THEN 1 ELSE 0) + Crossed(d, d + m, h) = IF o > 1 /\ d + m >= h THEN 1 ELSE 0
  <2>1. CASE o > 1
    BY <1>1, <2>1 DEF Crossed
  <2>2. CASE o = 1
    BY <1>1, <2>2 DEF Crossed
  <2> QED
    BY <2>1, <2>2
<1> QED
  BY <1>2, <1>3 DEF h

\* A deposit keeps the alerts of its record right.
LEMMA DepositAlerts ==
    ASSUME NEW s \in Split, NEW a \in Address, NEW amount \in Nat, amount > 0, AlertsFit(s),
           s.obligations[a] > 0, WithinObligation(s, a, amount)
    PROVE  AlertsFit(AfterDeposit(s, a, amount))
<1> DEFINE t == AfterDeposit(s, a, amount)
           o == s.obligations[a]
           d == s.deposits[a]
<1>1. /\ o \in Nat /\ d \in Nat /\ d + amount <= o
      /\ s.alerts[a].full \in Nat /\ s.alerts[a].half \in Nat
  BY DEF Split, WithinObligation
<1>2. /\ t.obligations = s.obligations
      /\ \A b \in Address : t.deposits[b] = IF b = a THEN d + amount ELSE s.deposits[b]
      /\ \A b \in Address : t.alerts[b] = IF b = a THEN AlertsAfter(s.alerts[a], d, d + amount, o)
                                                   ELSE s.alerts[b]
  BY DEF Split, AfterDeposit
<1>3. /\ s.alerts[a].full = IF d = o THEN 1 ELSE 0
      /\ s.alerts[a].half = IF o > 1 /\ d >= o \div 2 THEN 1 ELSE 0
  BY <1>1 DEF AlertsFit
<1>4. /\ AlertsAfter(s.alerts[a], d, d + amount, o).full
           = s.alerts[a].full + Crossed(d, d + amount, o)
      /\ AlertsAfter(s.alerts[a], d, d + amount, o).half
           = s.alerts[a].half + Crossed(d, d + amount, o \div 2)
  BY DEF AlertsAfter
<1>5. o > 0
  OBVIOUS
<1> HIDE DEF t, o, d
<1>6. /\ AlertsAfter(s.alerts[a], d, d + amount, o).full = IF d + amount = o THEN 1 ELSE 0
      /\ AlertsAfter(s.alerts[a], d, d + amount, o).half
           = IF o > 1 /\ d + amount >= o \div 2 THEN 1 ELSE 0
  <2>1. /\ (IF d = o THEN 1 ELSE 0) + Crossed(d, d + amount, o)
             = IF d + amount = o THEN 1 ELSE 0
        /\ (IF o > 1 /\ d >= o \div 2 THEN 1 ELSE 0) + Crossed(d, d + amount, o \div 2)
             = IF o > 1 /\ d + amount >= o \div 2 THEN 1 ELSE 0
    BY <1>1, <1>5, CrossedOnce
  <2> QED
    BY <1>3, <1>4, <2>1, Zenon
<1>7. ASSUME NEW b \in Address
      PROVE  /\ t.alerts[b].full = IF t.obligations[b] > 0 /\ t.deposits[b] = t.obligations[b]
                                   THEN 1 ELSE 0
             /\ t.alerts[b].half = IF t.obligations[b] > 1
                                      /\ t.deposits[b] >= t.obligations[b] \div 2
                                   THEN 1 ELSE 0
  <2>1. CASE b = a
    BY <1>2, <1>5, <1>6, <2>1 DEF o
  <2>2. CASE b # a
    BY <1>2, <2>2 DEF AlertsFit
  <2> QED
    BY <2>1, <2>2
<1>8. AlertsFit(t)
  BY <1>7 DEF AlertsFit
<1> QED
  BY <1>8 DEF t

\* A fully paid escrow has every obligor among its participants, whose number is capped.
LEMMA ReadyHasRoom ==
    ASSUME EscrowInv, CapInv, NEW id \in SplitId, splits[id].status = "Ready"
    PROVE  RoomForAll(splits[id])
<1> DEFINE s == splits[id]
<1>1. s \in Split /\ SplitInv(s) /\ IsFiniteSet(s.participants)
      /\ Cardinality(s.participants) <= s.max_participants
  BY DEF EscrowInv, TypeOK, CapInv
<1>2. \A a \in Address : s.balances[a] = s.obligations[a]
  BY ReadyBalances DEF ReadyIsFullyFunded
<1>3. Obligors(s) \subseteq s.participants
  BY <1>1, <1>2 DEF SplitInv, Obligors
<1>4. /\ Cardinality(Obligors(s)) <= Cardinality(s.participants)
      /\ Cardinality(Obligors(s)) \in Nat /\ Cardinality(s.participants) \in Nat
  BY <1>1, <1>3, FS_Subset, FS_CardinalityType
<1>5. s.max_participants \in Nat
  BY <1>1 DEF Split
<1> HIDE DEF s
<1>6. RoomForAll(s)
  BY <1>1, <1>4, <1>5 DEF RoomForAll
<1> QED
  BY <1>6 DEF s

\* What a step does to one record.
SameAccount(t, s) ==
    /\ t.obligations = s.obligations /\ t.max_participants = s.max_participants
    /\ t.deposits = s.deposits /\ t.alerts = s.alerts

LEMMA RecordStep ==
    ASSUME EscrowInv, [Next]_escrowVars, NEW id \in SplitId
    PROVE  \/ SameAccount(splits'[id], splits[id]) /\ splits'[id].status = splits[id].status
           \/ splits'[id].deposits = Nothing /\ splits'[id].alerts = NoSplit.alerts
              /\ splits'[id].status = "Pending"
           \/ \E a \in Address, amount \in 1..MaxObligation : deposit(id, a, amount)
           \/ splits'[id].status = "Cancelled"
           \/ SameAccount(splits'[id], splits[id]) /\ splits[id].status = "Ready"
              /\ splits'[id].status = "Released"
<1>1. splits \in [SplitId -> Split] /\ splits[id] \in Split
  BY DEF EscrowInv, TypeOK
<1>2. CASE splits'[id] = splits[id]
  BY <1>2 DEF SameAccount
<1>3. CASE AdminNext \/ Tick \/ UNCHANGED escrowVars
  BY <1>2, <1>3 DEF AdminNext, initialize, upgrade_version, set_fee, set_treasury,
                    pause, schedule_unpause, unpause, Tick, escrowVars
<1>4. CASE CreateNext
  <2>1. PICK creator \in Creators, payee \in Payees, cap \in CapChoices,
             obligations \in [Address -> 0..MaxObligation], listed \in BOOLEAN,
             note \in Notes, metadata \in Metadatas :
               create_escrow(creator, obligations, SumTo(obligations, NumAddresses), cap,
                             listed, note, metadata, payee)
    BY <1>4 DEF CreateNext
  <2> DEFINE u == [NoSplit EXCEPT !.creator = creator, !.payee = payee,
                                  !.total_amount = SumTo(obligations, NumAddresses),
                                  !.status = "Pending", !.max_participants = cap,
                                  !.obligations = obligations,
                                  !.note = note, !.metadata = metadata]
  <2>2. splits' = [splits EXCEPT ![nextSplitId] = u]
    BY <2>1 DEF create_escrow
  <2>3. u.deposits = Nothing /\ u.alerts = NoSplit.alerts /\ u.status = "Pending"
    BY DEF NoSplit
  <2> HIDE DEF u
  <2> QED
    BY <1>1, <1>2, <2>2, <2>3
<1>5. CASE EditNext
  <2>1. ASSUME NEW j \in SplitId, NEW note, set_note(j, note)
        PROVE  SameAccount(splits'[id], splits[id]) /\ splits'[id].status = splits[id].status
    BY <1>1, <2>1 DEF set_note, Split, SameAccount
  <2>2. ASSUME NEW j \in SplitId, NEW metadata, update_metadata(j, metadata)
        PROVE  SameAccount(splits'[id], splits[id]) /\ splits'[id].status = splits[id].status
    BY <1>1, <2>2 DEF update_metadata, Split, SameAccount
  <2> QED
    BY <1>2, <1>5, <2>1, <2>2 DEF EditNext, add_to_whitelist, remove_from_whitelist,
                                  toggle_whitelist
<1>6. CASE MoneyNext
  <2>1. ASSUME NEW j \in SplitId, NEW a \in Address, NEW amount \in 1..MaxObligation,
               deposit(j, a, amount), j # id
        PROVE  splits'[id] = splits[id]
    BY <1>1, <2>1 DEF deposit
  <2>2. ASSUME NEW j \in SplitId, cancel_split(j)
        PROVE  splits'[id] = splits[id] \/ splits'[id].status = "Cancelled"
    BY <1>1, <2>2 DEF cancel_split, Split
  <2>3. ASSUME NEW j \in SplitId, release_funds(j)
        PROVE  \/ splits'[id] = splits[id]
               \/ SameAccount(splits'[id], splits[id]) /\ splits[id].status = "Ready"
                  /\ splits'[id].status = "Released"
    BY <1>1, <2>3 DEF release_funds, Split, SameAccount
  <2> QED
    BY <1>2, <1>6, <2>1, <2>2, <2>3 DEF MoneyNext
<1> QED
  BY <1>3, <1>4, <1>5, <1>6 DEF Next

LEMMA AlertStep ==
    ASSUME EscrowInv, CapInv, AlertInv, [Next]_escrowVars, EscrowInv'
    PROVE  AlertInv'
<1> SUFFICES ASSUME NEW id \in SplitId
             PROVE  /\ is_active(id)' => AlertsFit(splits'[id])
                    /\ splits'[id].status = "Released" => RoomForAll(splits'[id])
  BY DEF AlertInv
<1>1. splits \in [SplitId -> Split] /\ splits[id] \in Split
  BY DEF EscrowInv, TypeOK
<1>2. splits[id].status = "Ready" => RoomForAll(splits[id])
  BY ReadyHasRoom
<1>3. CASE SameAccount(splits'[id], splits[id]) /\ splits'[id].status = splits[id].status
  BY <1>3 DEF SameAccount, AlertInv, AlertsFit, RoomForAll, Obligors, is_active
<1>4. CASE /\ splits'[id].deposits = Nothing /\ splits'[id].alerts = NoSplit.alerts
           /\ splits'[id].status = "Pending"
  <2>1. splits'[id].obligations \in [Address -> Nat]
    BY DEF EscrowInv, TypeOK, Split
  <2>2. \A a \in Address : /\ splits'[id].alerts[a].full = 0 /\ splits'[id].alerts[a].half = 0
                            /\ splits'[id].deposits[a] = 0
    BY <1>4 DEF Nothing, NoSplit
  <2>3. AlertsFit(splits'[id])
    BY <2>1, <2>2 DEF AlertsFit
  <2> QED
    BY <1>4, <2>3
<1>5. ASSUME NEW a \in Address, NEW amount \in 1..MaxObligation, deposit(id, a, amount)
      PROVE  /\ AlertsFit(splits'[id])
             /\ splits'[id].status \in {"Pending", "Ready"}
  <2>1. splits'[id] = AfterDeposit(splits[id], a, amount)
    BY <1>1, <1>5 DEF deposit
  <2>2. /\ amount \in Nat /\ amount > 0 /\ splits[id].obligations[a] > 0
        /\ WithinObligation(splits[id], a, amount) /\ is_active(id)
    BY <1>5, EscrowConstants DEF deposit, is_active
  <2>3. AlertsFit(splits[id])
    BY <2>2 DEF AlertInv
  <2>4. AlertsFit(AfterDeposit(splits[id], a, amount))
    BY <1>1, <2>2, <2>3, DepositAlerts
  <2> QED
    BY <1>5, <2>1, <2>4, StatusAfter
<1>6. CASE splits'[id].status = "Cancelled"
  BY <1>6 DEF is_active
<1>7. CASE /\ SameAccount(splits'[id], splits[id]) /\ splits[id].status = "Ready"
           /\ splits'[id].status = "Released"
  BY <1>2, <1>7 DEF SameAccount, RoomForAll, Obligors, is_active
<1>8. \/ SameAccount(splits'[id], splits[id]) /\ splits'[id].status = splits[id].status
      \/ splits'[id].deposits = Nothing /\ splits'[id].alerts = NoSplit.alerts
         /\ splits'[id].status = "Pending"
      \/ \E a \in Address, amount \in 1..MaxObligation : deposit(id, a, amount)
      \/ splits'[id].status = "Cancelled"
      \/ SameAccount(splits'[id], splits[id]) /\ splits[id].status = "Ready"
         /\ splits'[id].status = "Released"
  BY RecordStep
<1> QED
  BY <1>3, <1>4, <1>5, <1>6, <1>7, <1>8

\* A participant is announced as half and as fully paid exactly once, and a cap below the
\* number of obligors leaves an escrow nothing but its cancellation, whatever the
\* obligations, caps and partial deposits.
THEOREM EscrowAlertsAndCaps == Spec => []AlertsAndCaps
<1>1. Init => AlertInv
  <2>1. \A id \in SplitId : Init => splits[id].status = "Absent"
    BY DEF Init, NoSplit
  <2> QED
    BY <2>1 DEF AlertInv, is_active
<1>2. Init => CapInv
  BY InitCaps
<1>3. EscrowInv /\ CapInv /\ AlertInv => AlertsAndCaps
  <2> SUFFICES ASSUME EscrowInv, CapInv, AlertInv PROVE AlertsAndCaps
    OBVIOUS
  <2>1. AlertsOnce
    BY DEF AlertsOnce, AlertInv, AlertsFit
  <2>2. ASSUME NEW id \in SplitId,
               Cardinality({a \in Address : splits[id].obligations[a] > 0})
                 > splits[id].max_participants
        PROVE  splits[id].status \in {"Absent", "Pending", "Cancelled"}
    <3>1. splits[id] \in Split
      BY DEF EscrowInv, TypeOK
    <3>2. splits[id].status \in Status /\ splits[id].max_participants \in Nat
      BY <3>1 DEF Split
    <3>3. IsFiniteSet(Address) /\ Obligors(splits[id]) \subseteq Address
      BY FS_Interval, EscrowConstants DEF Address, Obligors
    <3>4. Cardinality(Obligors(splits[id])) \in Nat
      BY <3>3, FS_Subset, FS_CardinalityType
    <3>5. ~RoomForAll(splits[id])
      BY <2>2, <3>2, <3>4 DEF RoomForAll, Obligors
    <3>6. splits[id].status # "Ready"
      BY <3>5, ReadyHasRoom
    <3> QED
      BY <3>2, <3>5, <3>6 DEF AlertInv, Status
  <2>3. CapBlocksRelease
    BY <2>2 DEF CapBlocksRelease
  <2> QED
    BY <2>1, <2>3 DEF AlertsAndCaps
<1> QED
  BY <1>1, <1>2, <1>3, CapStep, AlertStep, EscrowInvariant, PTL DEF Spec

-----------------------------------------------------------------------------
(* The parts together *)

\* The books of every escrow and of the contract agree, for any number of accounts and
\* escrows.
THEOREM EscrowBooksKept == Spec => []EscrowBooks
<1>1. VaultMatchesEscrows /\ BooksAgree /\ ReadyIsFullyFunded /\ RefundReachesEveryone
        => EscrowBooks
  BY DEF EscrowBooks
<1> QED
  BY <1>1, EscrowVaultBacked, EscrowBooksAgree, EscrowReadyFunded, EscrowRefundComplete, PTL

\* Settling an escrow is final and pays everyone their due, for any number of accounts.
THEOREM EscrowSettlementSound == Spec => SettlementSound
  BY EscrowTerminalFinal, EscrowCancelRefunds, EscrowReleasePays DEF SettlementSound

\* The freeze halts all money and lasts at least the timelock.
THEOREM EscrowFreezeHolds == Spec => FreezeHolds
  BY EscrowFreezeHalts, EscrowFreezeLasts DEF FreezeHolds
=============================================================================
