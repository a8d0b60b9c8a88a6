----------------------------- MODULE PaymentProofs -----------------------------
(***************************************************************************)
(* The payment ledger keeps its books and payment processing implements    *)
(* it, for every number of submissions, participants and splits. The       *)
(* argument of the second is the locks: from its "split" step a submission *)
(* holds its participant's row, so the amount it read is still the amount  *)
(* there when it commits; from "convert" or "store" it holds its split's   *)
(* row, so the split stays as unfrozen as it was found; and of submissions *)
(* with one key at most one gets past the unique index to "commit".  From  *)
(* the same invariant follow the totals of the splits; and payments under  *)
(* disputes implement payments alone, since a dispute freezes no split     *)
(* whose row a submission holds.                                           *)
(***************************************************************************)
EXTENDS PaymentsDisputed, PaymentLedger, SumsProofs, TLAPS

-----------------------------------------------------------------------------
(* The ledger keeps its books, whatever the submissions *)

\* What an entry adds to the sum of its own participant's entries, and to nobody
\* else's.
LEMMA EnterMovesOneSum ==
    ASSUME LedgerConstants, LedgerTypeOK, NEW e \in Entries, e \notin entered,
           entered' = entered \cup {e}, NEW p \in Payers
    PROVE  SumTo(EntriesOf(p), NumEntries)'
             = SumTo(EntriesOf(p), NumEntries) + (IF PayerOf[e] = p THEN ValueOf[e] ELSE 0)
<1> DEFINE f == EntriesOf(p)
           g == [x \in Entries |-> IF x \in entered \cup {e} /\ PayerOf[x] = p
                                   THEN ValueOf[x] ELSE 0]
<1>1. NumEntries \in Nat /\ \A x \in Entries : ValueOf[x] \in Nat
  BY DEF LedgerConstants, Entries
<1>2. f \in [1..NumEntries -> Int] /\ g \in [1..NumEntries -> Int]
  BY <1>1 DEF EntriesOf, Entries
<1>3. \A k \in 1..NumEntries : k # e => f[k] = g[k]
  BY DEF EntriesOf, Entries
<1>4. SumTo(g, NumEntries) = SumTo(f, NumEntries) + g[e] - f[e]
  <2> HIDE DEF f, g
  <2> QED BY <1>1, <1>2, <1>3, SumUpdate DEF Entries
<1>5. f[e] = 0 /\ g[e] = (IF PayerOf[e] = p THEN ValueOf[e] ELSE 0)
  BY DEF EntriesOf
<1>6. SumTo(f, NumEntries) \in Int /\ g[e] \in Int
  <2>1. SumTo(f, NumEntries) \in Int
    <3>1. NumEntries \in 0..NumEntries
      BY <1>1
    <3> HIDE DEF f
    <3> QED BY <1>1, <1>2, <3>1, SumSteps
  <2> QED BY <2>1, <1>2 DEF Entries
<1>7. SumTo(EntriesOf(p), NumEntries)' = SumTo(g, NumEntries)
  BY DEF EntriesOf
<1> HIDE DEF f, g
<1>8. SumTo(g, NumEntries) = SumTo(f, NumEntries) + (IF PayerOf[e] = p THEN ValueOf[e] ELSE 0)
  BY <1>4, <1>5, <1>6
<1> QED BY <1>7, <1>8 DEF f

LedgerInv == LedgerTypeOK /\ KeyCountsOnce /\ BalancesMatchEntries

LEMMA LedgerInitInv ==
    ASSUME LedgerConstants PROVE LedgerInit => LedgerInv
<1> SUFFICES ASSUME LedgerInit PROVE LedgerInv
  OBVIOUS
<1>1. LedgerTypeOK /\ KeyCountsOnce
  BY DEF LedgerInit, LedgerTypeOK, KeyCountsOnce
<1>2. ASSUME NEW p \in Payers PROVE balance[p] = SumTo(EntriesOf(p), NumEntries)
  <2> DEFINE f == EntriesOf(p)
  <2>1. NumEntries \in Nat /\ f \in [1..NumEntries -> Int]
    BY DEF EntriesOf, Entries, LedgerConstants
  <2>2. \A k \in (0+1)..NumEntries : f[k] = 0
    BY DEF LedgerInit, EntriesOf, Entries
  <2>3. SumTo(f, NumEntries) = 0
    <3> HIDE DEF f
    <3> QED BY <2>1, <2>2, SumTail, SumSteps
  <2> QED BY <2>3 DEF LedgerInit
<1> QED BY <1>1, <1>2 DEF LedgerInv, BalancesMatchEntries

LEMMA LedgerStepInv ==
    ASSUME LedgerConstants PROVE LedgerInv /\ [LedgerNext]_ledgerVars => LedgerInv'
<1> SUFFICES ASSUME LedgerInv, [LedgerNext]_ledgerVars PROVE LedgerInv'
  OBVIOUS
<1> USE DEF LedgerInv
<1>1. ASSUME NEW e \in Entries, Enter(e) PROVE LedgerInv'
  <2>1. LedgerTypeOK'
    BY <1>1 DEF Enter, LedgerTypeOK, LedgerConstants
  <2>2. KeyCountsOnce'
    BY <1>1 DEF Enter, KeyCountsOnce
  <2>3. ASSUME NEW p \in Payers PROVE (balance[p] = SumTo(EntriesOf(p), NumEntries))'
    <3>1. balance[p] = SumTo(EntriesOf(p), NumEntries)
      BY DEF BalancesMatchEntries
    <3>2. balance'[p] = balance[p] + (IF PayerOf[e] = p THEN ValueOf[e] ELSE 0)
      BY <1>1 DEF Enter, LedgerTypeOK, LedgerConstants
    <3>3. SumTo(EntriesOf(p), NumEntries)'
            = SumTo(EntriesOf(p), NumEntries) + (IF PayerOf[e] = p THEN ValueOf[e] ELSE 0)
      BY <1>1, EnterMovesOneSum DEF Enter
    <3> QED BY <3>1, <3>2, <3>3
  <2> QED BY <2>1, <2>2, <2>3 DEF BalancesMatchEntries
<1>2. ASSUME UNCHANGED <<entered, balance>>, halted' \in [Funds -> BOOLEAN] PROVE LedgerInv'
  BY <1>2 DEF LedgerTypeOK, KeyCountsOnce, BalancesMatchEntries, EntriesOf
<1>3. ASSUME NEW f \in Funds, NEW b \in BOOLEAN, Halt(f, b) PROVE LedgerInv'
  BY <1>2, <1>3 DEF Halt, LedgerTypeOK
<1>4. CASE UNCHANGED ledgerVars
  BY <1>2, <1>4 DEF ledgerVars, LedgerTypeOK
<1> QED BY <1>1, <1>3, <1>4 DEF LedgerNext

\* Every behaviour of the ledger keeps one entry per key and balances that are the
\* sums of their entries: what an implementation of it inherits.
THEOREM LedgerKeepsBooks ==
    ASSUME LedgerConstants PROVE LedgerSpec => [](KeyCountsOnce /\ BalancesMatchEntries)
<1>1. LedgerInit => LedgerInv
  BY LedgerInitInv
<1>2. LedgerInv /\ [LedgerNext]_ledgerVars => LedgerInv'
  BY LedgerStepInv
<1>3. LedgerInv => KeyCountsOnce /\ BalancesMatchEntries
  BY DEF LedgerInv
<1> QED BY <1>1, <1>2, <1>3, PTL DEF LedgerSpec

-----------------------------------------------------------------------------
(* What the locks of payment processing hold still *)

Holding(r) == pc[r] \in {"split", "convert", "record", "store", "commit"}
Paying(r)  == pc[r] \in {"convert", "record", "store", "commit"}

RowsHeld ==
    \A r \in Requests :
        Holding(r) => rowLock[Payer(r)] = r /\ seen[r].paid = paid[Payer(r)]

SplitsHeld ==
    \A r \in Requests :
        Paying(r) => splitLock[Target(r)] = r /\ ~frozen[Target(r)]

KeysHeld ==
    /\ \A r \in credited : pc[r] \in {"notify", "done"}
    /\ \A r \in Requests : pc[r] = "commit" => ~KnownKey(r)
    /\ \A q, r \in Requests :
         pc[q] = "commit" /\ pc[r] = "commit" /\ idempotencyKey(q) = idempotencyKey(r) => q = r

PaymentInv == PaymentTypeOK /\ RowsHeld /\ SplitsHeld /\ KeysHeld

-----------------------------------------------------------------------------
(* Types of the operators *)

LEMMA RequestTypes ==
    ASSUME NEW r \in Requests
    PROVE  Payer(r) \in Participants /\ Target(r) \in Splits /\ Amount[Request[r].tx] \in Nat
  BY PaymentConstants DEF Payer, Target

LEMMA NewAmountType ==
    ASSUME PaymentTypeOK, NEW r \in Requests
    PROVE  NewAmount(r) \in Nat
<1>1. seen[r].paid \in Nat /\ Amount[Request[r].tx] \in Nat
  BY RequestTypes DEF PaymentTypeOK
<1>2. \A b : (IF b THEN 1 ELSE 0) \in Nat
  OBVIOUS
<1> QED BY <1>1, <1>2 DEF NewAmount, newAmountPaid, Appended

LEMMA SplitTotalType ==
    ASSUME NEW amounts \in [Participants -> Nat], NEW s
    PROVE  SplitTotal(s, amounts) \in Nat
<1> DEFINE f == [p \in Participants |-> IF SplitOf[p] = s THEN amounts[p] ELSE 0]
<1>1. NumParticipants \in Nat /\ NumParticipants \in 0..NumParticipants
  BY PaymentConstants
<1>2. f \in [1..NumParticipants -> Nat]
  BY DEF Participants
<1>3. SumTo(f, NumParticipants) \in Nat
  <2> HIDE DEF f
  <2> QED BY <1>1, <1>2, SumNonNegative
<1> QED BY <1>3 DEF SplitTotal

LEMMA StatusForType ==
    ASSUME NEW s, NEW n PROVE StatusFor(s, n) \in {"active", "partial", "completed"}
  BY DEF StatusFor

-----------------------------------------------------------------------------
(* Steps *)

\* A submission goes on without a lock, a new row, or a commit: what others hold is
\* untouched and what it holds itself it held before.
LEMMA QuietStep ==
    ASSUME PaymentInv, NEW r \in Requests,
           NEW place \in {"byKey", "byTx", "verify", "participant", "record", "store", "done"},
           pc' = [pc EXCEPT ![r] = place],
           place = "record" \/ place = "store" => Paying(r),
           r \in credited => place = "done",
           answer' \in [Requests -> {"none", "processed", "duplicate", "refused"}],
           UNCHANGED <<books, frozen, seen, locks>>
    PROVE  PaymentInv'
<1>1. PaymentTypeOK'
  BY DEF PaymentInv, PaymentTypeOK, books, locks
<1>2. \A q \in Requests : (Holding(q)' => Holding(q)) /\ (Paying(q)' => Paying(q))
  BY DEF PaymentInv, PaymentTypeOK, Holding, Paying
<1>3. RowsHeld' /\ SplitsHeld'
  BY <1>2 DEF PaymentInv, RowsHeld, SplitsHeld, books, locks
<1>4. \A q \in Requests : pc'[q] = "commit" => pc[q] = "commit"
  BY DEF PaymentInv, PaymentTypeOK
<1>5. KeysHeld'
  BY <1>4 DEF PaymentInv, PaymentTypeOK, KeysHeld, KnownKey, books
<1> QED BY <1>1, <1>3, <1>5 DEF PaymentInv

\* A submission ends and its locks go with it.
LEMMA ReleaseStep ==
    ASSUME PaymentInv, NEW r \in Requests,
           pc' = [pc EXCEPT ![r] = "done"], Unlock(r),
           answer' \in [Requests -> {"none", "processed", "duplicate", "refused"}],
           UNCHANGED <<books, frozen, seen>>
    PROVE  PaymentInv'
<1>1. PaymentTypeOK'
  BY DEF PaymentInv, PaymentTypeOK, books, Unlock
<1>2. ASSUME NEW q \in Requests, Holding(q)'
      PROVE  q # r /\ Holding(q) /\ (Paying(q)' => Paying(q))
  BY <1>2 DEF PaymentInv, PaymentTypeOK, Holding, Paying
<1>3. RowsHeld'
  BY <1>2, RequestTypes DEF PaymentInv, PaymentTypeOK, RowsHeld, books, Unlock
<1>4. SplitsHeld'
  <2> SUFFICES ASSUME NEW q \in Requests, Paying(q)'
               PROVE  splitLock'[Target(q)] = q /\ ~frozen'[Target(q)]
    BY DEF SplitsHeld
  <2>1. Holding(q)'
    BY DEF Holding, Paying
  <2> QED BY <1>2, <2>1, RequestTypes DEF PaymentInv, PaymentTypeOK, SplitsHeld, Unlock
<1>5. \A q \in Requests : pc'[q] = "commit" => pc[q] = "commit"
  BY DEF PaymentInv, PaymentTypeOK
<1>6. KeysHeld'
  BY <1>5 DEF PaymentInv, PaymentTypeOK, KeysHeld, KnownKey, books
<1> QED BY <1>1, <1>3, <1>4, <1>6 DEF PaymentInv

LEMMA LockParticipantStep ==
    ASSUME PaymentInv, NEW r \in Requests, pc[r] = "participant", SplitOf[Payer(r)] = Target(r),
           ReadForUpdate(r), Goto(r, "split"),
           UNCHANGED <<answer, books, frozen, splitLock>>
    PROVE  PaymentInv'
<1>1. PaymentTypeOK'
  <2>1. paid[Payer(r)] \in Nat /\ standing[Payer(r)] \in {"pending", "partial", "paid"}
    BY RequestTypes DEF PaymentInv, PaymentTypeOK
  <2>2. seen' \in [Requests -> [paid : Nat, standing : {"pending", "partial", "paid"}, total : Nat]]
    <3> DEFINE one == [seen EXCEPT ![r].paid = paid[Payer(r)]]
               two == [one EXCEPT ![r].standing = standing[Payer(r)]]
               S   == [Requests -> [paid : Nat, standing : {"pending", "partial", "paid"},
                                    total : Nat]]
    <3>1. seen \in S /\ seen' = two
      BY DEF PaymentInv, PaymentTypeOK, ReadForUpdate, ReadParticipant
    <3>2. one \in S
      BY <2>1, <3>1
    <3>3. two \in S
      <4> HIDE DEF one
      <4> QED BY <2>1, <3>2
    <3> QED BY <3>1, <3>3
  <2>3. rowLock' \in [Participants -> Requests \cup {None}]
    BY RequestTypes DEF PaymentInv, PaymentTypeOK, ReadForUpdate
  <2> QED BY <2>2, <2>3 DEF PaymentInv, PaymentTypeOK, books, Goto
<1>2. RowsHeld'
  <2> SUFFICES ASSUME NEW q \in Requests, Holding(q)'
               PROVE  rowLock'[Payer(q)] = q /\ seen'[q].paid = paid'[Payer(q)]
    BY DEF RowsHeld
  <2>1. CASE q = r
    BY <2>1, RequestTypes
       DEF PaymentInv, PaymentTypeOK, ReadForUpdate, ReadParticipant, books
  <2>2. CASE q # r
    <3>1. Holding(q) /\ seen'[q] = seen[q] /\ q # None
      BY <2>2, PaymentConstants
         DEF PaymentInv, PaymentTypeOK, Goto, Holding, ReadForUpdate, ReadParticipant
    <3>2. Payer(q) # Payer(r)
      BY <3>1 DEF PaymentInv, RowsHeld, ReadForUpdate
    <3> QED BY <3>1, <3>2, RequestTypes
            DEF PaymentInv, PaymentTypeOK, RowsHeld, ReadForUpdate, books
  <2> QED BY <2>1, <2>2
<1>3. SplitsHeld'
  BY DEF PaymentInv, PaymentTypeOK, SplitsHeld, Paying, Goto
<1>4. KeysHeld'
  BY DEF PaymentInv, PaymentTypeOK, KeysHeld, KnownKey, Goto, books
<1> QED BY <1>1, <1>2, <1>3, <1>4 DEF PaymentInv

LEMMA EnterSplitStep ==
    ASSUME PaymentInv, NEW r \in Requests, NEW place \in {"convert", "store"},
           pc[r] = "split", ~frozen[Target(r)], EnterSplit(r), Goto(r, place),
           UNCHANGED <<answer, books, frozen, seen>>
    PROVE  PaymentInv'
<1>1. PaymentTypeOK'
  BY RequestTypes DEF PaymentInv, PaymentTypeOK, books, EnterSplit, Goto
<1>2. \A q \in Requests : Holding(q)' => Holding(q)
  BY DEF PaymentInv, PaymentTypeOK, Holding, Goto
<1>3. RowsHeld'
  BY <1>2 DEF PaymentInv, RowsHeld, EnterSplit, books
<1>4. SplitsHeld'
  <2> SUFFICES ASSUME NEW q \in Requests, Paying(q)'
               PROVE  splitLock'[Target(q)] = q /\ ~frozen'[Target(q)]
    BY DEF SplitsHeld
  <2>1. CASE q = r
    BY <2>1, RequestTypes DEF PaymentInv, PaymentTypeOK, EnterSplit
  <2>2. CASE q # r
    <3>1. Paying(q) /\ q # None
      BY <2>2, PaymentConstants DEF PaymentInv, PaymentTypeOK, Goto, Paying
    <3>2. Target(q) # Target(r)
      BY <3>1 DEF PaymentInv, SplitsHeld, EnterSplit
    <3> QED BY <3>1, <3>2, RequestTypes DEF PaymentInv, PaymentTypeOK, SplitsHeld, EnterSplit
  <2> QED BY <2>1, <2>2
<1>5. KeysHeld'
  BY DEF PaymentInv, PaymentTypeOK, KeysHeld, KnownKey, Goto, books
<1> QED BY <1>1, <1>3, <1>4, <1>5 DEF PaymentInv

LEMMA StoreStep ==
    ASSUME PaymentInv, NEW r \in Requests, Store(r) PROVE PaymentInv'
<1>1. SplitTotal(Target(r), [paid EXCEPT ![Payer(r)] = NewAmount(r)]) \in Nat
  <2>1. [paid EXCEPT ![Payer(r)] = NewAmount(r)] \in [Participants -> Nat]
    BY NewAmountType DEF PaymentInv, PaymentTypeOK
  <2> QED BY <2>1, SplitTotalType
<1>2. PaymentTypeOK'
  BY <1>1 DEF PaymentInv, PaymentTypeOK, Store, Goto, books, locks
<1>3. \A q \in Requests : /\ Holding(q)' => Holding(q)
                          /\ Paying(q)' => Paying(q)
                          /\ seen'[q].paid = seen[q].paid
  BY DEF PaymentInv, PaymentTypeOK, Store, Holding, Paying, Goto
<1>4. RowsHeld' /\ SplitsHeld'
  BY <1>3 DEF PaymentInv, RowsHeld, SplitsHeld, Store, books, locks
<1>5. KeysHeld'
  <2>1. \A q \in Requests : pc'[q] = IF q = r THEN "commit" ELSE pc[q]
    BY DEF PaymentInv, PaymentTypeOK, Store, Goto
  <2>2. credited' = credited /\ ~KnownKey(r) /\ ~KeyInUse(r) /\ r \notin credited
    BY DEF Store, books, RefusedByIndex, PaymentInv, KeysHeld
  <2>3. \A q \in credited' : pc'[q] \in {"notify", "done"}
    BY <2>1, <2>2 DEF PaymentInv, PaymentTypeOK, KeysHeld
  <2>4. \A q \in Requests : pc'[q] = "commit" => ~KnownKey(q)'
    BY <2>1, <2>2 DEF PaymentInv, KeysHeld, KnownKey
  <2>5. ASSUME NEW p \in Requests, NEW q \in Requests, pc'[p] = "commit", pc'[q] = "commit",
               idempotencyKey(p) = idempotencyKey(q)
        PROVE  p = q
    BY <2>1, <2>2, <2>5 DEF PaymentInv, KeysHeld, KeyInUse
  <2> QED BY <2>3, <2>4, <2>5 DEF KeysHeld, idempotencyKey
<1> QED BY <1>2, <1>4, <1>5 DEF PaymentInv

LEMMA CommitStep ==
    ASSUME PaymentInv, NEW r \in Requests, Commit(r) PROVE PaymentInv'
<1>1. PaymentTypeOK'
  <2>1. NewAmount(r) \in Nat /\ StatusFor(Target(r), seen[r].total) \in {"active", "partial", "completed"}
    BY NewAmountType, StatusForType DEF PaymentInv
  <2>2. PICK due : reputation' = [reputation EXCEPT ![Payer(r)] = IF due THEN @ + 1 ELSE @]
    BY DEF Commit
  <2>3. PICK reached : standing' = [standing EXCEPT ![Payer(r)] = IF reached THEN "paid" ELSE "partial"]
    BY DEF Commit
  <2>4. /\ reputation' \in [Participants -> Nat]
        /\ standing' \in [Participants -> {"pending", "partial", "paid"}]
    BY <2>2, <2>3, RequestTypes DEF PaymentInv, PaymentTypeOK
  <2> QED BY <2>1, <2>4, RequestTypes DEF PaymentInv, PaymentTypeOK, Commit, Goto, Unlock
<1>2. ASSUME NEW q \in Requests, Holding(q)'
      PROVE  q # r /\ Holding(q) /\ (Paying(q)' => Paying(q))
  BY <1>2 DEF PaymentInv, PaymentTypeOK, Holding, Paying, Commit, Goto
<1>3. Holding(r)
  BY DEF Commit, Holding
<1>4. RowsHeld'
  <2> SUFFICES ASSUME NEW q \in Requests, Holding(q)'
               PROVE  rowLock'[Payer(q)] = q /\ seen'[q].paid = paid'[Payer(q)]
    BY DEF RowsHeld
  <2>1. q # r /\ rowLock[Payer(q)] = q /\ seen[q].paid = paid[Payer(q)]
    BY <1>2 DEF PaymentInv, RowsHeld
  <2>2. Payer(q) # Payer(r)
    BY <2>1, <1>3 DEF PaymentInv, RowsHeld
  <2> QED BY <2>1, <2>2, RequestTypes DEF PaymentInv, PaymentTypeOK, Commit, Unlock
<1>5. SplitsHeld'
  <2> SUFFICES ASSUME NEW q \in Requests, Paying(q)'
               PROVE  splitLock'[Target(q)] = q /\ ~frozen'[Target(q)]
    BY DEF SplitsHeld
  <2>1. Holding(q)'
    BY DEF Holding, Paying
  <2> QED BY <1>2, <2>1, RequestTypes
          DEF PaymentInv, PaymentTypeOK, SplitsHeld, Commit, Unlock
<1>6. KeysHeld'
  <2>1. \A q \in Requests : pc'[q] = IF q = r THEN "notify" ELSE pc[q]
    BY DEF PaymentInv, PaymentTypeOK, Commit, Goto
  <2>2. credited' = credited \cup {r} /\ pc[r] = "commit"
    BY DEF Commit
  <2>3. \A q \in credited' : pc'[q] \in {"notify", "done"}
    BY <2>1, <2>2 DEF PaymentInv, PaymentTypeOK, KeysHeld
  <2>4. ASSUME NEW q \in Requests, pc'[q] = "commit" PROVE ~KnownKey(q)'
    <3>1. q # r /\ pc[q] = "commit" /\ ~KnownKey(q)
      BY <2>1, <2>4 DEF PaymentInv, KeysHeld
    <3>2. idempotencyKey(q) # idempotencyKey(r)
      BY <2>2, <3>1 DEF PaymentInv, KeysHeld
    <3> QED BY <2>2, <3>1, <3>2 DEF KnownKey, idempotencyKey
  <2>5. \A p, q \in Requests :
          pc'[p] = "commit" /\ pc'[q] = "commit" /\ idempotencyKey(p) = idempotencyKey(q) => p = q
    BY <2>1 DEF PaymentInv, KeysHeld
  <2> QED BY <2>3, <2>4, <2>5 DEF KeysHeld, idempotencyKey
<1> QED BY <1>1, <1>4, <1>5, <1>6 DEF PaymentInv

LEMMA SetFrozenStep ==
    ASSUME PaymentInv, NEW s \in Splits, NEW b \in BOOLEAN, SetFrozen(s, b) PROVE PaymentInv'
<1>1. PaymentTypeOK'
  BY DEF PaymentInv, PaymentTypeOK, SetFrozen, books, locks
<1>2. RowsHeld' /\ KeysHeld'
  BY DEF PaymentInv, RowsHeld, KeysHeld, Holding, KnownKey, SetFrozen, books, locks
<1>3. SplitsHeld'
  <2> SUFFICES ASSUME NEW q \in Requests, Paying(q)'
               PROVE  splitLock'[Target(q)] = q /\ ~frozen'[Target(q)]
    BY DEF SplitsHeld
  <2>1. Paying(q) /\ splitLock[Target(q)] = q /\ ~frozen[Target(q)] /\ q # None
    BY PaymentConstants DEF SetFrozen, Paying, PaymentInv, SplitsHeld
  <2>2. Target(q) # s
    BY <2>1 DEF SetFrozen
  <2> QED BY <2>1, <2>2, RequestTypes DEF PaymentInv, PaymentTypeOK, SetFrozen, locks
<1> QED BY <1>1, <1>2, <1>3 DEF PaymentInv

-----------------------------------------------------------------------------
(* The invariant *)

LEMMA PaymentInitInv == Init => PaymentInv
<1> SUFFICES ASSUME Init PROVE PaymentInv
  OBVIOUS
<1>1. PaymentTypeOK
  BY PaymentConstants DEF Init, PaymentTypeOK
<1> QED BY <1>1 DEF Init, PaymentInv, RowsHeld, SplitsHeld, KeysHeld, Holding, Paying

\* A reply, as the quiet steps give it.
LEMMA ReplyType ==
    ASSUME PaymentInv, NEW r \in Requests, NEW what \in {"processed", "duplicate", "refused"},
           Reply(r, what)
    PROVE  /\ pc' = [pc EXCEPT ![r] = "done"]
           /\ answer' \in [Requests -> {"none", "processed", "duplicate", "refused"}]
  BY DEF PaymentInv, PaymentTypeOK, Reply, Goto

LEMMA ProceedInv ==
    ASSUME PaymentInv, NEW r \in Requests, Proceed(r) PROVE PaymentInv'
<1>0. answer \in [Requests -> {"none", "processed", "duplicate", "refused"}]
  BY DEF PaymentInv, PaymentTypeOK
<1>a. r \in credited => pc[r] \in {"notify", "done"}
  BY DEF PaymentInv, KeysHeld
<1>1. CASE FindByKey(r)
  <2>1. CASE Reply(r, "duplicate")
    BY <1>1, <1>a, <2>1, ReplyType, QuietStep DEF FindByKey
  <2>2. CASE Goto(r, "byTx") /\ UNCHANGED answer
    BY <1>0, <1>1, <1>a, <2>2, QuietStep DEF FindByKey, Goto
  <2> QED BY <1>1, <2>1, <2>2 DEF FindByKey
<1>2. CASE FindByTxHash(r)
  <2>1. CASE Reply(r, "duplicate")
    BY <1>2, <1>a, <2>1, ReplyType, QuietStep DEF FindByTxHash
  <2>2. CASE Goto(r, "verify") /\ UNCHANGED answer
    BY <1>0, <1>2, <1>a, <2>2, QuietStep DEF FindByTxHash, Goto
  <2> QED BY <1>2, <2>1, <2>2 DEF FindByTxHash
<1>3. CASE Verify(r)
  <2>1. CASE Reply(r, "refused")
    BY <1>3, <1>a, <2>1, ReplyType, QuietStep DEF Verify
  <2>2. CASE Goto(r, "participant") /\ UNCHANGED answer
    BY <1>0, <1>3, <1>a, <2>2, QuietStep DEF Verify, Goto
  <2> QED BY <1>3, <2>1, <2>2 DEF Verify
<1>4. CASE LockParticipant(r)
  <2>1. CASE SplitOf[Payer(r)] # Target(r)
    <3>1. Reply(r, "refused") /\ UNCHANGED <<books, frozen, seen, locks>>
      BY <1>4, <2>1 DEF LockParticipant, locks
    <3> QED BY <1>4, <1>a, <3>1, ReplyType, QuietStep DEF LockParticipant
  <2>2. CASE SplitOf[Payer(r)] = Target(r)
    BY <1>4, <2>2, LockParticipantStep DEF LockParticipant
  <2> QED BY <2>1, <2>2
<1>5. CASE LockSplit(r)
  <2>1. CASE IsFrozen(r)
    <3>1. Reply(r, "refused") /\ Unlock(r) /\ UNCHANGED <<books, frozen, seen>>
      BY <1>5, <2>1 DEF LockSplit, RefuseFrozen
    <3> QED BY <3>1, ReplyType, ReleaseStep
  <2>2. CASE ~IsFrozen(r)
    <3>1. PICK place \in {"convert", "store"} : Goto(r, place)
      BY <1>5, <2>2 DEF LockSplit
    <3> QED BY <1>5, <2>2, <3>1, EnterSplitStep DEF LockSplit, IsFrozen
  <2> QED BY <2>1, <2>2
<1>6. CASE Convert(r)
  <2>1. PICK place \in {"store", "record"} : Goto(r, place)
    BY <1>6 DEF Convert
  <2>2. Paying(r) /\ r \notin credited
    BY <1>6, <1>a DEF Convert, Paying
  <2> QED BY <1>0, <1>6, <2>1, <2>2, QuietStep DEF Convert, Goto
<1>7. CASE RollBack(r)
  BY <1>7, ReplyType, ReleaseStep DEF RollBack
<1>8. CASE Store(r)
  BY <1>8, StoreStep
<1>9. CASE Commit(r)
  BY <1>9, CommitStep
<1>10. CASE Notify(r)
  BY <1>10, ReplyType, QuietStep DEF Notify
<1> QED BY <1>1, <1>2, <1>3, <1>4, <1>5, <1>6, <1>7, <1>8, <1>9, <1>10 DEF Proceed

LEMMA PaymentStepInv == PaymentInv /\ [Next]_paymentVars => PaymentInv'
<1> SUFFICES ASSUME PaymentInv, [Next]_paymentVars PROVE PaymentInv'
  OBVIOUS
<1>0. answer \in [Requests -> {"none", "processed", "duplicate", "refused"}]
  BY DEF PaymentInv, PaymentTypeOK
<1>1. ASSUME NEW r \in Requests, submitPayment(r) PROVE PaymentInv'
  <2>1. r \notin credited
    BY <1>1 DEF PaymentInv, KeysHeld, submitPayment
  <2> QED BY <1>0, <1>1, <2>1, QuietStep DEF submitPayment, Goto
<1>2. ASSUME NEW r \in Requests, Crash(r) PROVE PaymentInv'
  BY <1>0, <1>2, ReleaseStep DEF Crash, Goto
<1>3. CASE UNCHANGED paymentVars
  BY <1>3 DEF paymentVars, PaymentInv, PaymentTypeOK, RowsHeld, SplitsHeld, KeysHeld, Holding,
              Paying, KnownKey
<1> QED BY <1>1, <1>2, <1>3, ProceedInv, SetFrozenStep DEF Next

\* Locks, what was read under them and who inserted which key: the inductive invariant of
\* processPaymentSubmission.
THEOREM PaymentInvariant == Spec => []PaymentInv
  BY PaymentInitInv, PaymentStepInv, PTL DEF Spec

\* Every variable keeps its type, however many submissions run at once.
THEOREM PaymentTypes == Spec => []PaymentTypeOK
<1>1. PaymentInv => PaymentTypeOK
  BY DEF PaymentInv
<1> QED BY <1>1, PaymentInvariant, PTL

\* A commit enters its payment: no row with its key is committed, its split is not
\* frozen, and the amount it adds to is the one that is there.
LEMMA CommitEntersOnce ==
    ASSUME PaymentInv, ~DecimalsAreText, NEW r \in Requests, Commit(r)
    PROVE  Ledger!Enter(r)
<1> DEFINE keys == [q \in Requests |-> idempotencyKey(q)]
<1>1. r \notin credited /\ \A q \in credited : keys[q] # keys[r]
  <2>1. r \notin credited /\ ~KnownKey(r) /\ credited \subseteq Requests
    BY DEF Commit, PaymentInv, PaymentTypeOK, KeysHeld
  <2> QED BY <2>1 DEF KnownKey
<1>2. ~frozen[Target(r)] /\ frozen' = frozen
  BY DEF Commit, PaymentInv, SplitsHeld, Paying
<1>3. paid' = [paid EXCEPT ![Payer(r)] = @ + Amount[Request[r].tx]]
  <2>1. seen[r].paid = paid[Payer(r)]
    BY DEF Commit, PaymentInv, RowsHeld, Holding
  <2> QED BY <2>1 DEF Commit, NewAmount, newAmountPaid, PaymentInv, PaymentTypeOK
<1>4. credited' = credited \cup {r}
  BY DEF Commit
<1> QED BY <1>1, <1>2, <1>3, <1>4 DEF Ledger!Enter

\* Concurrent submissions, with all their transactions, locks and crashes, implement the
\* ledger: each step enters one payment whole, freezes or thaws a split, or is not seen.
THEOREM PaymentsImplementLedger ==
    ASSUME ~DecimalsAreText PROVE Spec => PaymentsAreLedger
<1>1. Init => Ledger!LedgerInit
  BY DEF Init, Ledger!LedgerInit, Ledger!Payers, Participants
<1>2. PaymentInv /\ [Next]_paymentVars => [Ledger!LedgerNext]_(Ledger!ledgerVars)
  <2> SUFFICES ASSUME PaymentInv, [Next]_paymentVars, ~UNCHANGED <<credited, paid, frozen>>
               PROVE  Ledger!LedgerNext
    BY DEF Ledger!ledgerVars
  <2>1. ASSUME NEW r \in Requests, Commit(r) PROVE Ledger!LedgerNext
    BY <2>1, CommitEntersOnce DEF Ledger!LedgerNext, Ledger!Entries, Requests
  <2>2. ASSUME NEW s \in Splits, NEW b \in BOOLEAN, SetFrozen(s, b) PROVE Ledger!LedgerNext
    BY <2>2 DEF SetFrozen, books, Ledger!LedgerNext, Ledger!Halt
  <2>3. ASSUME NEW r \in Requests, submitPayment(r) \/ Crash(r) \/ (Proceed(r) /\ ~Commit(r))
        PROVE  FALSE
    BY <2>3 DEF submitPayment, Crash, Proceed, FindByKey, FindByTxHash, Verify, LockParticipant,
                LockSplit, Convert, RollBack, Store, Notify, books
  <2>4. CASE UNCHANGED paymentVars
    BY <2>4 DEF paymentVars
  <2> QED BY <2>1, <2>2, <2>3, <2>4 DEF Next
<1> QED BY <1>1, <1>2, PaymentInvariant, PTL DEF Spec, PaymentsAreLedger, Ledger!LedgerSpec

-----------------------------------------------------------------------------
(* Totals and reputation *)

\* Whoever holds a row read its status too, and the payer belongs to the split; whoever
\* is about to commit has added up what its split will have. A participant is paid, and
\* has its event, exactly when it owed something and has paid it.
TotalsRead ==
    \A r \in Requests :
        /\ Holding(r) => SplitOf[Payer(r)] = Target(r) /\ seen[r].standing = standing[Payer(r)]
        /\ pc[r] = "commit" =>
             seen[r].total = SplitTotal(Target(r), [paid EXCEPT ![Payer(r)] = NewAmount(r)])

StandingFits == \A p \in Participants : standing[p] = "paid" => paid[p] >= Owed[p]

TotalsInv == TotalsRead /\ SplitTotalsAddUp

\* The amounts of other splits do not count.
LEMMA OtherSplitsApart ==
    ASSUME NEW s, NEW amounts \in [Participants -> Nat], NEW others \in [Participants -> Nat],
           \A p \in Participants : SplitOf[p] = s => others[p] = amounts[p]
    PROVE  SplitTotal(s, others) = SplitTotal(s, amounts)
<1>1. [p \in Participants |-> IF SplitOf[p] = s THEN others[p] ELSE 0]
        = [p \in Participants |-> IF SplitOf[p] = s THEN amounts[p] ELSE 0]
  OBVIOUS
<1> QED
  BY <1>1 DEF SplitTotal

\* No step but the commit touches a row, and what is read stays read.
LEMMA TotalsStay ==
    ASSUME PaymentInv, TotalsInv, UNCHANGED books,
           \A q \in Requests :
              /\ pc'[q] = "commit" => pc[q] = "commit"
              /\ Holding(q)' => Holding(q)
              /\ Holding(q)' => seen'[q] = seen[q]
    PROVE  TotalsInv'
<1>1. UNCHANGED <<paid, standing, splitPaid, splitStatus>>
  BY DEF books
<1>2. SplitTotalsAddUp'
  BY <1>1 DEF TotalsInv, SplitTotalsAddUp
<1>3. ASSUME NEW q \in Requests, Holding(q)'
      PROVE  SplitOf[Payer(q)] = Target(q) /\ seen'[q].standing = standing'[Payer(q)]
  BY <1>1, <1>3 DEF TotalsInv, TotalsRead
<1>4. ASSUME NEW q \in Requests, pc'[q] = "commit"
      PROVE  seen'[q].total = SplitTotal(Target(q), [paid' EXCEPT ![Payer(q)] = NewAmount(q)'])
  <2>1. pc[q] = "commit" /\ seen'[q] = seen[q]
    BY <1>4 DEF Holding
  <2>2. NewAmount(q)' = NewAmount(q)
    BY <2>1 DEF NewAmount
  <2> QED
    BY <1>1, <2>1, <2>2 DEF TotalsInv, TotalsRead
<1>5. TotalsRead'
  BY <1>3, <1>4 DEF TotalsRead
<1> QED
  BY <1>2, <1>5 DEF TotalsInv

LEMMA LockKeepsTotals ==
    ASSUME PaymentInv, TotalsInv, NEW r \in Requests, LockParticipant(r),
           SplitOf[Payer(r)] = Target(r)
    PROVE  TotalsInv'
<1>1. /\ ReadForUpdate(r) /\ Goto(r, "split") /\ UNCHANGED books /\ pc[r] = "participant"
      /\ paid' = paid /\ standing' = standing /\ splitPaid' = splitPaid /\ splitStatus' = splitStatus
  BY DEF LockParticipant, books
<1>2. \A q \in Requests : pc'[q] = IF q = r THEN "split" ELSE pc[q]
  BY <1>1 DEF PaymentInv, PaymentTypeOK, Goto
<1>3. /\ \A q \in Requests : q # r => seen'[q] = seen[q]
      /\ seen'[r].standing = standing[Payer(r)]
  BY <1>1 DEF PaymentInv, PaymentTypeOK, ReadForUpdate, ReadParticipant
<1>4. SplitTotalsAddUp'
  BY <1>1 DEF TotalsInv, SplitTotalsAddUp
<1>5. ASSUME NEW q \in Requests, Holding(q)'
      PROVE  SplitOf[Payer(q)] = Target(q) /\ seen'[q].standing = standing'[Payer(q)]
  BY <1>1, <1>2, <1>3, <1>5 DEF TotalsInv, TotalsRead, Holding
<1>6. ASSUME NEW q \in Requests, pc'[q] = "commit"
      PROVE  seen'[q].total = SplitTotal(Target(q), [paid' EXCEPT ![Payer(q)] = NewAmount(q)'])
  <2>1. q # r /\ pc[q] = "commit" /\ seen'[q] = seen[q]
    BY <1>2, <1>3, <1>6
  <2>2. NewAmount(q)' = NewAmount(q)
    BY <2>1 DEF NewAmount
  <2> QED
    BY <1>1, <2>1, <2>2 DEF TotalsInv, TotalsRead
<1>7. TotalsRead'
  BY <1>5, <1>6 DEF TotalsRead
<1> QED
  BY <1>4, <1>7 DEF TotalsInv

LEMMA StoreKeepsTotals ==
    ASSUME PaymentInv, TotalsInv, NEW r \in Requests, Store(r)
    PROVE  TotalsInv'
<1> DEFINE n == SplitTotal(Target(r), [paid EXCEPT ![Payer(r)] = NewAmount(r)])
<1>1. /\ seen' = [seen EXCEPT ![r].total = n] /\ pc' = [pc EXCEPT ![r] = "commit"]
      /\ pc[r] = "store" /\ paid' = paid /\ standing' = standing
      /\ splitPaid' = splitPaid /\ splitStatus' = splitStatus
  BY DEF Store, Goto, books
<1> HIDE DEF n
<1>2. \A q \in Requests : pc'[q] = IF q = r THEN "commit" ELSE pc[q]
  BY <1>1 DEF PaymentInv, PaymentTypeOK
<1>3. /\ \A q \in Requests : q # r => seen'[q] = seen[q]
      /\ \A q \in Requests : seen'[q].standing = seen[q].standing /\ seen'[q].paid = seen[q].paid
      /\ seen'[r].total = n
  BY <1>1 DEF PaymentInv, PaymentTypeOK
<1>4. SplitTotalsAddUp'
  BY <1>1 DEF TotalsInv, SplitTotalsAddUp
<1>5. ASSUME NEW q \in Requests, Holding(q)'
      PROVE  SplitOf[Payer(q)] = Target(q) /\ seen'[q].standing = standing'[Payer(q)]
  <2>1. Holding(q)
    BY <1>1, <1>2, <1>5 DEF Holding
  <2> QED
    BY <1>1, <1>3, <2>1 DEF TotalsInv, TotalsRead
<1>6. ASSUME NEW q \in Requests, pc'[q] = "commit"
      PROVE  seen'[q].total = SplitTotal(Target(q), [paid' EXCEPT ![Payer(q)] = NewAmount(q)'])
  <2>1. NewAmount(q)' = NewAmount(q)
    BY <1>3 DEF NewAmount
  <2>2. CASE q = r
    BY <1>1, <1>3, <2>1, <2>2 DEF n
  <2>3. CASE q # r
    BY <1>1, <1>2, <1>3, <1>6, <2>1, <2>3 DEF TotalsInv, TotalsRead
  <2> QED
    BY <2>2, <2>3
<1>7. TotalsRead'
  BY <1>5, <1>6 DEF TotalsRead
<1> QED
  BY <1>4, <1>7 DEF TotalsInv

\* A commit writes the total its transaction added up: it held the split's row since, so
\* no other participant of the split has paid in between.
LEMMA CommitKeepsTotals ==
    ASSUME PaymentInv, TotalsInv, NEW r \in Requests, Commit(r)
    PROVE  TotalsInv'
<1> DEFINE p == Payer(r)
           s == Target(r)
           m == NewAmount(r)
           total == seen[r].total
           status == StatusFor(s, total)
<1>1. /\ pc[r] = "commit" /\ paid' = [paid EXCEPT ![p] = m] /\ seen' = seen
      /\ splitPaid' = [splitPaid EXCEPT ![s] = total]
      /\ splitStatus' = [splitStatus EXCEPT ![s] = status]
      /\ pc' = [pc EXCEPT ![r] = "notify"]
      /\ \E b : standing' = [standing EXCEPT ![p] = b]
  BY DEF Commit, Goto
<1>2. /\ p \in Participants /\ s \in Splits /\ m \in Nat /\ paid \in [Participants -> Nat]
      /\ standing \in [Participants -> {"pending", "partial", "paid"}]
      /\ splitPaid \in [Splits -> Nat] /\ splitStatus \in [Splits -> {"active", "partial", "completed"}]
      /\ pc \in [Requests -> {"idle", "byKey", "byTx", "verify", "participant", "split",
                              "convert", "record", "store", "commit", "notify", "done"}]
  BY RequestTypes, NewAmountType DEF PaymentInv, PaymentTypeOK
<1>3. SplitOf[p] = s /\ total = SplitTotal(s, [paid EXCEPT ![p] = m]) /\ splitLock[s] = r
      /\ rowLock[p] = r
  BY <1>1 DEF TotalsInv, TotalsRead, Holding, PaymentInv, SplitsHeld, RowsHeld, Paying
<1>4. \A q \in Requests : pc'[q] = IF q = r THEN "notify" ELSE pc[q]
  BY <1>1, <1>2
<1>5. ASSUME NEW q \in Requests, Holding(q)'
      PROVE  q # r /\ Holding(q) /\ Payer(q) # p
  <2>1. q # r /\ Holding(q)
    BY <1>4, <1>5 DEF Holding
  <2> QED
    BY <1>3, <2>1 DEF PaymentInv, RowsHeld
<1> HIDE DEF p, s, m, total, status
<1>6. ASSUME NEW q \in Requests, Holding(q)'
      PROVE  SplitOf[Payer(q)] = Target(q) /\ seen'[q].standing = standing'[Payer(q)]
  <2>1. Payer(q) # p /\ Holding(q) /\ Payer(q) \in Participants
    BY <1>5, <1>6, RequestTypes
  <2>2. standing'[Payer(q)] = standing[Payer(q)]
    BY <1>1, <1>2, <2>1
  <2> QED
    BY <1>1, <2>1, <2>2 DEF TotalsInv, TotalsRead
<1>7. ASSUME NEW q \in Requests, pc'[q] = "commit"
      PROVE  seen'[q].total = SplitTotal(Target(q), [paid' EXCEPT ![Payer(q)] = NewAmount(q)'])
  <2>1. q # r /\ pc[q] = "commit"
    BY <1>4, <1>7
  <2>2. Target(q) # s
    BY <1>3, <2>1 DEF PaymentInv, SplitsHeld, Paying
  <2>3. NewAmount(q)' = NewAmount(q) /\ NewAmount(q) \in Nat
    BY <1>1, NewAmountType DEF NewAmount, PaymentInv
  <2>4. SplitTotal(Target(q), [paid' EXCEPT ![Payer(q)] = NewAmount(q)])
          = SplitTotal(Target(q), [paid EXCEPT ![Payer(q)] = NewAmount(q)])
    <3> DEFINE a == [paid EXCEPT ![Payer(q)] = NewAmount(q)]
               b == [paid' EXCEPT ![Payer(q)] = NewAmount(q)]
    <3>1. /\ a \in [Participants -> Nat] /\ b \in [Participants -> Nat]
          /\ \A x \in Participants : SplitOf[x] = Target(q) => b[x] = a[x]
      BY <1>1, <1>2, <1>3, <2>2, <2>3
    <3> HIDE DEF a, b
    <3>2. SplitTotal(Target(q), b) = SplitTotal(Target(q), a)
      BY <3>1, OtherSplitsApart
    <3> QED
      BY <3>2 DEF a, b
  <2> QED
    BY <1>1, <2>1, <2>3, <2>4 DEF TotalsInv, TotalsRead
<1>8. ASSUME NEW x \in Splits
      PROVE  /\ splitPaid'[x] = SplitTotal(x, paid')
             /\ splitPaid'[x] > 0 => splitStatus'[x] = StatusFor(x, splitPaid'[x])
  <2>1. CASE x = s
    BY <1>1, <1>2, <1>3, <2>1 DEF status
  <2>2. CASE x # s
    <3>1. splitPaid'[x] = splitPaid[x] /\ splitStatus'[x] = splitStatus[x]
      BY <1>1, <1>2, <2>2
    <3>2. /\ paid' \in [Participants -> Nat]
          /\ \A y \in Participants : SplitOf[y] = x => paid'[y] = paid[y]
      BY <1>1, <1>2, <1>3, <2>2
    <3>3. SplitTotal(x, paid') = SplitTotal(x, paid)
      BY <1>2, <3>2, OtherSplitsApart
    <3> QED
      BY <3>1, <3>3 DEF TotalsInv, SplitTotalsAddUp
  <2> QED
    BY <2>1, <2>2
<1>9. TotalsRead' /\ SplitTotalsAddUp'
  BY <1>6, <1>7, <1>8 DEF TotalsRead, SplitTotalsAddUp, StatusFor
<1> QED
  BY <1>9 DEF TotalsInv

LEMMA TotalsStep == PaymentInv /\ TotalsInv /\ [Next]_paymentVars => TotalsInv'
<1> SUFFICES ASSUME PaymentInv, TotalsInv, [Next]_paymentVars PROVE TotalsInv'
  OBVIOUS
<1>1. pc \in [Requests -> {"idle", "byKey", "byTx", "verify", "participant", "split",
                           "convert", "record", "store", "commit", "notify", "done"}]
  BY DEF PaymentInv, PaymentTypeOK
<1>2. ASSUME NEW r \in Requests, NEW place, place # "commit",
             pc' = [pc EXCEPT ![r] = place], seen' = seen, UNCHANGED books,
             place \in {"split", "convert", "record", "store"} => Holding(r)
      PROVE  TotalsInv'
  <2>1. \A q \in Requests : pc'[q] = IF q = r THEN place ELSE pc[q]
    BY <1>1, <1>2
  <2>2. \A q \in Requests :
              /\ pc'[q] = "commit" => pc[q] = "commit"
              /\ Holding(q)' => Holding(q)
              /\ Holding(q)' => seen'[q] = seen[q]
    BY <1>2, <2>1 DEF Holding
  <2> QED
    BY <1>2, <2>2, TotalsStay
<1>3. ASSUME NEW r \in Requests, submitPayment(r) \/ FindByKey(r) \/ FindByTxHash(r) \/ Verify(r)
      PROVE  TotalsInv'
  <2>1. seen' = seen /\ UNCHANGED books
    BY <1>3 DEF submitPayment, FindByKey, FindByTxHash, Verify
  <2>2. PICK place \in {"byKey", "byTx", "verify", "participant", "done"} :
           pc' = [pc EXCEPT ![r] = place]
    BY <1>3 DEF submitPayment, FindByKey, FindByTxHash, Verify, Goto, Reply
  <2> QED
    BY <1>2, <2>1, <2>2
<1>4. ASSUME NEW r \in Requests, LockParticipant(r) PROVE TotalsInv'
  <2>1. CASE SplitOf[Payer(r)] = Target(r)
    BY <1>4, <2>1, LockKeepsTotals
  <2>2. CASE SplitOf[Payer(r)] # Target(r)
    <3>1. seen' = seen /\ UNCHANGED books /\ pc' = [pc EXCEPT ![r] = "done"]
      BY <1>4, <2>2 DEF LockParticipant, Reply, Goto
    <3> QED
      BY <1>2, <3>1
  <2> QED
    BY <2>1, <2>2
<1>5. ASSUME NEW r \in Requests, LockSplit(r) \/ Convert(r) \/ RollBack(r) \/ Notify(r) \/ Crash(r)
      PROVE  TotalsInv'
  <2>1. seen' = seen /\ UNCHANGED books
    BY <1>5 DEF LockSplit, Convert, RollBack, Notify, Crash
  <2>2. PICK place \in {"convert", "store", "record", "done"} : pc' = [pc EXCEPT ![r] = place]
    BY <1>5 DEF LockSplit, Convert, RollBack, Notify, Crash, Goto, Reply, RefuseFrozen
  <2>3. place # "done" => Holding(r)
    <3>1. CASE LockSplit(r) \/ Convert(r)
      BY <3>1 DEF LockSplit, Convert, Holding
    <3>2. CASE RollBack(r) \/ Notify(r) \/ Crash(r)
      <4>1. pc' = [pc EXCEPT ![r] = "done"]
        BY <3>2 DEF RollBack, Notify, Crash, Reply, Goto
      <4> QED
        BY <1>1, <2>2, <4>1
    <3> QED
      BY <1>5, <3>1, <3>2
  <2> QED
    BY <1>2, <2>1, <2>2, <2>3
<1>6. ASSUME NEW r \in Requests, Store(r) \/ Commit(r) PROVE TotalsInv'
  BY <1>6, StoreKeepsTotals, CommitKeepsTotals
<1>7. ASSUME NEW s \in Splits, NEW b \in BOOLEAN, SetFrozen(s, b) PROVE TotalsInv'
  <2>1. pc' = pc /\ seen' = seen /\ UNCHANGED books
    BY <1>7 DEF SetFrozen
  <2> QED
    BY <2>1, TotalsStay DEF Holding
<1>8. CASE UNCHANGED paymentVars
  <2>1. pc' = pc /\ seen' = seen /\ UNCHANGED books
    BY <1>8 DEF paymentVars, books
  <2> QED
    BY <2>1, TotalsStay DEF Holding
<1> QED
  BY <1>3, <1>4, <1>5, <1>6, <1>7, <1>8 DEF Next, Proceed

LEMMA TotalsInit == Init => TotalsInv
<1> SUFFICES ASSUME Init PROVE TotalsInv
  OBVIOUS
<1>1. TotalsRead
  BY DEF Init, TotalsRead, Holding
<1>2. ASSUME NEW s \in Splits
      PROVE  splitPaid[s] = SplitTotal(s, paid) /\ splitPaid[s] = 0
  <2> DEFINE f == [p \in Participants |-> IF SplitOf[p] = s THEN paid[p] ELSE 0]
  <2>1. /\ f \in [1..NumParticipants -> Int] /\ \A k \in (0 + 1)..NumParticipants : f[k] = 0
        /\ NumParticipants \in Nat /\ 0 \in 0..NumParticipants
    BY PaymentConstants DEF Init, Participants
  <2> HIDE DEF f
  <2>2. SumTo(f, NumParticipants) = SumTo(f, 0) /\ SumTo(f, 0) = 0
    BY <2>1, SumTail, SumSteps
  <2> QED
    BY <2>2 DEF f, SplitTotal, Init
<1> QED
  BY <1>1, <1>2 DEF TotalsInv, SplitTotalsAddUp

\* The total and the status of a split agree with what its participants have paid, after
\* every commit and whatever the driver makes of decimal columns.
THEOREM PaymentTotalsHold == Spec => []SplitTotalsAddUp
<1>1. TotalsInv => SplitTotalsAddUp
  BY DEF TotalsInv
<1> QED
  BY <1>1, TotalsInit, TotalsStep, PaymentInvariant, PTL DEF Spec

\* With numbers in decimal columns, a commit gives its participant the event exactly when
\* its amount takes it from below what it owes to at least that.
LEMMA CommitKeepsEvents ==
    ASSUME ~DecimalsAreText, PaymentInv, TotalsInv, StandingFits, OneReputationEvent,
           NEW r \in Requests, Commit(r)
    PROVE  StandingFits' /\ OneReputationEvent'
<1> DEFINE p == Payer(r)
           n == Amount[Request[r].tx]
           reached == Reaches(p, seen[r].paid, n)
<1>1. /\ pc[r] = "commit" /\ paid' = [paid EXCEPT ![p] = NewAmount(r)]
      /\ standing' = [standing EXCEPT ![p] = IF reached THEN "paid" ELSE "partial"]
      /\ reputation' = [reputation EXCEPT ![p] = IF ReputationDue(r, reached) THEN @ + 1 ELSE @]
  BY DEF Commit
<1>2. /\ p \in Participants /\ n \in Nat /\ paid \in [Participants -> Nat]
      /\ standing \in [Participants -> {"pending", "partial", "paid"}]
      /\ reputation \in [Participants -> Nat] /\ Owed[p] \in Nat /\ paid[p] \in Nat
  BY RequestTypes, PaymentConstants DEF PaymentInv, PaymentTypeOK
<1>3. seen[r].paid = paid[p] /\ seen[r].standing = standing[p]
  BY <1>1 DEF PaymentInv, RowsHeld, TotalsInv, TotalsRead, Holding
<1>4. NewAmount(r) = paid[p] + n /\ (reached <=> paid[p] + n >= Owed[p])
  BY <1>3 DEF NewAmount, newAmountPaid, Reaches
<1>5. ReputationDue(r, reached) <=> reached /\ ~(paid[p] >= Owed[p])
  BY <1>2, <1>3 DEF ReputationDue, wasFullyPaidBefore, StandingFits
<1>6. reputation[p] = IF 0 < Owed[p] /\ Owed[p] <= paid[p] THEN 1 ELSE 0
  BY <1>2 DEF OneReputationEvent
<1>7. \A q \in Participants : q # p => /\ paid'[q] = paid[q] /\ standing'[q] = standing[q]
                                       /\ reputation'[q] = reputation[q]
  BY <1>1, <1>2
<1>8. /\ paid'[p] = paid[p] + n /\ standing'[p] = (IF reached THEN "paid" ELSE "partial")
      /\ reputation'[p] = IF ReputationDue(r, reached) THEN reputation[p] + 1 ELSE reputation[p]
  BY <1>1, <1>2, <1>4
<1> HIDE DEF p, n, reached
<1>9. /\ standing'[p] = "paid" => paid'[p] >= Owed[p]
      /\ reputation'[p] = IF 0 < Owed[p] /\ Owed[p] <= paid'[p] THEN 1 ELSE 0
  <2>1. CASE paid[p] >= Owed[p]
    BY <1>2, <1>4, <1>5, <1>6, <1>8, <2>1
  <2>2. CASE paid[p] < Owed[p]
    BY <1>2, <1>4, <1>5, <1>6, <1>8, <2>2
  <2> QED
    BY <1>2, <2>1, <2>2
<1>10. StandingFits'
  BY <1>7, <1>9 DEF StandingFits
<1>11. OneReputationEvent'
  BY <1>7, <1>9 DEF OneReputationEvent
<1> QED
  BY <1>10, <1>11

LEMMA EventsStep ==
    ASSUME ~DecimalsAreText
    PROVE  PaymentInv /\ TotalsInv /\ (StandingFits /\ OneReputationEvent) /\ [Next]_paymentVars
             => (StandingFits /\ OneReputationEvent)'
<1> SUFFICES ASSUME PaymentInv, TotalsInv, StandingFits, OneReputationEvent, [Next]_paymentVars
             PROVE  StandingFits' /\ OneReputationEvent'
  OBVIOUS
<1>1. CASE UNCHANGED books
  BY <1>1 DEF books, StandingFits, OneReputationEvent
<1>2. ASSUME NEW r \in Requests, Commit(r) PROVE StandingFits' /\ OneReputationEvent'
  BY <1>2, CommitKeepsEvents
<1>3. ASSUME NEW r \in Requests, submitPayment(r) \/ Crash(r) \/ (Proceed(r) /\ ~Commit(r))
      PROVE  UNCHANGED books
  BY <1>3 DEF submitPayment, Crash, Proceed, FindByKey, FindByTxHash, Verify, LockParticipant,
              LockSplit, Convert, RollBack, Store, Notify
<1>4. ASSUME NEW s \in Splits, NEW b \in BOOLEAN, SetFrozen(s, b) PROVE UNCHANGED books
  BY <1>4 DEF SetFrozen
<1>5. UNCHANGED paymentVars => UNCHANGED books
  BY DEF paymentVars, books
<1> QED
  BY <1>1, <1>2, <1>3, <1>4, <1>5 DEF Next

\* With numbers in decimal columns, the totals of the splits follow from what their
\* participants have paid, and paying in full counts once for a participant's reputation,
\* however its submissions interleave.
THEOREM PaymentEventsHold ==
    ASSUME ~DecimalsAreText PROVE Spec => []PaymentsAddUp
<1>1. Init => StandingFits /\ OneReputationEvent
  BY PaymentConstants DEF Init, StandingFits, OneReputationEvent
<1>2. PaymentInv /\ TotalsInv /\ (StandingFits /\ OneReputationEvent) /\ [Next]_paymentVars
        => (StandingFits /\ OneReputationEvent)'
  BY EventsStep
<1>3. TotalsInv /\ (StandingFits /\ OneReputationEvent) => PaymentsAddUp
  BY DEF TotalsInv, PaymentsAddUp
<1> QED
  BY <1>1, <1>2, <1>3, TotalsInit, TotalsStep, PaymentInvariant, PTL DEF Spec

-----------------------------------------------------------------------------
(* Waits and answers *)

\* A lock is its holder's, and its holder is under way: nothing ends with a lock.
LocksEnd ==
    /\ \A p \in Participants : rowLock[p] # None =>
         Holding(rowLock[p]) /\ Payer(rowLock[p]) = p
    /\ \A s \in Splits : splitLock[s] # None =>
         Paying(splitLock[s]) /\ Target(splitLock[s]) = s

\* No lock changes hands, and the one who moves keeps what goes with its locks.
LEMMA LocksStay ==
    ASSUME PaymentTypeOK, LocksEnd, NEW r \in Requests, NEW place,
           pc' = [pc EXCEPT ![r] = place], UNCHANGED locks,
           Holding(r) => place \in {"split", "convert", "record", "store", "commit"},
           Paying(r) => place \in {"convert", "record", "store", "commit"}
    PROVE  LocksEnd'
<1>1. \A q \in Requests : (Holding(q) => Holding(q)') /\ (Paying(q) => Paying(q)')
  BY DEF PaymentTypeOK, Holding, Paying
<1>2. /\ \A p \in Participants : rowLock[p] \in Requests \cup {None}
      /\ \A s \in Splits : splitLock[s] \in Requests \cup {None}
  BY DEF PaymentTypeOK
<1> QED BY <1>1, <1>2 DEF LocksEnd, locks

\* A submission that ends unlocks what it held, at whatever place.
LEMMA LocksGo ==
    ASSUME PaymentTypeOK, LocksEnd, NEW r \in Requests, NEW place,
           pc' = [pc EXCEPT ![r] = place], Unlock(r)
    PROVE  LocksEnd'
<1>1. \A q \in Requests \ {r} : (Holding(q) => Holding(q)') /\ (Paying(q) => Paying(q)')
  BY DEF PaymentTypeOK, Holding, Paying
<1>2. ASSUME NEW p \in Participants, rowLock'[p] # None
      PROVE  Holding(rowLock[p])' /\ Payer(rowLock'[p]) = p
  <2>1. rowLock[p] # r /\ rowLock'[p] = rowLock[p] /\ rowLock[p] \in Requests
    BY <1>2 DEF Unlock, PaymentTypeOK
  <2> QED BY <1>1, <1>2, <2>1 DEF LocksEnd, Holding
<1>3. ASSUME NEW s \in Splits, splitLock'[s] # None
      PROVE  Paying(splitLock[s])' /\ Target(splitLock'[s]) = s
  <2>1. splitLock[s] # r /\ splitLock'[s] = splitLock[s] /\ splitLock[s] \in Requests
    BY <1>3 DEF Unlock, PaymentTypeOK
  <2> QED BY <1>1, <1>3, <2>1 DEF LocksEnd, Paying
<1> QED BY <1>2, <1>3 DEF LocksEnd

LEMMA LocksEndStep == PaymentInv /\ LocksEnd /\ [Next]_paymentVars => LocksEnd'
<1> SUFFICES ASSUME PaymentInv, LocksEnd, [Next]_paymentVars PROVE LocksEnd'
  OBVIOUS
<1>0. PaymentTypeOK
  BY DEF PaymentInv
<1>1. ASSUME NEW r \in Requests, submitPayment(r) \/ FindByKey(r) \/ FindByTxHash(r) \/ Verify(r)
                                 \/ Convert(r) \/ Store(r) \/ Notify(r)
      PROVE  LocksEnd'
  <2>1. PICK place : pc' = [pc EXCEPT ![r] = place] /\ UNCHANGED locks
    BY <1>1 DEF submitPayment, FindByKey, FindByTxHash, Verify, Convert, Store, Notify, Reply, Goto
  <2>2. /\ Holding(r) => pc'[r] \in {"split", "convert", "record", "store", "commit"}
        /\ Paying(r) => pc'[r] \in {"convert", "record", "store", "commit"}
    BY <1>0, <1>1 DEF PaymentTypeOK, Holding, Paying, submitPayment, FindByKey, FindByTxHash,
                      Verify, Convert, Store, Notify, Reply, Goto
  <2>3. pc'[r] = place
    BY <1>0, <2>1 DEF PaymentTypeOK
  <2> QED BY <1>0, <2>1, <2>2, <2>3, LocksStay
<1>2. ASSUME NEW r \in Requests, LockParticipant(r) PROVE LocksEnd'
  <2>1. CASE SplitOf[Payer(r)] # Target(r)
    <3>1. pc' = [pc EXCEPT ![r] = "done"] /\ UNCHANGED locks /\ pc[r] = "participant"
      BY <1>2, <2>1 DEF LockParticipant, Reply, Goto, locks
    <3> QED BY <1>0, <3>1, LocksStay DEF Holding, Paying
  <2>2. CASE SplitOf[Payer(r)] = Target(r)
    <3>1. /\ pc' = [pc EXCEPT ![r] = "split"] /\ pc[r] = "participant"
          /\ rowLock' = [rowLock EXCEPT ![Payer(r)] = r] /\ splitLock' = splitLock
      BY <1>2, <2>2 DEF LockParticipant, ReadForUpdate, Goto
    <3>2. \A q \in Requests : (Holding(q) => Holding(q)') /\ (Paying(q) => Paying(q)')
      BY <1>0, <3>1 DEF PaymentTypeOK, Holding, Paying
    <3>3. Holding(r)'
      BY <1>0, <3>1 DEF PaymentTypeOK, Holding
    <3>4. /\ \A p \in Participants : rowLock[p] \in Requests \cup {None}
          /\ \A s \in Splits : splitLock[s] \in Requests \cup {None}
          /\ \A p \in Participants : rowLock'[p] = IF p = Payer(r) THEN r ELSE rowLock[p]
      BY <1>0, <3>1 DEF PaymentTypeOK
    <3> QED BY <3>1, <3>2, <3>3, <3>4 DEF LocksEnd, Holding, Paying
  <2> QED BY <2>1, <2>2
<1>3. ASSUME NEW r \in Requests, LockSplit(r) PROVE LocksEnd'
  <2>1. CASE IsFrozen(r)
    <3>1. pc' = [pc EXCEPT ![r] = "done"] /\ Unlock(r)
      BY <1>3, <2>1 DEF LockSplit, RefuseFrozen, Reply, Goto
    <3> QED BY <1>0, <3>1, LocksGo
  <2>2. CASE ~IsFrozen(r)
    <3>1. PICK place \in {"convert", "store"} :
            /\ pc' = [pc EXCEPT ![r] = place] /\ pc[r] = "split"
            /\ splitLock' = [splitLock EXCEPT ![Target(r)] = r] /\ rowLock' = rowLock
      BY <1>3, <2>2 DEF LockSplit, EnterSplit, Goto
    <3>2. \A q \in Requests : (Holding(q) => Holding(q)') /\ (Paying(q) => Paying(q)')
      BY <1>0, <3>1 DEF PaymentTypeOK, Holding, Paying
    <3>3. Paying(r)'
      BY <1>0, <3>1 DEF PaymentTypeOK, Paying
    <3>4. /\ \A p \in Participants : rowLock[p] \in Requests \cup {None}
          /\ \A s \in Splits : splitLock[s] \in Requests \cup {None}
          /\ \A s \in Splits : splitLock'[s] = IF s = Target(r) THEN r ELSE splitLock[s]
      BY <1>0, <3>1 DEF PaymentTypeOK
    <3> QED BY <3>1, <3>2, <3>3, <3>4 DEF LocksEnd, Holding, Paying
  <2> QED BY <2>1, <2>2
<1>4. ASSUME NEW r \in Requests, RollBack(r) \/ Commit(r) \/ Crash(r) PROVE LocksEnd'
  <2>1. PICK place : pc' = [pc EXCEPT ![r] = place] /\ Unlock(r)
    BY <1>4 DEF RollBack, Commit, Crash, Reply, Goto
  <2> QED BY <1>0, <2>1, LocksGo
<1>5. ASSUME NEW s \in Splits, NEW b \in BOOLEAN, SetFrozen(s, b) PROVE LocksEnd'
  BY <1>5 DEF SetFrozen, locks, LocksEnd, Holding, Paying
<1>6. CASE UNCHANGED paymentVars
  BY <1>6 DEF paymentVars, LocksEnd, Holding, Paying
<1> QED BY <1>1, <1>2, <1>3, <1>4, <1>5, <1>6 DEF Next, Proceed

LEMMA LocksEndInit == Init => LocksEnd
  BY DEF Init, LocksEnd

\* A wait is for one that has come further: for a row, for the split, for the key.
LEMMA WaitsAreAhead ==
    ASSUME PaymentInv, LocksEnd, NEW r \in Requests, NEW q \in Requests, WaitsFor(r, q),
           pc[r] # "record"
    PROVE  \/ pc[r] = "participant" /\ Holding(q)
           \/ pc[r] = "split" /\ Paying(q)
           \/ pc[r] = "store" /\ pc[q] = "commit"
<1>1. q # None /\ Payer(r) \in Participants /\ Target(r) \in Splits
  BY PaymentConstants, RequestTypes
<1> QED BY <1>1 DEF WaitsFor, LocksEnd

\* The one that has come furthest waits for none of the others.
LEMMA NoWaitCycleFollows == PaymentInv /\ LocksEnd => NoWaitCycle
<1> SUFFICES ASSUME PaymentInv, LocksEnd PROVE NoWaitCycle
  OBVIOUS
<1>1. ASSUME NEW r \in Requests, NEW q \in Requests, WaitsFor(r, q)
      PROVE  pc[q] \notin {"idle", "notify", "done"}
  <2>1. CASE pc[r] = "record"
    BY <1>1, <2>1 DEF WaitsFor
  <2>2. CASE pc[r] # "record"
    BY <1>1, <2>2, WaitsAreAhead DEF Holding, Paying
  <2> QED BY <2>1, <2>2
<1>2. ASSUME NEW W \in (SUBSET Requests) \ {{}}, \A r \in W : pc[r] # "record",
             \A r \in W : \E q \in W : WaitsFor(r, q)
      PROVE  FALSE
  <2>1. \A r \in W : \E q \in W :
          \/ pc[r] = "participant" /\ Holding(q)
          \/ pc[r] = "split" /\ Paying(q)
          \/ pc[r] = "store" /\ pc[q] = "commit"
    BY <1>2, WaitsAreAhead
  <2>2. \A r \in W : pc[r] \in {"participant", "split", "store"}
    BY <2>1
  <2>3. \A r \in W : pc[r] # "store"
    BY <2>1, <2>2
  <2>4. \A r \in W : pc[r] # "split"
    BY <2>1, <2>2, <2>3 DEF Paying
  <2>5. \A r \in W : pc[r] # "participant"
    BY <2>1, <2>2, <2>3, <2>4 DEF Holding
  <2> QED BY <1>2, <2>2, <2>3, <2>4, <2>5
<1> QED BY <1>1, <1>2 DEF NoWaitCycle

\* Submissions never wait for each other in a circle, nor for one that is over, for any
\* number of submissions, participants, splits and keys: each takes its locks in one
\* order, and every way out releases them.
THEOREM WaitsEnd == Spec => []NoWaitCycle
  BY PaymentInitInv, PaymentStepInv, LocksEndInit, LocksEndStep, NoWaitCycleFollows, PTL DEF Spec

\* Until its end a submission has told its caller nothing; it gives notice of a credit.
AnswersInv ==
    /\ AnswersHold
    /\ \A r \in Requests : pc[r] # "done" => answer[r] = "none"
    /\ \A r \in Requests : pc[r] = "notify" => r \in credited

LEMMA AnswersStep == PaymentInv /\ AnswersInv /\ [Next]_paymentVars => AnswersInv'
<1> SUFFICES ASSUME PaymentInv, AnswersInv, [Next]_paymentVars PROVE AnswersInv'
  OBVIOUS
<1>0. /\ pc \in [Requests -> {"idle", "byKey", "byTx", "verify", "participant", "split",
                              "convert", "record", "store", "commit", "notify", "done"}]
      /\ answer \in [Requests -> {"none", "processed", "duplicate", "refused"}]
      /\ \A r \in credited : pc[r] \in {"notify", "done"}
  BY DEF PaymentInv, PaymentTypeOK, KeysHeld
\* A reply: what it says has to be so.
<1>1. ASSUME NEW r \in Requests, NEW what \in {"processed", "duplicate", "refused"},
             Reply(r, what), credited' = credited,
             what = "processed" => r \in credited,
             what \in {"duplicate", "refused"} => r \notin credited,
             what = "duplicate" => KnownKey(r) \/ KnownTx(r)
      PROVE  AnswersInv'
  <2>1. \A q \in Requests : /\ pc'[q] = IF q = r THEN "done" ELSE pc[q]
                            /\ answer'[q] = IF q = r THEN what ELSE answer[q]
    BY <1>0, <1>1 DEF Reply, Goto
  <2> QED BY <1>1, <2>1 DEF AnswersInv, AnswersHold, KnownKey, KnownTx
\* No reply, and no way back from the end.
<1>2. ASSUME NEW r \in Requests, NEW place, Goto(r, place), pc[r] # "done",
             place = "notify" => r \in credited', answer' = answer, credited' = credited \/ credited' = credited \cup {r}
      PROVE  AnswersInv'
  <2>1. answer[r] = "none"
    BY <1>2 DEF AnswersInv
  <2>2. \A q \in Requests : pc'[q] = IF q = r THEN place ELSE pc[q]
    BY <1>0, <1>2 DEF Goto
  <2>3. credited \subseteq credited' /\ \A q \in credited' : q \in credited \/ q = r
    BY <1>2
  <2>4. AnswersHold'
    BY <1>2, <2>1, <2>3 DEF AnswersInv, AnswersHold
  <2> QED BY <1>2, <2>1, <2>2, <2>3, <2>4 DEF AnswersInv
<1>3. ASSUME NEW r \in Requests, FindByKey(r) PROVE AnswersInv'
  BY <1>0, <1>1, <1>2, <1>3 DEF FindByKey, books
<1>4. ASSUME NEW r \in Requests, FindByTxHash(r) PROVE AnswersInv'
  BY <1>0, <1>1, <1>2, <1>4 DEF FindByTxHash, books
<1>5. ASSUME NEW r \in Requests, Verify(r) PROVE AnswersInv'
  BY <1>0, <1>1, <1>2, <1>5 DEF Verify, books
<1>6. ASSUME NEW r \in Requests, LockParticipant(r) PROVE AnswersInv'
  BY <1>0, <1>1, <1>2, <1>6 DEF LockParticipant, books
<1>7. ASSUME NEW r \in Requests, LockSplit(r) PROVE AnswersInv'
  BY <1>0, <1>1, <1>2, <1>7 DEF LockSplit, RefuseFrozen, books
<1>8. ASSUME NEW r \in Requests, RollBack(r) PROVE AnswersInv'
  BY <1>0, <1>1, <1>8 DEF RollBack, books
<1>9. ASSUME NEW r \in Requests, Notify(r) PROVE AnswersInv'
  <2>1. r \in credited
    BY <1>9 DEF Notify, AnswersInv
  <2> QED BY <1>1, <1>9, <2>1 DEF Notify, books
<1>10. ASSUME NEW r \in Requests,
              submitPayment(r) \/ Convert(r) \/ Store(r) \/ Commit(r) \/ Crash(r)
       PROVE  AnswersInv'
  <2>1. PICK place : /\ Goto(r, place)
                     /\ place = "notify" => r \in credited'
    BY <1>10 DEF submitPayment, Convert, Store, Commit, Crash
  <2>2. /\ pc[r] # "done" /\ answer' = answer
        /\ credited' = credited \/ credited' = credited \cup {r}
    BY <1>10 DEF submitPayment, Convert, Store, Commit, Crash, books
  <2> QED BY <1>2, <2>1, <2>2
<1>11. ASSUME NEW s \in Splits, NEW b \in BOOLEAN, SetFrozen(s, b) PROVE AnswersInv'
  BY <1>11 DEF SetFrozen, AnswersInv, AnswersHold, books
<1>12. CASE UNCHANGED paymentVars
  BY <1>12 DEF paymentVars, AnswersInv, AnswersHold
<1> QED BY <1>3, <1>4, <1>5, <1>6, <1>7, <1>8, <1>9, <1>10, <1>11, <1>12 DEF Next, Proceed

LEMMA AnswersInit == Init => AnswersInv
  BY DEF Init, AnswersInv, AnswersHold

\* What a caller hears of its submission stays true: a duplicate is one of a payment that
\* is in, and nothing refused was credited, for any number of submissions and crashes.
THEOREM AnswersTrue == Spec => []AnswersHold
<1>1. AnswersInv => AnswersHold
  BY DEF AnswersInv
<1> QED BY PaymentInitInv, PaymentStepInv, AnswersInit, AnswersStep, <1>1, PTL DEF Spec

-----------------------------------------------------------------------------
(* Disputes around the payments *)

\* The object a handler holds belongs to the split it was filed for or loaded with.
HandlerInv ==
    /\ D!DisputeRowsOK
    /\ \A d \in Disputes : dispute[d].status # "none" => dispute[d].split \in Splits
    /\ \A h \in Handlers :
         /\ handler[h].op # "idle" => handler[h].split \in Splits
         /\ handler[h].op \notin {"idle", "file"} =>
              /\ handler[h].id \in Disputes /\ handler[h].copy.split = handler[h].split
              /\ handler[h].copy.status # "none"

\* What disputes do to the flags of the splits: nothing, or a freeze that waits for the row.
LEMMA DisputesFreezeOrThaw ==
    ASSUME PaymentTypeOK, HandlerInv, NEW h \in Handlers, HandleDispute(h)
    PROVE  \/ frozen' = frozen
           \/ \E s \in Splits, b \in BOOLEAN : SetFrozen(s, b)
<1>1. frozen \in [Splits -> BOOLEAN] /\ UNCHANGED <<pc, answer, books, seen, locks>>
  BY DEF PaymentTypeOK, HandleDispute
<1>2. ASSUME NEW s \in Splits, D!FindActiveDispute(h, s) PROVE frozen' = frozen
  BY <1>2 DEF D!FindActiveDispute
<1>3. ASSUME NEW d \in Disputes, FreezeWaits(h), D!fileDispute(h, d)
      PROVE  \E s \in Splits, b \in BOOLEAN : SetFrozen(s, b)
  <2> DEFINE s == handler[h].split
  <2>1. s \in Splits /\ s # None
    BY <1>3, DisputedConstants DEF HandlerInv, D!fileDispute, D!DisputeConstants
  <2>2. splitLock[s] = None /\ frozen' = [frozen EXCEPT ![s] = TRUE]
    BY <1>3, <2>1 DEF FreezeWaits, D!fileDispute, D!FilingFreezes
  <2> QED
    BY <1>1, <2>1, <2>2 DEF SetFrozen
<1>4. ASSUME NEW d \in Disputes, NEW op, D!Load(h, op, d) PROVE frozen' = frozen
  BY <1>4 DEF D!Load
<1>5. ASSUME SetsFrozen(h) => FreezeWaits(h), D!SaveAction(h)
      PROVE  frozen' = frozen \/ \E s \in Splits, b \in BOOLEAN : SetFrozen(s, b)
  <2> DEFINE op == handler[h].op
             s == handler[h].split
             f == D!FreezeAfter(op, frozen[s])
  <2>1. op \in D!Operations /\ op \notin {"idle", "file"}
    BY <1>5 DEF D!SaveAction, D!Operations
  <2>2. /\ s \in Splits /\ s # None /\ handler[h].copy.split = s
        /\ handler[h].copy \in D!Row
    BY <2>1, DisputedConstants DEF HandlerInv, D!DisputeRowsOK, D!DisputeConstants
  <2>3. D!Updated(op, handler[h].copy).split = s
    BY <2>2 DEF D!Updated, D!Row
  <2>4. frozen' = [frozen EXCEPT ![s] = f]
    BY <1>5, <2>3 DEF D!SaveAction
  <2>5. CASE op \in {"resolve", "reject", "appeal"}
    <3>1. splitLock[s] = None
      BY <1>5, <2>2, <2>5 DEF SetsFrozen, FreezeWaits
    <3>2. f \in BOOLEAN
      BY <2>5 DEF D!FreezeAfter
    <3> HIDE DEF f, s
    <3> QED
      BY <1>1, <2>2, <2>4, <3>1, <3>2 DEF SetFrozen
  <2>6. CASE op \notin {"resolve", "reject", "appeal"}
    <3>1. f = frozen[s]
      BY <2>6 DEF D!FreezeAfter
    <3> QED
      BY <1>1, <2>4, <3>1
  <2> QED
    BY <2>5, <2>6
<1>6. D!SaveTransactionHash(h) \/ D!Abandon(h) => frozen' = frozen
  BY DEF D!SaveTransactionHash, D!Abandon
<1> QED
  BY <1>2, <1>3, <1>4, <1>5, <1>6 DEF HandleDispute

LEMMA DisputedStepIsPaymentStep ==
    PaymentInv /\ HandlerInv /\ [DisputedNext]_disputedVars => [Next]_paymentVars
<1> SUFFICES ASSUME PaymentInv, HandlerInv, [DisputedNext]_disputedVars PROVE [Next]_paymentVars
  OBVIOUS
<1>1. ASSUME NEW h \in Handlers, HandleDispute(h) PROVE [Next]_paymentVars
  <2>1. \/ frozen' = frozen
        \/ \E s \in Splits, b \in BOOLEAN : SetFrozen(s, b)
    BY <1>1, DisputesFreezeOrThaw DEF PaymentInv
  <2>2. UNCHANGED <<pc, answer, books, seen, locks>>
    BY <1>1 DEF HandleDispute
  <2> QED
    BY <2>1, <2>2 DEF Next, paymentVars, books, locks
<1>2. ASSUME NEW r \in Requests, HandlePayment(r) PROVE [Next]_paymentVars
  BY <1>2 DEF HandlePayment, Next
<1>3. CASE UNCHANGED disputedVars
  BY <1>3 DEF disputedVars
<1> QED
  BY <1>1, <1>2, <1>3 DEF DisputedNext

LEMMA UpdatedRow ==
    ASSUME NEW op \in D!Operations, NEW row \in D!Row
    PROVE  /\ D!Updated(op, row) \in D!Row /\ D!Updated(op, row).split = row.split
           /\ D!Updated(op, row).status = D!NewStatus(op, row.status)
           /\ D!Updated(op, row).trail = row.trail + D!Entries(op, row.status)
           /\ D!Updated(op, row).status # "none" \/ op = "request"
<1> DEFINE s == D!NewStatus(op, row.status)
           f == D!FreezeAfter(op, row.splitFrozen)
           t == row.trail + D!Entries(op, row.status)
<1>1. t \in Nat
  BY DEF D!Entries, D!Row
<1>2. s \in D!Statuses \cup {"none"} /\ (s # "none" \/ op = "request")
  BY DEF D!NewStatus, D!Target, D!Operations, D!Row, D!Statuses
<1>3. f \in BOOLEAN
  BY DEF D!FreezeAfter, D!Row
<1>4. D!Updated(op, row) = [row EXCEPT !.status = s, !.splitFrozen = f, !.trail = t]
  BY DEF D!Updated
<1> HIDE DEF s, f, t
<1>5. /\ D!Updated(op, row) \in D!Row /\ D!Updated(op, row).status = s
      /\ D!Updated(op, row).trail = t /\ D!Updated(op, row).split = row.split
  BY <1>1, <1>2, <1>3, <1>4 DEF D!Row
<1> QED
  BY <1>2, <1>5 DEF s, t

LEMMA HandlerStep ==
    PaymentTypeOK' /\ HandlerInv /\ [DisputedNext]_disputedVars => HandlerInv'
<1> SUFFICES ASSUME PaymentTypeOK', HandlerInv, [DisputedNext]_disputedVars PROVE HandlerInv'
  OBVIOUS
<1>1. /\ dispute \in [Disputes -> D!Row] /\ performed \in [Disputes -> Nat] /\ reviewed \subseteq Disputes
      /\ handler \in [Handlers -> [op : D!Operations \cup {"idle", "file", "onchain"},
                                   id : Disputes \cup {None}, split : Splits \cup {None},
                                   copy : D!Row]]
      /\ frozen' \in [Splits -> BOOLEAN]
  BY DEF HandlerInv, D!DisputeRowsOK, PaymentTypeOK
<1>2. CASE UNCHANGED moreVars
  BY <1>1, <1>2 DEF moreVars, HandlerInv, D!DisputeRowsOK
\* A handler comes to hold another object.
<1>3. ASSUME NEW h \in Handlers, NEW k, handler' = [handler EXCEPT ![h] = k],
             k \in [op : D!Operations \cup {"idle", "file", "onchain"}, id : Disputes \cup {None},
                    split : Splits \cup {None}, copy : D!Row],
             k.op # "idle" => k.split \in Splits,
             k.op \notin {"idle", "file"} => /\ k.id \in Disputes /\ k.copy.split = k.split
                                             /\ k.copy.status # "none",
             dispute' \in [Disputes -> D!Row], performed' \in [Disputes -> Nat],
             reviewed' \subseteq Disputes,
             \A d \in Disputes : dispute'[d].status # "none" => dispute'[d].split \in Splits
      PROVE  HandlerInv'
  BY <1>1, <1>3 DEF HandlerInv, D!DisputeRowsOK
<1>4. D!NoRow \in D!Row /\ D!Idle.op = "idle"
      /\ D!Idle \in [op : D!Operations \cup {"idle", "file", "onchain"}, id : Disputes \cup {None},
                     split : Splits \cup {None}, copy : D!Row]
  BY DEF D!NoRow, D!Row, D!Idle
<1>5. \A d \in Disputes : dispute[d].status # "none" => dispute[d].split \in Splits
  BY DEF HandlerInv
\* A handler saves a row.
<1>6. ASSUME NEW h \in Handlers, NEW d \in Disputes, NEW row \in D!Row, D!Save(d, row),
             row.split \in Splits
      PROVE  /\ dispute' \in [Disputes -> D!Row] /\ reviewed' \subseteq Disputes
             /\ \A e \in Disputes : dispute'[e].status # "none" => dispute'[e].split \in Splits
  BY <1>1, <1>5, <1>6 DEF D!Save
<1>7. ASSUME NEW h \in Handlers, NEW s \in Splits, D!FindActiveDispute(h, s) PROVE HandlerInv'
  <2> DEFINE k == [D!Idle EXCEPT !.op = "file", !.split = s]
  <2>1. k \in [op : D!Operations \cup {"idle", "file", "onchain"}, id : Disputes \cup {None},
               split : Splits \cup {None}, copy : D!Row] /\ k.op = "file" /\ k.split = s
    BY <1>4 DEF D!Idle
  <2>2. handler' = [handler EXCEPT ![h] = k] /\ UNCHANGED <<dispute, performed, reviewed>>
    BY <1>7 DEF D!FindActiveDispute
  <2> HIDE DEF k
  <2> QED
    BY <1>1, <1>3, <1>5, <2>1, <2>2
<1>8. ASSUME NEW h \in Handlers, NEW d \in Disputes, D!fileDispute(h, d) PROVE HandlerInv'
  <2> DEFINE s == handler[h].split
             row == [status |-> "open", split |-> s, splitFrozen |-> TRUE, trail |-> 1]
             k == [op |-> "onchain", id |-> d, split |-> s, copy |-> [row EXCEPT !.trail = @ + 1]]
  <2>1. s \in Splits
    BY <1>8 DEF HandlerInv, D!fileDispute
  <2>2. row \in D!Row /\ row.split = s /\ row.status = "open" /\ row.trail = 1
    BY <2>1 DEF D!Row, D!Statuses
  <2>3. /\ k \in [op : D!Operations \cup {"idle", "file", "onchain"}, id : Disputes \cup {None},
                  split : Splits \cup {None}, copy : D!Row]
        /\ k.op = "onchain" /\ k.split = s /\ k.id = d /\ k.copy.split = s /\ k.copy.status = "open"
    <3> DEFINE c == [row EXCEPT !.trail = @ + 1]
    <3>1. c \in D!Row /\ c.split = s /\ c.status = "open"
      <4> HIDE DEF row, s
      <4> QED
        BY <2>2 DEF D!Row
    <3> HIDE DEF c, s
    <3>2. k = [op |-> "onchain", id |-> d, split |-> s, copy |-> c]
      BY DEF c
    <3> HIDE DEF k
    <3> QED
      BY <2>1, <3>1, <3>2
  <2>4. /\ handler' = [handler EXCEPT ![h] = k] /\ performed' = [performed EXCEPT ![d] = 1]
        /\ D!Save(d, row)
    BY <1>8 DEF D!fileDispute
  <2> HIDE DEF k, row, s
  <2> QED
    BY <1>1, <1>3, <1>6, <2>1, <2>2, <2>3, <2>4
<1>9. ASSUME NEW h \in Handlers, NEW d \in Disputes, NEW op \in D!Operations, D!Load(h, op, d)
      PROVE  HandlerInv'
  <2> DEFINE k == [op |-> op, id |-> d, split |-> dispute[d].split, copy |-> dispute[d]]
  <2>1. dispute[d].status # "none" /\ dispute[d].split \in Splits /\ dispute[d] \in D!Row
    BY <1>1, <1>5, <1>9 DEF D!Load
  <2>2. /\ k \in [op : D!Operations \cup {"idle", "file", "onchain"}, id : Disputes \cup {None},
                  split : Splits \cup {None}, copy : D!Row]
        /\ k.split \in Splits /\ k.id = d /\ k.copy.split = k.split /\ k.copy.status # "none"
    BY <2>1
  <2>3. handler' = [handler EXCEPT ![h] = k] /\ UNCHANGED <<dispute, performed, reviewed>>
    BY <1>9 DEF D!Load
  <2> HIDE DEF k
  <2> QED
    BY <1>1, <1>3, <1>5, <2>2, <2>3
<1>10. ASSUME NEW h \in Handlers, D!SaveAction(h) PROVE HandlerInv'
  <2> DEFINE op == handler[h].op
             d == handler[h].id
             c == handler[h].copy
             row == D!Updated(op, c)
             k == IF op = "resolve" THEN [handler[h] EXCEPT !.op = "onchain", !.copy = row]
                                    ELSE D!Idle
  <2>1. op \in D!Operations /\ op \notin {"idle", "file"}
    BY <1>10 DEF D!SaveAction, D!Operations
  <2>2. /\ d \in Disputes /\ c \in D!Row /\ c.split = handler[h].split /\ c.split \in Splits
        /\ c.status # "none"
    BY <1>1, <2>1 DEF HandlerInv
  <2>3. row \in D!Row /\ row.split = c.split /\ (op = "resolve" => row.status # "none")
    BY <2>1, <2>2, UpdatedRow
  <2>4. /\ k \in [op : D!Operations \cup {"idle", "file", "onchain"}, id : Disputes \cup {None},
                  split : Splits \cup {None}, copy : D!Row]
        /\ k.op \in {"idle", "onchain"}
        /\ k.op # "idle" => k.split = handler[h].split /\ k.id = d /\ k.copy = row /\ op = "resolve"
    <3>1. handler[h] \in [op : D!Operations \cup {"idle", "file", "onchain"},
                          id : Disputes \cup {None}, split : Splits \cup {None}, copy : D!Row]
      BY <1>1
    <3> HIDE DEF row
    <3>2. CASE op = "resolve"
      BY <2>3, <3>1, <3>2
    <3>3. CASE op # "resolve"
      BY <1>4, <3>3
    <3> QED
      BY <3>2, <3>3
  <2>5. /\ handler' = [handler EXCEPT ![h] = k]
        /\ performed' = [performed EXCEPT ![d] = @ + D!Entries(op, c.status)]
        /\ D!Save(d, row)
    BY <1>10 DEF D!SaveAction
  <2>6. D!Entries(op, c.status) \in Nat
    BY DEF D!Entries
  <2> HIDE DEF k, row, c, d, op
  <2>7. performed' \in [Disputes -> Nat]
    BY <1>1, <2>2, <2>5, <2>6
  <2> QED
    BY <1>1, <1>3, <1>6, <2>2, <2>3, <2>4, <2>5, <2>7
<1>11. ASSUME NEW h \in Handlers, D!SaveTransactionHash(h) PROVE HandlerInv'
  <2> DEFINE d == handler[h].id
             c == handler[h].copy
  <2>1. d \in Disputes /\ c \in D!Row /\ c.split \in Splits
    BY <1>1, <1>11 DEF HandlerInv, D!SaveTransactionHash
  <2>2. /\ handler' = [handler EXCEPT ![h] = D!Idle] /\ D!Save(d, c)
        /\ performed' = IF c.status = "open" THEN [performed EXCEPT ![d] = @ + 1] ELSE performed
    BY <1>11 DEF D!SaveTransactionHash
  <2> HIDE DEF d, c
  <2>3. performed' \in [Disputes -> Nat]
    BY <1>1, <2>1, <2>2
  <2> QED
    BY <1>3, <1>4, <1>6, <2>1, <2>2, <2>3
<1>12. ASSUME NEW h \in Handlers, D!Abandon(h) PROVE HandlerInv'
  <2>1. handler' = [handler EXCEPT ![h] = D!Idle] /\ UNCHANGED <<dispute, performed, reviewed>>
    BY <1>12 DEF D!Abandon
  <2> QED
    BY <1>1, <1>3, <1>4, <1>5, <2>1
<1>13. UNCHANGED disputedVars => UNCHANGED moreVars
  BY DEF disputedVars
<1>14. \A r \in Requests : HandlePayment(r) => UNCHANGED moreVars
  BY DEF HandlePayment
<1> QED
  BY <1>2, <1>7, <1>8, <1>9, <1>10, <1>11, <1>12, <1>13, <1>14 DEF DisputedNext, HandleDispute

LEMMA HandlerInit == DisputedInit => HandlerInv
<1> SUFFICES ASSUME DisputedInit PROVE HandlerInv
  OBVIOUS
<1>1. D!NoRow \in D!Row /\ D!NoRow.status = "none" /\ D!Idle.op = "idle"
      /\ D!Idle \in [op : D!Operations \cup {"idle", "file", "onchain"}, id : Disputes \cup {None},
                     split : Splits \cup {None}, copy : D!Row]
  BY DEF D!NoRow, D!Row, D!Idle
<1> QED
  BY <1>1 DEF DisputedInit, D!DisputesInit, HandlerInv, D!DisputeRowsOK

LEMMA DisputedInvariant == DisputedSpec => [](PaymentInv /\ HandlerInv)
<1> DEFINE Inv == PaymentInv /\ HandlerInv
<1>1. DisputedInit => Inv
  BY HandlerInit, PaymentInitInv DEF DisputedInit
<1>2. Inv /\ [DisputedNext]_disputedVars => Inv'
  <2> SUFFICES ASSUME PaymentInv, HandlerInv, [DisputedNext]_disputedVars
               PROVE  PaymentInv' /\ HandlerInv'
    OBVIOUS
  <2>1. PaymentInv'
    BY DisputedStepIsPaymentStep, PaymentStepInv
  <2>2. PaymentTypeOK'
    BY <2>1 DEF PaymentInv
  <2> QED
    BY <2>1, <2>2, HandlerStep
<1> QED
  BY <1>1, <1>2, PTL DEF DisputedSpec

\* Whatever disputes are filed, settled and appealed, by however many handlers at a time,
\* payment processing sees splits that freeze and thaw and nothing else.
THEOREM PaymentsWithDisputes == DisputedSpec => PaymentsRefined
<1>1. DisputedInit => Init
  BY DEF DisputedInit
<1> QED
  BY <1>1, DisputedStepIsPaymentStep, DisputedInvariant, PTL DEF DisputedSpec, PaymentsRefined, Spec

\* So what payment processing guarantees, it guarantees under disputes: the totals of the
\* splits, no submissions that wait for one another, and answers that stay true.
THEOREM GuaranteesUnderDisputes ==
    DisputedSpec => [](SplitTotalsAddUp /\ NoWaitCycle /\ AnswersHold)
<1>1. DisputedSpec => Spec
  BY PaymentsWithDisputes DEF PaymentsRefined
<1> QED
  BY <1>1, PaymentTotalsHold, WaitsEnd, AnswersTrue, PTL

\* With numbers in decimal columns, payments under disputes are the ledger as well.
THEOREM LedgerUnderDisputes ==
    ASSUME ~DecimalsAreText PROVE DisputedSpec => PaymentsAreLedger /\ []PaymentsAddUp
<1>1. DisputedSpec => Spec
  BY PaymentsWithDisputes DEF PaymentsRefined
<1>2. Spec => PaymentsAreLedger /\ []PaymentsAddUp
  BY PaymentsImplementLedger, PaymentEventsHold
<1> QED
  BY <1>1, <1>2

-----------------------------------------------------------------------------
(* One dispute and one handler *)

OneAtATime == (\A d, e \in Disputes : d = e) /\ (\A g, h \in Handlers : g = h)

Unsettled == D!Statuses \ D!Settled

\* Whoever waits for the blockchain client holds the row as it is stored, but for the
\* entry its second save will add after a filing.
SentOn(h) ==
    LET row == dispute[handler[h].id] copy == handler[h].copy IN
    /\ copy.status \in {"open", "resolved"} /\ copy.status = row.status
    /\ copy.split = row.split
    /\ copy.trail = row.trail + (IF copy.status = "open" THEN 1 ELSE 0)

\* The split of the dispute is frozen exactly while the dispute is unsettled, and whoever
\* works on the dispute holds it as it is stored.
LifeInv ==
    /\ \A d \in Disputes :
         /\ dispute[d].status = "none" => dispute[d].split = None
         /\ dispute[d].status \in Unsettled => frozen[dispute[d].split]
         /\ dispute[d].trail = performed[d]
    /\ \A s \in Splits : frozen[s] =>
         \E d \in Disputes : dispute[d].split = s /\ dispute[d].status \in Unsettled
    /\ \A h \in Handlers :
         /\ handler[h].op \in D!Operations =>
              handler[h].copy = dispute[handler[h].id] /\ D!Allows(handler[h].op, handler[h].copy.status)
         /\ handler[h].op = "onchain" => SentOn(h)

\* The state machine, the freeze and the status go together.
LEMMA OperationEffect ==
    ASSUME NEW op \in D!Operations, NEW status \in D!Statuses, D!Allows(op, status)
    PROVE  /\ D!canTransition(status, D!NewStatus(op, status))
           /\ D!NewStatus(op, status) \in D!Statuses
           /\ op \in {"resolve", "reject"} => D!NewStatus(op, status) \notin Unsettled
           /\ op \notin {"resolve", "reject"} => D!NewStatus(op, status) \in Unsettled
           /\ op \notin {"resolve", "reject", "appeal"} => status \in Unsettled
           /\ op = "resolve" => D!NewStatus(op, status) = "resolved"
  BY DEF D!Operations, D!Statuses, D!Allows, D!canTransition, D!VALID_TRANSITIONS, D!NewStatus,
         D!Target, D!Settled, Unsettled

LEMMA FrozenExactly ==
    ASSUME OneAtATime, HandlerInv, LifeInv, NEW d \in Disputes, NEW s \in Splits
    PROVE  frozen[s] <=> dispute[d].split = s /\ dispute[d].status \in Unsettled
  BY DEF OneAtATime, LifeInv

\* A row is saved whose split is frozen exactly if it is unsettled.
LEMMA SavedKeepsLife ==
    ASSUME OneAtATime, HandlerInv, NEW h \in Handlers, NEW d \in Disputes, NEW row \in D!Row,
           NEW k, row.split \in Splits, row.status # "none", D!Save(d, row),
           \A s \in Splits : frozen'[s] <=> row.split = s /\ row.status \in Unsettled,
           performed'[d] = row.trail, handler' = [handler EXCEPT ![h] = k],
           k.op \notin D!Operations,
           k.op = "onchain" =>
              /\ k.id = d /\ k.copy.status \in {"open", "resolved"} /\ k.copy.status = row.status
              /\ k.copy.split = row.split
              /\ k.copy.trail = row.trail + (IF row.status = "open" THEN 1 ELSE 0)
    PROVE  LifeInv'
<1>1. dispute'[d] = row /\ handler'[h] = k
  BY DEF HandlerInv, D!DisputeRowsOK, D!Save
<1>2. \A e \in Disputes : e = d
  BY DEF OneAtATime
<1>3. \A g \in Handlers : g = h
  BY DEF OneAtATime
<1>4. \A e \in Disputes :
         /\ dispute'[e].status = "none" => dispute'[e].split = None
         /\ dispute'[e].status \in Unsettled => frozen'[dispute'[e].split]
         /\ dispute'[e].trail = performed'[e]
  BY <1>1, <1>2
<1>5. \A s \in Splits : frozen'[s] =>
         \E e \in Disputes : dispute'[e].split = s /\ dispute'[e].status \in Unsettled
  BY <1>1
<1>6. handler'[h].op = "onchain" => SentOn(h)'
  BY <1>1 DEF SentOn
<1> QED
  BY <1>1, <1>3, <1>4, <1>5, <1>6 DEF LifeInv, Unsettled, D!Statuses, D!Settled, D!Operations

\* No row changes, and a handler loads one or nothing.
LEMMA HeldKeepsLife ==
    ASSUME OneAtATime, HandlerInv, LifeInv, NEW h \in Handlers, NEW k,
           handler' = [handler EXCEPT ![h] = k], UNCHANGED <<dispute, frozen, performed>>,
           k.op # "onchain",
           k.op \in D!Operations => k.copy = dispute[k.id] /\ D!Allows(k.op, k.copy.status)
    PROVE  LifeInv'
<1>1. handler'[h] = k /\ \A g \in Handlers : g = h
  BY DEF HandlerInv, D!DisputeRowsOK, OneAtATime
<1> QED
  BY <1>1 DEF LifeInv, Unsettled, D!Statuses, D!Settled, D!Operations, D!Allows, D!canTransition,
              D!VALID_TRANSITIONS, D!Target

\* What a save makes of the freeze and the status.
LEMMA ActionKeepsLife ==
    ASSUME OneAtATime, PaymentTypeOK, HandlerInv, LifeInv, NEW h \in Handlers, D!SaveAction(h)
    PROVE  /\ LifeInv'
           /\ \A d \in Disputes : D!canTransition(dispute[d].status, dispute'[d].status)
<1> DEFINE op == handler[h].op
           d == handler[h].id
           c == handler[h].copy
           row == D!Updated(op, c)
           k == IF op = "resolve" THEN [handler[h] EXCEPT !.op = "onchain", !.copy = row] ELSE D!Idle
<1>1. op \in D!Operations /\ op \notin {"idle", "file", "onchain"}
  BY DEF D!SaveAction, D!Operations
<1>2. /\ d \in Disputes /\ c \in D!Row /\ c.split \in Splits /\ c.status # "none"
      /\ c.split = handler[h].split
      /\ handler[h] \in [op : D!Operations \cup {"idle", "file", "onchain"}, id : Disputes \cup {None},
                         split : Splits \cup {None}, copy : D!Row]
  BY <1>1 DEF HandlerInv, D!DisputeRowsOK
<1>3. c = dispute[d] /\ D!Allows(op, c.status)
  BY <1>1 DEF LifeInv
<1>4. c.status \in D!Statuses /\ c.trail \in Nat
  BY <1>2 DEF D!Row
<1>5. /\ row \in D!Row /\ row.split = c.split /\ row.status = D!NewStatus(op, c.status)
      /\ row.trail = c.trail + D!Entries(op, c.status)
  BY <1>1, <1>2, UpdatedRow
<1>6. /\ D!canTransition(c.status, row.status) /\ row.status \in D!Statuses
      /\ op \in {"resolve", "reject"} => row.status \notin Unsettled
      /\ op \notin {"resolve", "reject"} => row.status \in Unsettled
      /\ op \notin {"resolve", "reject", "appeal"} => c.status \in Unsettled
      /\ op = "resolve" => row.status = "resolved"
  BY <1>1, <1>3, <1>4, <1>5, OperationEffect
<1>7. /\ D!Save(d, row) /\ handler' = [handler EXCEPT ![h] = k]
      /\ frozen' = [frozen EXCEPT ![row.split] = D!FreezeAfter(op, @)]
      /\ performed' = [performed EXCEPT ![d] = @ + D!Entries(op, c.status)]
  BY DEF D!SaveAction
<1>8. \A s \in Splits : frozen[s] <=> c.split = s /\ c.status \in Unsettled
  BY <1>2, <1>3, FrozenExactly
<1>9. frozen \in [Splits -> BOOLEAN] /\ performed[d] = c.trail /\ performed \in [Disputes -> Nat]
      /\ dispute \in [Disputes -> D!Row]
  BY <1>2, <1>3 DEF PaymentTypeOK, LifeInv, HandlerInv, D!DisputeRowsOK
<1>10. /\ k.op \notin D!Operations
       /\ k.op = "onchain" => k.id = d /\ k.copy = row /\ op = "resolve"
  <2> HIDE DEF row, d
  <2>1. CASE op = "resolve"
    BY <1>2, <2>1 DEF D!Operations, d
  <2>2. CASE op # "resolve"
    BY <2>2 DEF D!Idle, D!Operations
  <2> QED
    BY <2>1, <2>2
<1>11. ASSUME NEW s \in Splits PROVE frozen'[s] <=> row.split = s /\ row.status \in Unsettled
  <2> HIDE DEF row, c, op
  <2>1. frozen'[s] = IF s = c.split THEN D!FreezeAfter(op, frozen[s]) ELSE frozen[s]
    BY <1>2, <1>5, <1>7, <1>9
  <2>2. CASE s # c.split
    BY <1>5, <1>8, <2>1, <2>2
  <2>3. CASE s = c.split /\ op \in {"resolve", "reject", "appeal"}
    BY <1>5, <1>6, <2>1, <2>3 DEF D!FreezeAfter
  <2>4. CASE s = c.split /\ op \notin {"resolve", "reject", "appeal"}
    BY <1>5, <1>6, <1>8, <2>1, <2>4 DEF D!FreezeAfter
  <2> QED
    BY <2>2, <2>3, <2>4
<1>12. dispute' = [dispute EXCEPT ![d] = row]
  BY <1>7 DEF D!Save
<1> HIDE DEF op, d, c, row, k
<1>13. performed'[d] = row.trail /\ row.status # "none"
  BY <1>2, <1>5, <1>6, <1>7, <1>9 DEF D!Statuses
<1>14. k.op = "onchain" =>
          /\ k.id = d /\ k.copy.status \in {"open", "resolved"} /\ k.copy.status = row.status
          /\ k.copy.split = row.split
          /\ k.copy.trail = row.trail + (IF row.status = "open" THEN 1 ELSE 0)
  BY <1>5, <1>6, <1>10 DEF D!Row
<1>15. LifeInv'
  BY <1>2, <1>5, <1>7, <1>10, <1>11, <1>13, <1>14, SavedKeepsLife
<1>16. \A e \in Disputes : D!canTransition(dispute[e].status, dispute'[e].status)
  BY <1>2, <1>3, <1>6, <1>9, <1>12 DEF OneAtATime
<1> QED
  BY <1>15, <1>16

LEMMA LifeStep ==
    ASSUME OneAtATime
    PROVE  PaymentTypeOK /\ HandlerInv /\ LifeInv /\ [DisputedNext]_disputedVars
             => /\ LifeInv'
                /\ \A d \in Disputes : dispute[d].status # "none" =>
                     D!canTransition(dispute[d].status, dispute'[d].status)
<1> SUFFICES ASSUME PaymentTypeOK, HandlerInv, LifeInv, [DisputedNext]_disputedVars
             PROVE  /\ LifeInv'
                    /\ \A d \in Disputes : dispute[d].status # "none" =>
                         D!canTransition(dispute[d].status, dispute'[d].status)
  OBVIOUS
<1> DEFINE Follows == \A d \in Disputes : dispute[d].status # "none" =>
                         D!canTransition(dispute[d].status, dispute'[d].status)
<1>1. dispute' = dispute => Follows
  BY DEF D!canTransition
<1>2. ASSUME UNCHANGED <<moreVars, frozen>> PROVE LifeInv'
  BY <1>2 DEF moreVars, LifeInv, SentOn
<1>3. ASSUME NEW h \in Handlers, NEW s \in Splits, D!FindActiveDispute(h, s)
      PROVE  LifeInv' /\ Follows
  <2> DEFINE k == [D!Idle EXCEPT !.op = "file", !.split = s]
  <2>1. /\ handler' = [handler EXCEPT ![h] = k] /\ UNCHANGED <<dispute, frozen, performed>>
        /\ k.op = "file"
    BY <1>3 DEF D!FindActiveDispute, D!Idle
  <2> HIDE DEF k
  <2>2. k.op # "onchain" /\ k.op \notin D!Operations
    BY <2>1 DEF D!Operations
  <2> QED
    BY <1>1, <2>1, <2>2, HeldKeepsLife
<1>4. ASSUME NEW h \in Handlers, NEW d \in Disputes, D!fileDispute(h, d)
      PROVE  LifeInv' /\ Follows
  <2> DEFINE s == handler[h].split
             row == [status |-> "open", split |-> s, splitFrozen |-> TRUE, trail |-> 1]
             c == [row EXCEPT !.trail = @ + 1]
             k == [op |-> "onchain", id |-> d, split |-> s, copy |-> c]
  <2>1. s \in Splits /\ dispute[d].status = "none"
    BY <1>4 DEF HandlerInv, D!fileDispute
  <2>2. row \in D!Row /\ row.split = s /\ row.status = "open" /\ row.trail = 1
    BY <2>1 DEF D!Row, D!Statuses
  <2>3. c.split = s /\ c.status = "open" /\ c.trail = 2
    BY <2>2
  <2>4. /\ handler' = [handler EXCEPT ![h] = k] /\ performed' = [performed EXCEPT ![d] = 1]
        /\ D!Save(d, row) /\ frozen' = [frozen EXCEPT ![s] = TRUE]
    BY <1>4 DEF D!fileDispute, D!FilingFreezes
  <2> HIDE DEF row, s, c
  <2>5. k.op = "onchain" /\ k.id = d /\ k.copy = c
    OBVIOUS
  <2> HIDE DEF k
  <2>6. \A x \in Splits : ~frozen[x]
    BY <2>1, FrozenExactly DEF Unsettled, D!Statuses
  <2>7. \A x \in Splits : frozen'[x] <=> row.split = x /\ row.status \in Unsettled
    BY <2>1, <2>2, <2>4, <2>6 DEF Unsettled, D!Statuses, D!Settled, PaymentTypeOK
  <2>8. performed'[d] = row.trail /\ k.op \notin D!Operations
    BY <2>2, <2>4, <2>5 DEF HandlerInv, D!DisputeRowsOK, D!Operations
  <2>9. LifeInv'
    <3>1. row.split \in Splits /\ row.status # "none"
      BY <2>1, <2>2
    <3>2. k.op = "onchain" =>
             /\ k.id = d /\ k.copy.status \in {"open", "resolved"} /\ k.copy.status = row.status
             /\ k.copy.split = row.split
             /\ k.copy.trail = row.trail + (IF row.status = "open" THEN 1 ELSE 0)
      BY <2>2, <2>3, <2>5
    <3> QED
      BY <2>2, <2>4, <2>7, <2>8, <3>1, <3>2, SavedKeepsLife
  <2>10. Follows
    BY <2>1 DEF OneAtATime
  <2> QED
    BY <2>9, <2>10
<1>5. ASSUME NEW h \in Handlers, NEW d \in Disputes, NEW op \in D!Operations, D!Load(h, op, d)
      PROVE  LifeInv' /\ Follows
  <2> DEFINE k == [op |-> op, id |-> d, split |-> dispute[d].split, copy |-> dispute[d]]
  <2>1. /\ handler' = [handler EXCEPT ![h] = k] /\ UNCHANGED <<dispute, frozen, performed>>
        /\ D!Allows(op, dispute[d].status)
    BY <1>5 DEF D!Load
  <2>2. /\ k.op # "onchain"
        /\ k.op \in D!Operations => k.copy = dispute[k.id] /\ D!Allows(k.op, k.copy.status)
    BY <2>1 DEF D!Operations
  <2> HIDE DEF k
  <2> QED
    BY <1>1, <2>1, <2>2, HeldKeepsLife
<1>6. ASSUME NEW h \in Handlers, D!SaveAction(h) PROVE LifeInv' /\ Follows
  BY <1>6, ActionKeepsLife
<1>7. ASSUME NEW h \in Handlers, D!SaveTransactionHash(h) PROVE LifeInv' /\ Follows
  <2> DEFINE d == handler[h].id
             c == handler[h].copy
  <2>1. /\ d \in Disputes /\ c \in D!Row /\ c.split \in Splits /\ c.status # "none"
        /\ c.split = handler[h].split
    BY <1>7 DEF HandlerInv, D!SaveTransactionHash, D!DisputeRowsOK
  <2>2. /\ c.status = dispute[d].status /\ c.split = dispute[d].split
        /\ c.trail = dispute[d].trail + (IF c.status = "open" THEN 1 ELSE 0)
    BY <1>7 DEF LifeInv, SentOn, D!SaveTransactionHash
  <2>3. /\ handler' = [handler EXCEPT ![h] = D!Idle] /\ D!Save(d, c) /\ frozen' = frozen
        /\ performed' = IF c.status = "open" THEN [performed EXCEPT ![d] = @ + 1] ELSE performed
    BY <1>7 DEF D!SaveTransactionHash
  <2>4. D!Idle.op = "idle"
    BY DEF D!Idle
  <2>5. dispute[d].trail = performed[d] /\ performed \in [Disputes -> Nat]
        /\ dispute \in [Disputes -> D!Row]
    BY <2>1 DEF LifeInv, HandlerInv, D!DisputeRowsOK
  <2> HIDE DEF d, c
  <2>6. \A s \in Splits : frozen'[s] <=> c.split = s /\ c.status \in Unsettled
    BY <2>1, <2>2, <2>3, FrozenExactly
  <2>7. performed'[d] = c.trail
    BY <2>1, <2>2, <2>3, <2>5
  <2>8. LifeInv'
    BY <2>1, <2>3, <2>4, <2>6, <2>7, SavedKeepsLife DEF D!Operations
  <2>9. Follows
    BY <2>1, <2>2, <2>3, <2>5 DEF OneAtATime, D!Save, D!canTransition
  <2> QED
    BY <2>8, <2>9
<1>8. ASSUME NEW h \in Handlers, D!Abandon(h) PROVE LifeInv' /\ Follows
  <2>1. /\ handler' = [handler EXCEPT ![h] = D!Idle] /\ UNCHANGED <<dispute, frozen, performed>>
        /\ D!Idle.op = "idle"
    BY <1>8 DEF D!Abandon, D!Idle
  <2>2. D!Idle.op # "onchain" /\ D!Idle.op \notin D!Operations
    BY <2>1 DEF D!Operations
  <2> QED
    BY <1>1, <2>1, <2>2, HeldKeepsLife
<1>9. ASSUME NEW r \in Requests, HandlePayment(r) PROVE UNCHANGED <<moreVars, frozen>>
  BY <1>9 DEF HandlePayment, submitPayment, Crash, Proceed, FindByKey, FindByTxHash, Verify,
              LockParticipant, LockSplit, Convert, RollBack, Store, Commit, Notify
<1>10. UNCHANGED disputedVars => UNCHANGED <<moreVars, frozen>>
  BY DEF disputedVars, paymentVars
<1>11. UNCHANGED <<moreVars, frozen>> => Follows
  BY <1>1 DEF moreVars
<1> QED
  BY <1>2, <1>3, <1>4, <1>5, <1>6, <1>7, <1>8, <1>9, <1>10, <1>11 DEF DisputedNext, HandleDispute

LEMMA LifeInit == DisputedInit => LifeInv
<1> SUFFICES ASSUME DisputedInit PROVE LifeInv
  OBVIOUS
<1>1. D!NoRow.status = "none" /\ D!NoRow.split = None /\ D!NoRow.trail = 0 /\ D!Idle.op = "idle"
  BY DEF D!NoRow, D!Idle
<1> QED
  BY <1>1 DEF DisputedInit, D!DisputesInit, Init, LifeInv, Unsettled, D!Statuses, D!Operations

\* A payment that commits found its split unfrozen and has held its row since, so no
\* dispute about the split is unsettled.
LEMMA CommitUndisputed ==
    ASSUME PaymentInv, HandlerInv, LifeInv, [DisputedNext]_disputedVars, NEW r \in Requests,
           NEW d \in Disputes, r \in credited' \ credited, dispute'[d].split = Target(r)
    PROVE  dispute[d].status \in D!Settled /\ dispute'[d].status \in D!Settled
<1>1. ~ \E h \in Handlers : HandleDispute(h)
  BY DEF HandleDispute, books
<1>2. ~ UNCHANGED disputedVars
  BY DEF disputedVars, paymentVars, books
<1>3. PICK q \in Requests : HandlePayment(q)
  BY <1>1, <1>2 DEF DisputedNext
<1>4. Commit(q) /\ q = r
  BY <1>3 DEF HandlePayment, submitPayment, Crash, Proceed, FindByKey, FindByTxHash, Verify,
              LockParticipant, LockSplit, Convert, RollBack, Store, Commit, Notify, books
<1>5. ~frozen[Target(r)] /\ Target(r) \in Splits /\ Target(r) # None
  BY <1>4, RequestTypes, DisputedConstants DEF Commit, PaymentInv, SplitsHeld, Paying,
                                               D!DisputeConstants
<1>6. dispute' = dispute
  BY <1>3 DEF HandlePayment, moreVars
<1>7. dispute[d].status \in D!Statuses \cup {"none"}
  BY DEF HandlerInv, D!DisputeRowsOK, D!Row
<1> QED
  BY <1>5, <1>6, <1>7 DEF LifeInv, Unsettled

\* With one dispute, and one handler at work on it: the split is frozen exactly while the
\* dispute is unsettled, every action has its entry, the status follows the machine.
THEOREM OneDisputeFollowsLifeCycle ==
    ASSUME OneAtATime PROVE DisputedSpec => DisputeLifeCycle
<1> DEFINE Inv == PaymentInv /\ HandlerInv
           Good == D!FrozenWhileDisputed /\ D!FrozenOnlyWhileDisputed /\ D!AuditTrailComplete
           Follows == \A d \in Disputes : dispute[d].status # "none" =>
                         D!canTransition(dispute[d].status, dispute'[d].status)
<1>1. DisputedSpec => []Inv
  BY DisputedInvariant
<1>2. Inv /\ LifeInv /\ [DisputedNext]_disputedVars => LifeInv' /\ Follows
  BY LifeStep DEF PaymentInv
<1>3. Inv => D!DisputeRowsOK
  BY DEF HandlerInv
<1>4. LifeInv => Good
  BY DEF LifeInv, D!FrozenWhileDisputed, D!FrozenOnlyWhileDisputed, D!AuditTrailComplete,
         Unsettled, D!Statuses, D!Settled, D!ActiveStatuses
<1> HIDE DEF Inv, Good, Follows
<1>5. DisputedSpec => []D!DisputeRowsOK /\ []Good /\ [][Follows]_(D!disputeVars)
  BY <1>1, <1>2, <1>3, <1>4, LifeInit, PTL DEF DisputedSpec
<1> QED
  BY <1>5 DEF DisputeLifeCycle, D!StatusFollowsMachine, Good, Follows

\* Then no payment is committed about which the dispute is unsettled.
THEOREM NoCreditUnderOneDispute ==
    ASSUME OneAtATime PROVE DisputedSpec => NoCreditWhileDisputed
<1> DEFINE Inv == PaymentInv /\ HandlerInv
           Clean == \A r \in Requests, d \in Disputes :
                      r \in credited' \ credited /\ dispute'[d].split = Target(r) =>
                        dispute[d].status \in D!Settled /\ dispute'[d].status \in D!Settled
<1>1. DisputedSpec => []Inv
  BY DisputedInvariant
<1>2. Inv /\ LifeInv /\ [DisputedNext]_disputedVars => LifeInv' /\ Clean
  BY LifeStep, CommitUndisputed DEF PaymentInv
<1> HIDE DEF Inv, Clean
<1>3. DisputedSpec => [][Clean]_disputedVars
  BY <1>1, <1>2, LifeInit, PTL DEF DisputedSpec
<1> QED
  BY <1>3 DEF NoCreditWhileDisputed, Clean
=============================================================================
