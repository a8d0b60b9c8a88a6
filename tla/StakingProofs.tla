---------------------------- MODULE StakingProofs ----------------------------
(***************************************************************************)
(* Staking for every number of accounts, scaling factor and cooldown: the  *)
(* books agree, the contract can always pay everyone at once, only a       *)
(* deposit creates rewards, and the cooldown protects what was unstaked.   *)
(***************************************************************************)
EXTENDS Staking, SumsProofs

-----------------------------------------------------------------------------
(* The inductive invariant *)

\* What a record is worth, times SCALE.  Unlike the claim itself it is not
\* rounded, so that settling a staker leaves it as it is.
Scaled(info) ==
    SCALE * (info.amount + info.pending_withdrawal + info.accumulated_rewards)
      + info.amount * (index - info.last_reward_index)

ScaledClaims == [a \in Address |-> Scaled(stakers[a])]

\* The part of a record that counts for delegatee d.
ShareFor(info, d) == IF info.delegated_to = d THEN info.amount ELSE 0

StakerOK(info) ==
    /\ info.last_reward_index <= index
    /\ info.unlock_time <= now + Cooldown
    /\ ~info.known => info = NoStaker

StakingInv ==
    /\ TypeOK
    /\ TotalIsSumOfStakes
    /\ \A d \in Address : delegated[d] = SumTo(AmountsFor(d), NumAddresses)
    /\ \A a \in Address : StakerOK(stakers[a])
    /\ admin = None => index = 0 /\ totalStaked = 0
    /\ SumTo(ScaledClaims, NumAddresses) <= SCALE * pot

-----------------------------------------------------------------------------
(* Arithmetic *)

\* Multiplication distributes over what the records change.
LEMMA ScaleSum ==
    ASSUME NEW s \in Int, NEW x \in Int, NEW y \in Int
    PROVE  s * (x + y) = s * x + s * y /\ s * (x - y) = s * x - s * y
OBVIOUS

LEMMA ProductInt == \A x, y \in Int : x * y \in Int
OBVIOUS

LEMMA FloorBounds ==
    ASSUME NEW n \in Nat, NEW d \in Nat \ {0}
    PROVE  n \div d \in Nat /\ d * (n \div d) <= n
OBVIOUS

LEMMA FloorMonotone ==
    ASSUME NEW m \in Nat, NEW n \in Nat, NEW d \in Nat \ {0}, m <= n
    PROVE  m \div d <= n \div d
OBVIOUS

LEMMA ProductMonotone ==
    ASSUME NEW x \in Nat, NEW y \in Nat, NEW z \in Nat, x <= y
    PROVE  x * z <= y * z /\ x * z \in Nat /\ y * z \in Nat
OBVIOUS

LEMMA CancelScale ==
    ASSUME NEW d \in Nat \ {0}, NEW x \in Int, NEW y \in Int, d * x <= d * y
    PROVE  x <= y
OBVIOUS

-----------------------------------------------------------------------------
(* One staker changes *)

LEMMA ScaledInt ==
    ASSUME NEW info \in StakerInfo, index \in Nat
    PROVE  Scaled(info) \in Int
<1> DEFINE x == info.amount + info.pending_withdrawal + info.accumulated_rewards
           y == index - info.last_reward_index
<1>1. x \in Int /\ y \in Int /\ info.amount \in Int /\ SCALE \in Int
  BY StakingConstants DEF StakerInfo
<1>2. SCALE * x \in Int /\ info.amount * y \in Int
  <2> HIDE DEF x, y
  <2> QED
    BY <1>1, ProductInt
<1> QED
  BY <1>2 DEF Scaled

\* The types of what the sums range over.
LEMMA StakingTypes ==
    ASSUME TypeOK
    PROVE  /\ NumAddresses \in Nat /\ Address = 1..NumAddresses
           /\ SCALE \in Nat \ {0} /\ Cooldown \in Nat
           /\ Amounts \in [1..NumAddresses -> Int]
           /\ Amounts \in [1..NumAddresses -> Nat]
           /\ \A d \in Address : /\ AmountsFor(d) \in [1..NumAddresses -> Int]
                                 /\ AmountsFor(d) \in [1..NumAddresses -> Nat]
           /\ ScaledClaims \in [1..NumAddresses -> Int]
           /\ SCALE * pot \in Int
           /\ \A a \in Address : stakers[a] \in StakerInfo
<1>1. NumAddresses \in Nat /\ Address = 1..NumAddresses /\ SCALE \in Nat \ {0} /\ Cooldown \in Nat
  BY StakingConstants DEF Address
<1>2. \A a \in Address : stakers[a] \in StakerInfo
  BY DEF TypeOK
<1>3. Amounts \in [1..NumAddresses -> Nat] /\ Amounts \in [1..NumAddresses -> Int]
  BY <1>1, <1>2 DEF Amounts, StakerInfo
<1>4. ASSUME NEW d \in Address
      PROVE  AmountsFor(d) \in [1..NumAddresses -> Nat] /\ AmountsFor(d) \in [1..NumAddresses -> Int]
  BY <1>1, <1>2 DEF AmountsFor, StakerInfo
<1>5. ScaledClaims \in [1..NumAddresses -> Int]
  <2>1. ASSUME NEW a \in Address PROVE Scaled(stakers[a]) \in Int
    <3>1. index \in Nat
      BY DEF TypeOK
    <3> QED
      BY <1>2, <3>1, ScaledInt
  <2> QED
    BY <1>1, <2>1 DEF ScaledClaims
<1>6. SCALE * pot \in Int
  <2>1. SCALE \in Int /\ pot \in Int
    BY <1>1 DEF TypeOK
  <2> QED
    BY <2>1, ProductInt
<1> QED
  BY <1>1, <1>2, <1>3, <1>4, <1>5, <1>6

\* A call that replaces one staker's record keeps the books when it moves the
\* total, the delegatees' totals and the contract's balance by what the record
\* changed by.
LEMMA OneStaker ==
    ASSUME StakingInv,
           NEW a \in Address, NEW u \in StakerInfo,
           stakers' = [stakers EXCEPT ![a] = u],
           admin' = admin, index' = index, now' = now,
           admin = None => u.amount = stakers[a].amount,
           totalStaked' = totalStaked + u.amount - stakers[a].amount,
           delegated' \in [Address -> Int],
           \A d \in Address :
               delegated'[d] = delegated[d] + ShareFor(u, d) - ShareFor(stakers[a], d),
           wallet' \in [Address -> Nat], pot' \in Nat,
           Scaled(u) - Scaled(stakers[a]) <= SCALE * pot' - SCALE * pot,
           StakerOK(u)
    PROVE  StakingInv'
<1> DEFINE N == NumAddresses
<1>t. TypeOK
  BY DEF StakingInv
<1>0. /\ N \in Nat /\ Address = 1..N /\ a \in 1..N /\ N \in 0..N /\ 0 \in 0..N
      /\ stakers \in [Address -> StakerInfo] /\ stakers' \in [Address -> StakerInfo]
      /\ stakers'[a] = u /\ \A b \in Address : b # a => stakers'[b] = stakers[b]
      /\ totalStaked \in Nat /\ SCALE \in Nat \ {0} /\ index \in Nat /\ pot \in Nat
  BY <1>t, StakingConstants DEF TypeOK, Address
<1>n. N \in Nat /\ a \in 1..N
  BY <1>0
<1>1. /\ Amounts' \in [1..N -> Int] /\ Amounts' \in [1..N -> Nat]
      /\ \A k \in 1..N : k # a => Amounts[k] = Amounts'[k]
      /\ Amounts'[a] = u.amount /\ Amounts[a] = stakers[a].amount
  <2>1. Amounts' = [b \in 1..N |-> stakers'[b].amount] /\ Amounts = [b \in 1..N |-> stakers[b].amount]
    BY <1>0 DEF Amounts
  <2>2. \A b \in 1..N : stakers'[b].amount \in Nat
    BY <1>0 DEF StakerInfo
  <2>3. Amounts' \in [1..N -> Int] /\ Amounts' \in [1..N -> Nat]
    BY <2>1, <2>2
  <2>4. \A k \in 1..N : k # a => Amounts[k] = Amounts'[k]
    BY <1>0, <2>1
  <2>5. Amounts'[a] = u.amount /\ Amounts[a] = stakers[a].amount
    BY <1>0, <2>1
  <2> QED
    BY <2>3, <2>4, <2>5
<1>2. totalStaked' = SumTo(Amounts', N) /\ totalStaked' \in Nat
  <2>1. Amounts \in [1..N -> Int]
    BY <1>t, StakingTypes
  <2>2. SumTo(Amounts', N) = SumTo(Amounts, N) + Amounts'[a] - Amounts[a]
    BY <1>n, <1>1, <2>1, SumUpdate
  <2>3. SumTo(Amounts', N) \in Nat
    BY <1>0, <1>1, SumNonNegative
  <2> QED
    BY <1>0, <1>1, <2>2, <2>3 DEF StakingInv, TotalIsSumOfStakes
<1>3. ASSUME NEW d \in Address
      PROVE  delegated'[d] = SumTo(AmountsFor(d)', N) /\ delegated'[d] \in Nat
  <2>1. /\ AmountsFor(d)' \in [1..N -> Int] /\ AmountsFor(d)' \in [1..N -> Nat]
        /\ \A k \in 1..N : k # a => AmountsFor(d)[k] = AmountsFor(d)'[k]
        /\ AmountsFor(d)'[a] = ShareFor(u, d) /\ AmountsFor(d)[a] = ShareFor(stakers[a], d)
    <3>1. /\ AmountsFor(d)' = [b \in 1..N |-> ShareFor(stakers'[b], d)]
          /\ AmountsFor(d) = [b \in 1..N |-> ShareFor(stakers[b], d)]
      BY <1>0 DEF AmountsFor, ShareFor
    <3>2. \A b \in 1..N : ShareFor(stakers'[b], d) \in Nat
      BY <1>0 DEF ShareFor, StakerInfo
    <3>3. AmountsFor(d)' \in [1..N -> Int] /\ AmountsFor(d)' \in [1..N -> Nat]
      BY <3>1, <3>2
    <3>4. \A k \in 1..N : k # a => AmountsFor(d)[k] = AmountsFor(d)'[k]
      BY <1>0, <3>1
    <3>5. AmountsFor(d)'[a] = ShareFor(u, d) /\ AmountsFor(d)[a] = ShareFor(stakers[a], d)
      BY <1>0, <3>1
    <3> QED
      BY <3>3, <3>4, <3>5
  <2>2. AmountsFor(d) \in [1..N -> Int]
    BY <1>t, StakingTypes
  <2>3. SumTo(AmountsFor(d)', N) = SumTo(AmountsFor(d), N) + AmountsFor(d)'[a] - AmountsFor(d)[a]
    BY <1>n, <2>1, <2>2, SumUpdate
  <2>4. SumTo(AmountsFor(d)', N) \in Nat
    BY <1>0, <2>1, SumNonNegative
  <2> QED
    BY <2>1, <2>3, <2>4 DEF StakingInv
<1>4. SumTo(ScaledClaims', N) <= SCALE * pot'
  <2>1. /\ ScaledClaims' \in [1..N -> Int]
        /\ \A k \in 1..N : k # a => ScaledClaims[k] = ScaledClaims'[k]
        /\ ScaledClaims'[a] = Scaled(u) /\ ScaledClaims[a] = Scaled(stakers[a])
    <3>1. \A b \in 1..N : Scaled(stakers'[b]) \in Int
      BY <1>0, ScaledInt
    <3>2. /\ ScaledClaims' = [b \in 1..N |-> Scaled(stakers'[b])]
          /\ ScaledClaims = [b \in 1..N |-> Scaled(stakers[b])]
      BY <1>0 DEF ScaledClaims, Scaled
    <3> QED
      BY <1>0, <3>1, <3>2
  <2>2. ScaledClaims \in [1..N -> Int] /\ SCALE * pot \in Int
    BY <1>t, StakingTypes
  <2>3. SumTo(ScaledClaims', N) = SumTo(ScaledClaims, N) + ScaledClaims'[a] - ScaledClaims[a]
    BY <1>n, <2>1, <2>2, SumUpdate
  <2>4. SumTo(ScaledClaims, N) \in Int /\ SumTo(ScaledClaims', N) \in Int
    BY <1>0, <2>1, <2>2, SumSteps
  <2>5. SumTo(ScaledClaims, N) <= SCALE * pot
    BY DEF StakingInv
  <2>6. SCALE * pot' \in Int /\ ScaledClaims'[a] \in Int /\ ScaledClaims[a] \in Int
    BY <1>0, <2>1, <2>2
  <2> DEFINE p == SCALE * pot
             q == SCALE * pot'
             x == ScaledClaims'[a]
             y == ScaledClaims[a]
             t == SumTo(ScaledClaims, N)
             tt == SumTo(ScaledClaims', N)
  <2>7. p \in Int /\ q \in Int /\ x \in Int /\ y \in Int /\ t \in Int /\ tt \in Int
        /\ tt = t + x - y /\ t <= p /\ x - y <= q - p
    BY <2>1, <2>2, <2>3, <2>4, <2>5, <2>6
  <2>8. tt <= q
    <3> HIDE DEF p, q, x, y, t, tt
    <3> QED
      BY <2>7
  <2> QED
    BY <2>8
<1>5. TypeOK'
  <2>1. delegated' \in [Address -> Nat]
    BY <1>3
  <2> QED
    BY <1>0, <1>2, <2>1 DEF StakingInv, TypeOK
<1>6. \A b \in Address : StakerOK(stakers[b])'
  BY <1>0 DEF StakingInv, StakerOK
<1>7. (admin = None => index = 0 /\ totalStaked = 0)'
  <2> SUFFICES ASSUME admin' = None PROVE index' = 0 /\ totalStaked' = 0
    OBVIOUS
  <2>1. index = 0 /\ totalStaked = 0 /\ u.amount = stakers[a].amount
    BY DEF StakingInv
  <2>2. stakers[a].amount \in Nat
    BY <1>0 DEF StakerInfo
  <2>3. totalStaked' = totalStaked + u.amount - stakers[a].amount /\ index' = index
    OBVIOUS
  <2> QED
    BY <2>1, <2>2, <2>3
<1> QED
  BY <1>2, <1>3, <1>4, <1>5, <1>6, <1>7 DEF StakingInv, TotalIsSumOfStakes

-----------------------------------------------------------------------------
(* The helpers *)

\* DelegateDelta moves one delegatee's total.
LEMMA DeltaWorks ==
    ASSUME NEW del \in [Address -> Int], NEW c \in Address \cup {None}, NEW delta \in Int
    PROVE  /\ DelegateDelta(del, c, delta) \in [Address -> Int]
           /\ \A d \in Address : DelegateDelta(del, c, delta)[d]
                                   = del[d] + (IF d = c THEN delta ELSE 0)
<1>1. None \notin Address
  BY DEF None, Address
<1> QED
  BY <1>1 DEF DelegateDelta

\* A record settled up to the present index is worth what is in it.
LEMMA ScaledSettled ==
    ASSUME NEW info \in StakerInfo, index \in Nat, info.last_reward_index = index
    PROVE  Scaled(info) = SCALE * (info.amount + info.pending_withdrawal
                                     + info.accumulated_rewards)
<1>1. info.amount * (index - info.last_reward_index) = 0
  BY DEF StakerInfo
<1>2. SCALE * (info.amount + info.pending_withdrawal + info.accumulated_rewards) \in Int
  <2> DEFINE x == info.amount + info.pending_withdrawal + info.accumulated_rewards
  <2>1. x \in Int /\ SCALE \in Int
    BY StakingConstants DEF StakerInfo
  <2> HIDE DEF x
  <2>2. SCALE * x \in Int
    BY <2>1, ProductInt
  <2> QED
    BY <2>2 DEF x
<1> QED
  BY <1>1, <1>2 DEF Scaled

\* update_staker_rewards moves rewards from the index into the record, rounding
\* down, and touches nothing else of it.
LEMMA Settles ==
    ASSUME NEW info \in StakerInfo, index \in Nat, info.last_reward_index <= index,
           NEW v, v = update_staker_rewards(info)
    PROVE  /\ v \in StakerInfo
           /\ v.known = info.known /\ v.amount = info.amount
           /\ v.pending_withdrawal = info.pending_withdrawal
           /\ v.unlock_time = info.unlock_time /\ v.delegated_to = info.delegated_to
           /\ v.last_reward_index <= index
           /\ info.known => /\ v.last_reward_index = index
                            /\ v.accumulated_rewards = info.accumulated_rewards + Earned(info)
           /\ ~info.known => v = info
           /\ Scaled(v) <= Scaled(info)
<1> DEFINE e == Earned(info)
           x == info.amount + info.pending_withdrawal + info.accumulated_rewards
           n == info.amount * (index - info.last_reward_index)
<1>1. /\ SCALE \in Nat \ {0} /\ x \in Nat /\ info.last_reward_index \in Nat
      /\ info.amount \in Nat /\ info.accumulated_rewards \in Nat
  BY StakingConstants DEF StakerInfo
<1>2. n \in Nat
  <2>1. index - info.last_reward_index \in Nat
    BY <1>1
  <2> QED
    BY <1>1, <2>1
<1>3. e \in Nat /\ SCALE * e <= n
  <2>1. e = n \div SCALE
    BY DEF Earned
  <2> HIDE DEF e, n
  <2> QED
    BY <1>1, <1>2, <2>1, FloorBounds
<1>4. CASE info.known /\ info.last_reward_index < index
  <2>1. v = [info EXCEPT !.accumulated_rewards = @ + e, !.last_reward_index = index]
    BY <1>4 DEF update_staker_rewards
  <2>2. /\ v.known = info.known /\ v.amount = info.amount
        /\ v.pending_withdrawal = info.pending_withdrawal
        /\ v.unlock_time = info.unlock_time /\ v.delegated_to = info.delegated_to
        /\ v.last_reward_index = index
        /\ v.accumulated_rewards = info.accumulated_rewards + e
    BY <2>1 DEF StakerInfo
  <2>3. v \in StakerInfo
    <3>1. info.accumulated_rewards + e \in Nat
      BY <1>1, <1>3
    <3> DEFINE r == info.accumulated_rewards + e
    <3>2. v = [info EXCEPT !.accumulated_rewards = r, !.last_reward_index = index]
      BY <2>1
    <3> HIDE DEF r
    <3>3. r \in Nat
      BY <3>1 DEF r
    <3> QED
      BY <3>2, <3>3 DEF StakerInfo
  <2>4. Scaled(v) = SCALE * (x + e)
    <3>1. v.amount + v.pending_withdrawal + v.accumulated_rewards = x + e
      <4> HIDE DEF e
      <4> QED
        BY <1>3, <2>2 DEF StakerInfo
    <3> QED
      BY <2>2, <2>3, <3>1, ScaledSettled
  <2>5. Scaled(info) = SCALE * x + n
    BY DEF Scaled
  <2>6. SCALE * (x + e) <= SCALE * x + n
    <3> HIDE DEF x, e, n
    <3>1. SCALE * (x + e) = SCALE * x + SCALE * e
      BY <1>1, <1>3, ScaleSum
    <3>2. SCALE * x \in Int /\ SCALE * e \in Int
      BY <1>1, <1>3, ProductInt
    <3> QED
      BY <1>2, <1>3, <3>1, <3>2
  <2> QED
    BY <1>1, <1>4, <2>2, <2>3, <2>4, <2>5, <2>6
<1>5. CASE ~(info.known /\ info.last_reward_index < index)
  <2>1. v = info
    BY <1>5 DEF update_staker_rewards
  <2>2. info.known => info.last_reward_index = index /\ e = 0
    <3> SUFFICES ASSUME info.known PROVE info.last_reward_index = index /\ e = 0
      OBVIOUS
    <3>1. info.last_reward_index = index
      BY <1>1, <1>5
    <3>2. n = 0
      BY <1>1, <3>1
    <3>3. 0 \div SCALE = 0
      BY <1>1
    <3> QED
      BY <3>1, <3>2, <3>3 DEF Earned
  <2>3. Scaled(info) \in Int
    BY ScaledInt
  <2> QED
    BY <1>1, <2>1, <2>2, <2>3
<1> QED
  BY <1>4, <1>5

-----------------------------------------------------------------------------
(* Every call keeps the invariant *)

\* What every step may use of the state it starts in.
LEMMA StakingFacts ==
    ASSUME StakingInv, NEW a \in Address
    PROVE  /\ stakers[a] \in StakerInfo /\ StakerOK(stakers[a])
           /\ index \in Nat /\ pot \in Nat /\ now \in Nat /\ totalStaked \in Nat
           /\ delegated \in [Address -> Int] /\ wallet \in [Address -> Nat]
           /\ SCALE \in Nat \ {0} /\ Cooldown \in Nat
           /\ stakers[a].amount \in Nat /\ stakers[a].pending_withdrawal \in Nat
           /\ stakers[a].accumulated_rewards \in Nat /\ stakers[a].unlock_time \in Nat
           /\ stakers[a].last_reward_index \in Nat
           /\ stakers[a].delegated_to \in Address \cup {None}
           /\ Scaled(stakers[a]) \in Int
<1>1. stakers[a] \in StakerInfo /\ index \in Nat
  BY DEF StakingInv, TypeOK
<1>2. Scaled(stakers[a]) \in Int
  BY <1>1, ScaledInt
<1> QED
  BY <1>1, <1>2, StakingConstants DEF StakingInv, TypeOK, StakerInfo

LEMMA StakeStep ==
    ASSUME StakingInv, NEW a \in Address, NEW amount \in Nat \ {0}, stake(a, amount)
    PROVE  StakingInv'
<1> DEFINE old == stakers[a]
           v == update_staker_rewards(old)
           info == IF v.known THEN v ELSE FreshStaker
           u == [info EXCEPT !.amount = @ + amount]
<1>0. /\ old \in StakerInfo /\ StakerOK(old) /\ index \in Nat /\ pot \in Nat /\ now \in Nat
      /\ delegated \in [Address -> Int] /\ wallet \in [Address -> Nat]
      /\ SCALE \in Nat \ {0} /\ Cooldown \in Nat /\ old.amount \in Nat
  BY StakingFacts
<1>1. /\ v \in StakerInfo
      /\ v.known = old.known /\ v.amount = old.amount
      /\ v.pending_withdrawal = old.pending_withdrawal
      /\ v.unlock_time = old.unlock_time /\ v.delegated_to = old.delegated_to
      /\ old.known => v.last_reward_index = index
      /\ Scaled(v) <= Scaled(old)
  <2>1. old.last_reward_index <= index
    BY <1>0 DEF StakerOK
  <2> HIDE DEF old
  <2> QED
    BY <1>0, <2>1, Settles
<1>2. /\ info \in StakerInfo /\ info.known /\ info.last_reward_index = index
      /\ info.amount = old.amount /\ info.delegated_to = old.delegated_to
      /\ info.unlock_time <= now + Cooldown
      /\ Scaled(info) <= Scaled(old)
  <2>1. CASE old.known
    <3>1. info = v
      BY <1>1, <2>1
    <3> HIDE DEF v, info, old
    <3> QED
      BY <1>0, <1>1, <2>1, <3>1 DEF StakerOK
  <2>2. CASE ~old.known
    <3>1. info = FreshStaker /\ old = NoStaker
      BY <1>0, <1>1, <2>2 DEF StakerOK
    <3>2. /\ FreshStaker.known = TRUE /\ FreshStaker.amount = 0
          /\ FreshStaker.pending_withdrawal = 0 /\ FreshStaker.unlock_time = 0
          /\ FreshStaker.last_reward_index = index
          /\ FreshStaker.accumulated_rewards = 0 /\ FreshStaker.delegated_to = None
      BY DEF FreshStaker, NoStaker
    <3>3. FreshStaker \in StakerInfo
      BY <1>0 DEF StakerInfo, FreshStaker, NoStaker
    <3>4. Scaled(FreshStaker) = 0
      <4> HIDE DEF FreshStaker
      <4> QED
        BY <1>0, <3>2 DEF Scaled
    <3>5. Scaled(NoStaker) = 0
      BY <1>0 DEF Scaled, NoStaker
    <3>6. NoStaker.amount = 0 /\ NoStaker.delegated_to = None
      BY DEF NoStaker
    <3> HIDE DEF v, info, old
    <3> QED
      BY <1>0, <3>1, <3>2, <3>3, <3>4, <3>5, <3>6
  <2> QED
    BY <2>1, <2>2
<1> HIDE DEF info, v
<1>3. /\ u \in StakerInfo /\ u.amount = old.amount + amount /\ u.delegated_to = old.delegated_to
      /\ u.last_reward_index = index /\ u.known /\ u.unlock_time <= now + Cooldown
      /\ u.pending_withdrawal = info.pending_withdrawal
      /\ u.accumulated_rewards = info.accumulated_rewards
  BY <1>2 DEF StakerInfo
<1>4. Scaled(u) = Scaled(info) + SCALE * amount /\ Scaled(u) \in Int /\ Scaled(info) \in Int
  <2> DEFINE x == info.amount + info.pending_withdrawal + info.accumulated_rewards
  <2>1. x \in Nat /\ u.amount + u.pending_withdrawal + u.accumulated_rewards = x + amount
    BY <1>2, <1>3 DEF StakerInfo
  <2>2. Scaled(info) = SCALE * x
    BY <1>0, <1>2, ScaledSettled
  <2>3. Scaled(u) = SCALE * (x + amount)
    <3> HIDE DEF u, x
    <3> QED
      BY <1>0, <1>3, <2>1, ScaledSettled
  <2>4. Scaled(u) \in Int /\ Scaled(info) \in Int
    <3> HIDE DEF u
    <3> QED
      BY <1>0, <1>2, <1>3, ScaledInt
  <2> HIDE DEF x, u
  <2> QED
    BY <1>0, <2>1, <2>2, <2>3, <2>4, ScaleSum
<1>5. /\ stakers' = [stakers EXCEPT ![a] = u]
      /\ admin' = admin /\ index' = index /\ now' = now /\ admin # None
      /\ totalStaked' = totalStaked + amount
      /\ delegated' = DelegateDelta(delegated, info.delegated_to, amount)
      /\ wallet' = [wallet EXCEPT ![a] = @ - amount] /\ pot' = pot + amount
      /\ amount <= wallet[a]
  BY DEF stake, info, v
<1>6. /\ delegated' \in [Address -> Int]
      /\ \A d \in Address : delegated'[d] = delegated[d] + ShareFor(u, d) - ShareFor(old, d)
  <2>1. info.delegated_to \in Address \cup {None} /\ amount \in Int
    BY <1>2 DEF StakerInfo
  <2>2. /\ delegated' \in [Address -> Int]
        /\ \A d \in Address : delegated'[d] = delegated[d]
                                + (IF d = info.delegated_to THEN amount ELSE 0)
    <3>1. delegated \in [Address -> Int] /\ delegated' = DelegateDelta(delegated, info.delegated_to, amount)
      BY <1>0, <1>5
    <3> DEFINE moved == DelegateDelta(delegated, info.delegated_to, amount)
    <3>2. /\ moved \in [Address -> Int]
          /\ \A d \in Address : moved[d] = delegated[d]
                                   + (IF d = info.delegated_to THEN amount ELSE 0)
      BY <2>1, <3>1, DeltaWorks
    <3> QED
      BY <3>1, <3>2
  <2>3. \A d \in Address : ShareFor(u, d) - ShareFor(old, d)
                             = (IF d = info.delegated_to THEN amount ELSE 0)
                           /\ ShareFor(u, d) \in Int /\ ShareFor(old, d) \in Int
    BY <1>0, <1>2, <1>3 DEF ShareFor
  <2> HIDE DEF old, u
  <2> QED
    BY <1>0, <2>2, <2>3
<1>7. wallet' \in [Address -> Nat] /\ pot' \in Nat
  BY <1>0, <1>5
<1>8. Scaled(u) - Scaled(old) <= SCALE * pot' - SCALE * pot
  <2>1. SCALE * pot' = SCALE * pot + SCALE * amount
    BY <1>0, <1>5, ScaleSum
  <2>2. SCALE * pot \in Int /\ SCALE * amount \in Int
    BY <1>0, ProductInt
  <2>3. Scaled(old) \in Int
    BY StakingFacts
  <2> HIDE DEF old, u
  <2> QED
    BY <1>2, <1>4, <2>1, <2>2, <2>3
<1>9. StakerOK(u) /\ totalStaked' = totalStaked + u.amount - stakers[a].amount
  <2>1. totalStaked \in Nat
    BY DEF StakingInv, TypeOK
  <2> QED
    BY <1>0, <1>3, <1>5, <2>1 DEF StakerOK
<1> HIDE DEF u
<1> QED
  BY <1>3, <1>5, <1>6, <1>7, <1>8, <1>9, OneStaker

LEMMA UnstakeStep ==
    ASSUME StakingInv, NEW a \in Address, NEW amount \in Nat \ {0}, unstake(a, amount)
    PROVE  StakingInv'
<1> DEFINE old == stakers[a]
           u == [old EXCEPT !.amount = @ - amount, !.pending_withdrawal = @ + amount,
                            !.unlock_time = now + Cooldown]
           x == old.amount + old.pending_withdrawal + old.accumulated_rewards
           gap == index - old.last_reward_index
<1>0. /\ old \in StakerInfo /\ StakerOK(old) /\ index \in Nat /\ pot \in Nat /\ now \in Nat
      /\ delegated \in [Address -> Int] /\ wallet \in [Address -> Nat]
      /\ SCALE \in Nat \ {0} /\ Cooldown \in Nat /\ old.amount \in Nat
      /\ old.pending_withdrawal \in Nat /\ old.accumulated_rewards \in Nat
      /\ old.last_reward_index \in Nat /\ totalStaked \in Nat
      /\ old.delegated_to \in Address \cup {None}
  BY StakingFacts
<1>1. /\ stakers' = [stakers EXCEPT ![a] = u] /\ old.known /\ amount <= old.amount
      /\ admin' = admin /\ index' = index /\ now' = now
      /\ totalStaked' = totalStaked - amount
      /\ delegated' = DelegateDelta(delegated, old.delegated_to, -amount)
      /\ wallet' = wallet /\ pot' = pot
  BY DEF unstake, Undelegate
<1>2. /\ u \in StakerInfo /\ u.amount = old.amount - amount /\ u.known
      /\ u.delegated_to = old.delegated_to /\ u.last_reward_index = old.last_reward_index
      /\ u.unlock_time = now + Cooldown
      /\ u.pending_withdrawal = old.pending_withdrawal + amount
      /\ u.accumulated_rewards = old.accumulated_rewards
  <2> DEFINE left == old.amount - amount
             pending == old.pending_withdrawal + amount
             unlock == now + Cooldown
  <2>1. left \in Nat /\ pending \in Nat /\ unlock \in Nat
    BY <1>0, <1>1
  <2>2. u = [old EXCEPT !.amount = left, !.pending_withdrawal = pending,
                        !.unlock_time = unlock]
    BY <1>0 DEF StakerInfo
  <2> HIDE DEF u, old, left, pending, unlock
  <2>3. u \in StakerInfo
    BY <1>0, <2>1, <2>2 DEF StakerInfo
  <2>4. /\ u.amount = left /\ u.known /\ u.delegated_to = old.delegated_to
        /\ u.last_reward_index = old.last_reward_index /\ u.unlock_time = unlock
        /\ u.pending_withdrawal = pending
        /\ u.accumulated_rewards = old.accumulated_rewards
    BY <1>0, <1>1, <2>2 DEF StakerInfo
  <2> QED
    BY <2>3, <2>4 DEF left, pending, unlock
<1>3. Scaled(u) <= Scaled(old) /\ Scaled(u) \in Int /\ Scaled(old) \in Int
  <2>1. u.amount + u.pending_withdrawal + u.accumulated_rewards = x
        /\ index - u.last_reward_index = gap
    BY <1>0, <1>2
  <2>2. gap \in Nat
    BY <1>0 DEF StakerOK
  <2>3. Scaled(u) = SCALE * x + u.amount * gap /\ Scaled(old) = SCALE * x + old.amount * gap
    BY <2>1 DEF Scaled
  <2>4. u.amount * gap <= old.amount * gap /\ u.amount * gap \in Nat /\ old.amount * gap \in Nat
    <3> HIDE DEF u, old, gap
    <3>1. u.amount \in Nat /\ u.amount <= old.amount
      BY <1>0, <1>1, <1>2
    <3> QED
      BY <1>0, <2>2, <3>1, ProductMonotone
  <2>5. SCALE * x \in Int
    <3>1. x \in Int
      BY <1>0
    <3> HIDE DEF x
    <3> QED
      BY <1>0, <3>1, ProductInt
  <2> HIDE DEF u, old, gap, x
  <2> QED
    BY <2>3, <2>4, <2>5
<1>4. /\ delegated' \in [Address -> Int]
      /\ \A d \in Address : delegated'[d] = delegated[d] + ShareFor(u, d) - ShareFor(old, d)
  <2>1. -amount \in Int
    OBVIOUS
  <2>2. /\ delegated' \in [Address -> Int]
        /\ \A d \in Address : delegated'[d] = delegated[d]
                                + (IF d = old.delegated_to THEN -amount ELSE 0)
    <3>1. /\ delegated \in [Address -> Int] /\ old.delegated_to \in Address \cup {None}
          /\ delegated' = DelegateDelta(delegated, old.delegated_to, -amount)
      BY <1>0, <1>1
    <3> HIDE DEF old
    <3> DEFINE moved == DelegateDelta(delegated, old.delegated_to, -amount)
    <3>2. /\ moved \in [Address -> Int]
          /\ \A d \in Address : moved[d] = delegated[d]
                                   + (IF d = old.delegated_to THEN -amount ELSE 0)
      BY <2>1, <3>1, DeltaWorks
    <3> QED
      BY <3>1, <3>2
  <2>3. \A d \in Address : ShareFor(u, d) - ShareFor(old, d)
                             = (IF d = old.delegated_to THEN -amount ELSE 0)
                           /\ ShareFor(u, d) \in Int /\ ShareFor(old, d) \in Int
    BY <1>0, <1>1, <1>2 DEF ShareFor
  <2> HIDE DEF old, u
  <2> QED
    BY <1>0, <2>2, <2>3
<1>5. Scaled(u) - Scaled(old) <= SCALE * pot' - SCALE * pot
  <2>1. SCALE * pot \in Int /\ SCALE * pot' = SCALE * pot
    BY <1>0, <1>1, ProductInt
  <2> HIDE DEF old, u
  <2> QED
    BY <1>3, <2>1
<1>6. StakerOK(u) /\ totalStaked' = totalStaked + u.amount - stakers[a].amount
  BY <1>0, <1>1, <1>2 DEF StakerOK
<1>7. admin = None => FALSE
  <2> SUFFICES ASSUME admin = None PROVE FALSE
    OBVIOUS
  <2>1. Amounts[a] = old.amount /\ Amounts \in [1..NumAddresses -> Nat]
        /\ Amounts \in [1..NumAddresses -> Int]
        /\ NumAddresses \in Nat /\ a \in 1..NumAddresses
    BY StakingTypes DEF StakingInv, Amounts
  <2>2. a \in 0..NumAddresses /\ a - 1 \in 0..NumAddresses
    BY <2>1
  <2>3. SumTo(Amounts, a) = SumTo(Amounts, a-1) + Amounts[a]
    BY <2>1, SumSteps
  <2>4. SumTo(Amounts, a) <= SumTo(Amounts, NumAddresses) /\ SumTo(Amounts, a-1) \in Nat
    BY <2>1, <2>2, SumNonNegative
  <2>5. SumTo(Amounts, NumAddresses) = 0
    BY DEF StakingInv, TotalIsSumOfStakes
  <2> QED
    BY <1>0, <1>1, <2>1, <2>3, <2>4, <2>5
<1>8. wallet' \in [Address -> Nat] /\ pot' \in Nat
  BY <1>0, <1>1
<1> HIDE DEF u
<1> QED
  BY <1>1, <1>2, <1>4, <1>5, <1>6, <1>7, <1>8, OneStaker

\* A record that loses m of what it holds in rewards or pending withdrawals is
\* worth m less.
LEMMA ScaledLoss ==
    ASSUME NEW old \in StakerInfo, NEW u \in StakerInfo, NEW m \in Nat, index \in Nat,
           u.amount = old.amount, u.last_reward_index = old.last_reward_index,
           u.pending_withdrawal + u.accumulated_rewards
             = old.pending_withdrawal + old.accumulated_rewards - m
    PROVE  /\ Scaled(u) = Scaled(old) - SCALE * m
           /\ Scaled(u) \in Int /\ Scaled(old) \in Int /\ SCALE * m \in Int
<1> DEFINE x == old.amount + old.pending_withdrawal + old.accumulated_rewards
           y == old.amount * (index - old.last_reward_index)
<1>1. x \in Int /\ SCALE \in Int /\ index - old.last_reward_index \in Int /\ old.amount \in Int
  BY StakingConstants DEF StakerInfo
<1>2. u.amount + u.pending_withdrawal + u.accumulated_rewards = x - m
  BY DEF StakerInfo
<1>3. y \in Int
  BY <1>1, ProductInt
<1>4. Scaled(old) = SCALE * x + y /\ Scaled(u) = SCALE * (x - m) + y
  BY <1>2 DEF Scaled
<1> HIDE DEF x, y
<1>5. SCALE * (x - m) = SCALE * x - SCALE * m
  BY <1>1, ScaleSum
<1>6. SCALE * x \in Int /\ SCALE * m \in Int
  BY <1>1, ProductInt
<1> QED
  BY <1>3, <1>4, <1>5, <1>6

LEMMA ClaimStep ==
    ASSUME StakingInv, NEW a \in Address, claim_staking_rewards(a)
    PROVE  StakingInv'
<1> DEFINE old == stakers[a]
           v == update_staker_rewards(old)
           u == [v EXCEPT !.accumulated_rewards = 0]
           m == v.accumulated_rewards
<1>0. /\ old \in StakerInfo /\ StakerOK(old) /\ index \in Nat /\ pot \in Nat /\ now \in Nat
      /\ delegated \in [Address -> Int] /\ wallet \in [Address -> Nat]
      /\ SCALE \in Nat \ {0} /\ old.amount \in Nat /\ totalStaked \in Nat
      /\ Scaled(old) \in Int
  BY StakingFacts
<1>1. /\ v \in StakerInfo
      /\ v.known = old.known /\ v.amount = old.amount
      /\ v.unlock_time = old.unlock_time /\ v.delegated_to = old.delegated_to
      /\ v.last_reward_index <= index
      /\ ~old.known => v = old
      /\ Scaled(v) <= Scaled(old)
  <2>1. old.last_reward_index <= index
    BY <1>0 DEF StakerOK
  <2> HIDE DEF old
  <2> QED
    BY <1>0, <2>1, Settles
<1>2. /\ v.known /\ m \in Nat /\ m <= pot
      /\ stakers' = [stakers EXCEPT ![a] = u]
      /\ wallet' = [wallet EXCEPT ![a] = @ + m] /\ pot' = pot - m
      /\ admin' = admin /\ index' = index /\ now' = now
      /\ totalStaked' = totalStaked /\ delegated' = delegated
  BY <1>1 DEF claim_staking_rewards, PayOut, StakerInfo
<1> HIDE DEF v
<1>3. /\ u \in StakerInfo /\ u.amount = v.amount /\ u.known
      /\ u.delegated_to = v.delegated_to /\ u.last_reward_index = v.last_reward_index
      /\ u.unlock_time = v.unlock_time
      /\ u.pending_withdrawal = v.pending_withdrawal /\ u.accumulated_rewards = 0
  BY <1>1, <1>2 DEF StakerInfo
<1> HIDE DEF u
<1>4. Scaled(u) = Scaled(v) - SCALE * m /\ Scaled(u) \in Int /\ Scaled(v) \in Int
  <2>1. u.pending_withdrawal + u.accumulated_rewards
          = v.pending_withdrawal + v.accumulated_rewards - m
    BY <1>1, <1>3 DEF StakerInfo
  <2> QED
    BY <1>0, <1>1, <1>2, <1>3, <2>1, ScaledLoss
<1>5. Scaled(u) - Scaled(old) <= SCALE * pot' - SCALE * pot
  <2>1. SCALE * pot' = SCALE * pot - SCALE * m
    BY <1>0, <1>2, ScaleSum
  <2>2. SCALE * pot \in Int /\ SCALE * m \in Int
    BY <1>0, <1>2, ProductInt
  <2> HIDE DEF old, m
  <2> QED
    BY <1>0, <1>1, <1>4, <2>1, <2>2
<1>6. \A d \in Address : delegated'[d] = delegated[d] + ShareFor(u, d) - ShareFor(stakers[a], d)
  <2>1. \A d \in Address : ShareFor(u, d) = ShareFor(old, d) /\ ShareFor(old, d) \in Int
    BY <1>0, <1>1, <1>3 DEF ShareFor
  <2>2. \A d \in Address : delegated[d] \in Int /\ delegated'[d] = delegated[d]
    BY <1>0, <1>2
  <2> HIDE DEF old
  <2>3. \A d \in Address : delegated'[d] = delegated[d] + ShareFor(u, d) - ShareFor(old, d)
    BY <2>1, <2>2
  <2> QED
    BY <2>3 DEF old
<1>7. StakerOK(u) /\ totalStaked' = totalStaked + u.amount - stakers[a].amount
      /\ u.amount = stakers[a].amount
  BY <1>0, <1>1, <1>2, <1>3 DEF StakerOK
<1>8. wallet' \in [Address -> Nat] /\ pot' \in Nat /\ delegated' \in [Address -> Int]
  BY <1>0, <1>2
<1> QED
  BY <1>2, <1>3, <1>5, <1>6, <1>7, <1>8, OneStaker

LEMMA WithdrawStep ==
    ASSUME StakingInv, NEW a \in Address, withdraw(a)
    PROVE  StakingInv'
<1> DEFINE old == stakers[a]
           u == [old EXCEPT !.pending_withdrawal = 0, !.unlock_time = 0]
           m == old.pending_withdrawal
<1>0. /\ old \in StakerInfo /\ StakerOK(old) /\ index \in Nat /\ pot \in Nat /\ now \in Nat
      /\ delegated \in [Address -> Int] /\ wallet \in [Address -> Nat]
      /\ SCALE \in Nat \ {0} /\ old.amount \in Nat /\ totalStaked \in Nat /\ Cooldown \in Nat
      /\ m \in Nat /\ old.last_reward_index \in Nat
  BY StakingFacts
<1>1. /\ old.known /\ m <= pot
      /\ stakers' = [stakers EXCEPT ![a] = u]
      /\ wallet' = [wallet EXCEPT ![a] = @ + m] /\ pot' = pot - m
      /\ admin' = admin /\ index' = index /\ now' = now
      /\ totalStaked' = totalStaked /\ delegated' = delegated
  <2>1. stakers' = [stakers EXCEPT ![a].pending_withdrawal = 0, ![a].unlock_time = 0]
    BY DEF withdraw, Withdrawal
  <2>2. stakers \in [Address -> StakerInfo]
    BY DEF StakingInv, TypeOK
  <2>3. stakers' = [stakers EXCEPT ![a] = u]
    BY <2>1, <2>2
  <2> QED
    BY <2>3 DEF withdraw, Withdrawal, PayOut
<1>2. /\ u \in StakerInfo /\ u.amount = old.amount /\ u.known
      /\ u.delegated_to = old.delegated_to /\ u.last_reward_index = old.last_reward_index
      /\ u.unlock_time = 0
      /\ u.pending_withdrawal = 0 /\ u.accumulated_rewards = old.accumulated_rewards
  BY <1>0, <1>1 DEF StakerInfo
<1> HIDE DEF u
<1>3. Scaled(u) = Scaled(old) - SCALE * m /\ Scaled(u) \in Int /\ Scaled(old) \in Int
      /\ SCALE * m \in Int
  <2>1. u.pending_withdrawal + u.accumulated_rewards
          = old.pending_withdrawal + old.accumulated_rewards - m
    BY <1>0, <1>2 DEF StakerInfo
  <2> QED
    BY <1>0, <1>2, <2>1, ScaledLoss
<1>4. Scaled(u) - Scaled(old) <= SCALE * pot' - SCALE * pot
  <2>1. SCALE * pot' = SCALE * pot - SCALE * m
    BY <1>0, <1>1, ScaleSum
  <2>2. SCALE * pot \in Int
    BY <1>0, ProductInt
  <2> HIDE DEF old, m
  <2> QED
    BY <1>3, <2>1, <2>2
<1>5. \A d \in Address : delegated'[d] = delegated[d] + ShareFor(u, d) - ShareFor(stakers[a], d)
  <2>1. \A d \in Address : ShareFor(u, d) = ShareFor(old, d) /\ ShareFor(old, d) \in Int
    BY <1>0, <1>2 DEF ShareFor
  <2>2. \A d \in Address : delegated[d] \in Int /\ delegated'[d] = delegated[d]
    BY <1>0, <1>1
  <2> HIDE DEF old
  <2>3. \A d \in Address : delegated'[d] = delegated[d] + ShareFor(u, d) - ShareFor(old, d)
    BY <2>1, <2>2
  <2> QED
    BY <2>3 DEF old
<1>6. StakerOK(u) /\ totalStaked' = totalStaked + u.amount - stakers[a].amount
      /\ u.amount = stakers[a].amount
  BY <1>0, <1>1, <1>2 DEF StakerOK
<1>7. wallet' \in [Address -> Nat] /\ pot' \in Nat /\ delegated' \in [Address -> Int]
  BY <1>0, <1>1
<1> QED
  BY <1>1, <1>2, <1>4, <1>5, <1>6, <1>7, OneStaker

LEMMA DelegateStep ==
    ASSUME StakingInv, NEW a \in Address, NEW c \in Address \cup {None},
           delegate_voting_power(a, c)
    PROVE  StakingInv'
<1> DEFINE old == stakers[a]
           u == [old EXCEPT !.delegated_to = c]
           removed == DelegateDelta(delegated, old.delegated_to, -old.amount)
           moved == DelegateDelta(removed, c, old.amount)
<1>0. /\ old \in StakerInfo /\ StakerOK(old) /\ index \in Nat /\ pot \in Nat
      /\ delegated \in [Address -> Int] /\ wallet \in [Address -> Nat]
      /\ SCALE \in Nat \ {0} /\ old.amount \in Nat /\ totalStaked \in Nat
      /\ old.pending_withdrawal \in Nat /\ old.accumulated_rewards \in Nat
      /\ old.delegated_to \in Address \cup {None}
  BY StakingFacts
<1>1. /\ old.known
      /\ stakers' = [stakers EXCEPT ![a] = u]
      /\ wallet' = wallet /\ pot' = pot
      /\ admin' = admin /\ index' = index /\ now' = now
      /\ totalStaked' = totalStaked /\ delegated' = moved
  <2>1. stakers' = [stakers EXCEPT ![a].delegated_to = c]
    BY DEF delegate_voting_power
  <2>2. stakers \in [Address -> StakerInfo]
    BY DEF StakingInv, TypeOK
  <2>3. stakers' = [stakers EXCEPT ![a] = u]
    BY <2>1, <2>2
  <2> QED
    BY <2>3 DEF delegate_voting_power
<1>2. /\ u \in StakerInfo /\ u.amount = old.amount /\ u.known
      /\ u.delegated_to = c /\ u.last_reward_index = old.last_reward_index
      /\ u.unlock_time = old.unlock_time
      /\ u.pending_withdrawal = old.pending_withdrawal
      /\ u.accumulated_rewards = old.accumulated_rewards
  BY <1>0, <1>1 DEF StakerInfo
<1>3. Scaled(u) = Scaled(old)
  BY <1>2 DEF Scaled
<1> HIDE DEF u
<1>4. Scaled(u) - Scaled(old) <= SCALE * pot' - SCALE * pot
  <2>1. SCALE * pot \in Int /\ Scaled(old) \in Int /\ pot' = pot
    BY <1>0, <1>1, ProductInt, StakingFacts
  <2> HIDE DEF old
  <2> QED
    BY <1>3, <2>1
<1>5. /\ removed \in [Address -> Int]
      /\ \A d \in Address : removed[d] = delegated[d]
                              + (IF d = old.delegated_to THEN -old.amount ELSE 0)
  <2>1. -old.amount \in Int
    BY <1>0
  <2> HIDE DEF old
  <2> QED
    BY <1>0, <2>1, DeltaWorks
<1>6. /\ moved \in [Address -> Int]
      /\ \A d \in Address : moved[d] = removed[d] + (IF d = c THEN old.amount ELSE 0)
  <2>1. old.amount \in Int /\ removed \in [Address -> Int]
    BY <1>0, <1>5
  <2> HIDE DEF old, removed
  <2> QED
    BY <2>1, DeltaWorks
<1> HIDE DEF removed, moved
<1>7. \A d \in Address : delegated'[d] = delegated[d] + ShareFor(u, d) - ShareFor(stakers[a], d)
  <2>1. \A d \in Address : /\ ShareFor(u, d) = (IF d = c THEN old.amount ELSE 0)
                           /\ 0 - ShareFor(old, d)
                                = (IF d = old.delegated_to THEN -old.amount ELSE 0)
                           /\ ShareFor(u, d) \in Int /\ ShareFor(old, d) \in Int
    BY <1>0, <1>2 DEF ShareFor
  <2> HIDE DEF old
  <2>2. \A d \in Address : delegated'[d] = delegated[d] + ShareFor(u, d) - ShareFor(old, d)
    <3> TAKE d \in Address
    <3> DEFINE gain == IF d = c THEN old.amount ELSE 0
               loss == IF d = old.delegated_to THEN -old.amount ELSE 0
    <3>1. /\ delegated'[d] = removed[d] + gain /\ removed[d] = delegated[d] + loss
          /\ ShareFor(u, d) = gain /\ 0 - ShareFor(old, d) = loss
          /\ delegated[d] \in Int /\ ShareFor(u, d) \in Int /\ ShareFor(old, d) \in Int
      BY <1>0, <1>1, <1>5, <1>6, <2>1
    <3> HIDE DEF gain, loss
    <3> QED
      BY <3>1
  <2> QED
    BY <2>2 DEF old
<1>8. StakerOK(u) /\ totalStaked' = totalStaked + u.amount - stakers[a].amount
      /\ u.amount = stakers[a].amount
  BY <1>0, <1>1, <1>2 DEF StakerOK
<1>9. wallet' \in [Address -> Nat] /\ pot' \in Nat /\ delegated' \in [Address -> Int]
  BY <1>0, <1>1, <1>6
<1> QED
  BY <1>1, <1>2, <1>4, <1>7, <1>8, <1>9, OneStaker

\* The index rises by no more than the deposit per staked token.
LEMMA DepositStep ==
    ASSUME StakingInv, NEW amount \in Nat \ {0}, deposit_rewards(amount)
    PROVE  StakingInv'
<1> DEFINE N == NumAddresses
           inc == IndexIncrease(amount)
<1>0. /\ TypeOK /\ N \in Nat /\ Address = 1..N /\ N \in 0..N /\ SCALE \in Nat \ {0}
      /\ totalStaked \in Nat \ {0} /\ index \in Nat /\ pot \in Nat
      /\ admin \in Address /\ amount <= wallet[admin] /\ wallet \in [Address -> Nat]
      /\ stakers \in [Address -> StakerInfo]
  BY StakingConstants DEF StakingInv, TypeOK, deposit_rewards, Address, None
<1>1. /\ index' = index + inc /\ pot' = pot + amount
      /\ wallet' = [wallet EXCEPT ![admin] = @ - amount]
      /\ admin' = admin /\ totalStaked' = totalStaked /\ stakers' = stakers
      /\ delegated' = delegated /\ now' = now
  BY DEF deposit_rewards
<1>2. inc \in Nat /\ totalStaked * inc <= amount * SCALE
  <2>1. inc = (amount * SCALE) \div totalStaked /\ amount * SCALE \in Nat
    BY <1>0 DEF IndexIncrease
  <2> HIDE DEF inc
  <2> QED
    BY <1>0, <2>1, FloorBounds
<1> HIDE DEF inc
<1>3. TypeOK'
  <2>1. wallet' \in [Address -> Nat] /\ pot' \in Nat /\ index' \in Nat
    BY <1>0, <1>1, <1>2
  <2> QED
    BY <1>0, <1>1, <2>1 DEF TypeOK
<1>4. /\ TotalIsSumOfStakes'
      /\ (\A d \in Address : delegated[d] = SumTo(AmountsFor(d), NumAddresses))'
  <2>1. Amounts' = Amounts /\ \A d \in Address : AmountsFor(d)' = AmountsFor(d)
    BY <1>1 DEF Amounts, AmountsFor
  <2> QED
    BY <1>1, <2>1 DEF StakingInv, TotalIsSumOfStakes
<1>5. (\A a \in Address : StakerOK(stakers[a]))'
  <2> SUFFICES ASSUME NEW a \in Address PROVE StakerOK(stakers[a])'
    OBVIOUS
  <2>1. StakerOK(stakers[a]) /\ stakers[a].last_reward_index \in Nat
    BY StakingFacts
  <2> QED
    BY <1>0, <1>1, <1>2, <2>1 DEF StakerOK
<1>6. SumTo(ScaledClaims', N) <= SCALE * pot'
  <2>1. ASSUME NEW k \in 1..N
        PROVE  ScaledClaims'[k] = ScaledClaims[k] + inc * Amounts[k] /\ ScaledClaims'[k] \in Int
    <3> DEFINE i == stakers[k]
               x == SCALE * (i.amount + i.pending_withdrawal + i.accumulated_rewards)
               gap == index - i.last_reward_index
               am == i.amount
    <3>1. k \in Address /\ i \in StakerInfo
      BY <1>0
    <3>2. /\ ScaledClaims[k] = x + am * gap
          /\ ScaledClaims'[k] = x + am * (index' - i.last_reward_index)
          /\ Amounts[k] = am
      BY <1>1, <3>1 DEF ScaledClaims, Scaled, Amounts
    <3>3. gap \in Int /\ am \in Int /\ index' - i.last_reward_index = gap + inc
      <4>1. /\ i.last_reward_index \in Nat /\ i.amount \in Nat /\ index \in Nat /\ inc \in Nat
            /\ index' = index + inc
        BY <1>0, <1>1, <1>2, <3>1 DEF StakerInfo
      <4> HIDE DEF i
      <4> QED
        BY <4>1
    <3>4. x \in Int
      <4> DEFINE y == i.amount + i.pending_withdrawal + i.accumulated_rewards
      <4>1. y \in Int /\ SCALE \in Int
        BY <1>0, <3>1 DEF StakerInfo
      <4> HIDE DEF y
      <4>2. SCALE * y \in Int
        BY <4>1, ProductInt
      <4> QED
        BY <4>2 DEF y
    <3> HIDE DEF i, x, gap, am
    <3>5. am * (gap + inc) = am * gap + am * inc /\ am * inc = inc * am
      BY <1>2, <3>3, ScaleSum
    <3>6. am * gap \in Int /\ am * inc \in Int
      BY <1>2, <3>3, ProductInt
    <3> QED
      BY <3>2, <3>3, <3>4, <3>5, <3>6
  <2>2. /\ ScaledClaims' \in [1..N -> Int] /\ ScaledClaims \in [1..N -> Int]
        /\ Amounts \in [1..N -> Int]
    <3>1. ScaledClaims' = [k \in 1..N |-> ScaledClaims'[k]]
      BY <1>0 DEF ScaledClaims
    <3>2. ScaledClaims' \in [1..N -> Int]
      BY <2>1, <3>1
    <3> QED
      BY <1>0, <3>2, StakingTypes
  <2>3. SumTo(ScaledClaims', N) = SumTo(ScaledClaims, N) + inc * SumTo(Amounts, N)
    <3> DEFINE f == ScaledClaims
               h == ScaledClaims'
               g == Amounts
    <3>1. N \in Nat /\ inc \in Int /\ N \in 0..N
      BY <1>0, <1>2
    <3>2. \A k \in 1..N : h[k] = f[k] + inc * g[k]
      BY <2>1
    <3>3. f \in [1..N -> Int] /\ g \in [1..N -> Int] /\ h \in [1..N -> Int]
      BY <2>2
    <3>4. Combined(h, f, g, inc, N)
      BY <3>2 DEF Combined
    <3> HIDE DEF f, g, h, N
    <3>5. \A n \in 0..N : SumTo(h, n) = SumTo(f, n) + inc * SumTo(g, n)
      BY <3>1, <3>3, <3>4, SumCombine
    <3>6. SumTo(h, N) = SumTo(f, N) + inc * SumTo(g, N)
      BY <3>1, <3>5
    <3> QED
      BY <3>6 DEF f, g, h, N
  <2>4. SumTo(Amounts, N) = totalStaked /\ SumTo(ScaledClaims, N) <= SCALE * pot
    BY DEF StakingInv, TotalIsSumOfStakes
  <2>5. SumTo(ScaledClaims, N) \in Int
    BY <1>0, <2>2, SumSteps
  <2>6. /\ SCALE * pot' = SCALE * pot + SCALE * amount
        /\ SCALE * pot \in Int /\ SCALE * amount \in Int /\ inc * totalStaked \in Int
        /\ inc * totalStaked = totalStaked * inc /\ amount * SCALE = SCALE * amount
    BY <1>0, <1>1, <1>2, ScaleSum, ProductInt
  <2> QED
    BY <1>2, <2>3, <2>4, <2>5, <2>6
<1> QED
  BY <1>0, <1>1, <1>3, <1>4, <1>5, <1>6 DEF StakingInv, Address, None

LEMMA StakingInit == Init => StakingInv
<1> SUFFICES ASSUME Init PROVE StakingInv
  OBVIOUS
<1> DEFINE N == NumAddresses
           zero == [k \in 1..N |-> 0]
<1>0. /\ N \in Nat /\ Address = 1..N /\ SCALE \in Nat \ {0} /\ Cooldown \in Nat /\ InitialFunds \in Nat
      /\ NoStaker \in StakerInfo /\ stakers = [a \in Address |-> NoStaker]
      /\ zero \in [1..N -> Int] /\ 0 \in 0..N
  BY StakingConstants DEF Address, Init, NoStaker, StakerInfo
<1>1. SumTo(zero, N) = 0
  <2>1. \A k \in (0+1)..N : zero[k] = 0
    BY <1>0
  <2>2. SumTo(zero, N) = SumTo(zero, 0) /\ SumTo(zero, 0) = 0
    <3> HIDE DEF zero
    <3> QED
      BY <1>0, <2>1, SumTail, SumSteps
  <2> QED
    BY <2>2
<1>2. TypeOK
  BY <1>0 DEF Init, TypeOK
<1>3. Amounts = zero /\ \A d \in Address : AmountsFor(d) = zero
  BY <1>0 DEF Amounts, AmountsFor, NoStaker
<1>4. ScaledClaims = zero
  <2>1. Scaled(NoStaker) = 0
    BY <1>0 DEF Scaled, NoStaker, Init
  <2> QED
    BY <1>0, <2>1 DEF ScaledClaims
<1>5. \A a \in Address : StakerOK(stakers[a])
  BY <1>0 DEF StakerOK, Init, NoStaker
<1>6. SCALE * pot = 0
  BY <1>0 DEF Init
<1> HIDE DEF zero
<1> QED
  BY <1>0, <1>1, <1>2, <1>3, <1>4, <1>5, <1>6 DEF StakingInv, Init, TotalIsSumOfStakes

\* The calls and ticks that leave every sum as it is.
LEMMA InitializeStep ==
    ASSUME StakingInv, NEW a \in Address, initialize(a)
    PROVE  StakingInv'
<1>1. /\ index' = index /\ totalStaked' = totalStaked /\ admin' \in Address
      /\ stakers' = stakers /\ delegated' = delegated /\ wallet' = wallet
      /\ pot' = pot /\ now' = now
  BY DEF initialize, StakingInv
<1>2. /\ Amounts' = Amounts /\ ScaledClaims' = ScaledClaims
      /\ \A d \in Address : AmountsFor(d)' = AmountsFor(d)
  BY <1>1 DEF Amounts, AmountsFor, ScaledClaims, Scaled
<1>3. None \notin Address
  BY DEF None, Address
<1> QED
  BY <1>1, <1>2, <1>3 DEF StakingInv, TypeOK, TotalIsSumOfStakes, StakerOK

LEMMA StutterOrTick ==
    ASSUME StakingInv, Tick \/ UNCHANGED stakingVars
    PROVE  StakingInv'
<1>1. /\ admin' = admin /\ index' = index /\ totalStaked' = totalStaked
      /\ stakers' = stakers /\ delegated' = delegated /\ wallet' = wallet
      /\ pot' = pot /\ now' \in Nat /\ now <= now' /\ now \in Nat
  BY DEF Tick, stakingVars, StakingInv, TypeOK
<1>2. /\ Amounts' = Amounts /\ ScaledClaims' = ScaledClaims
      /\ \A d \in Address : AmountsFor(d)' = AmountsFor(d)
  BY <1>1 DEF Amounts, AmountsFor, ScaledClaims, Scaled
<1>3. (\A a \in Address : StakerOK(stakers[a]))'
  <2> SUFFICES ASSUME NEW a \in Address PROVE StakerOK(stakers[a])'
    OBVIOUS
  <2>1. StakerOK(stakers[a]) /\ stakers[a].unlock_time \in Nat /\ Cooldown \in Nat
    BY StakingFacts
  <2> QED
    BY <1>1, <2>1 DEF StakerOK
<1> QED
  BY <1>1, <1>2, <1>3 DEF StakingInv, TypeOK, TotalIsSumOfStakes

LEMMA StakingNext == StakingInv /\ [Next]_stakingVars => StakingInv'
<1> SUFFICES ASSUME StakingInv, [Next]_stakingVars PROVE StakingInv'
  OBVIOUS
<1>0. StakeAmounts \subseteq Nat \ {0} /\ RewardAmounts \subseteq Nat \ {0}
  BY StakingConstants
<1>1. ASSUME NEW a \in Address, initialize(a) PROVE StakingInv'
  BY <1>1, InitializeStep
<1>2. ASSUME NEW a \in Address, NEW amount \in StakeAmounts, stake(a, amount) PROVE StakingInv'
  BY <1>0, <1>2, StakeStep
<1>3. ASSUME NEW a \in Address, NEW amount \in StakeAmounts, unstake(a, amount) PROVE StakingInv'
  BY <1>0, <1>3, UnstakeStep
<1>4. ASSUME NEW a \in Address, claim_staking_rewards(a) PROVE StakingInv'
  BY <1>4, ClaimStep
<1>5. ASSUME NEW a \in Address, NEW d \in Address \cup {None}, delegate_voting_power(a, d)
      PROVE  StakingInv'
  BY <1>5, DelegateStep
<1>6. ASSUME NEW a \in Address, withdraw(a) PROVE StakingInv'
  BY <1>6, WithdrawStep
<1>7. ASSUME NEW amount \in RewardAmounts, deposit_rewards(amount) PROVE StakingInv'
  BY <1>0, <1>7, DepositStep
<1>8. CASE Tick \/ UNCHANGED stakingVars
  BY <1>8, StutterOrTick
<1> QED
  BY <1>1, <1>2, <1>3, <1>4, <1>5, <1>6, <1>7, <1>8 DEF Next

\* The inductive invariant holds in every reachable state.
THEOREM StakingInvariant == Spec => []StakingInv
<1>1. Init => StakingInv
  BY StakingInit
<1>2. StakingInv /\ [Next]_stakingVars => StakingInv'
  BY StakingNext
<1> QED
  BY <1>1, <1>2, PTL DEF Spec

-----------------------------------------------------------------------------
(* The books *)

\* A claim, rounded down per staker, is never more than what the record is worth.
LEMMA ClaimWithinScaled ==
    ASSUME StakingInv, NEW k \in 1..NumAddresses
    PROVE  SCALE * Claims[k] <= ScaledClaims[k] /\ Claims[k] \in Nat
<1> DEFINE i == stakers[k]
           x == i.amount + i.pending_withdrawal + i.accumulated_rewards
           n == i.amount * (index - i.last_reward_index)
           e == Earned(i)
<1>0. k \in Address
  BY DEF Address
<1>1. /\ x \in Nat /\ SCALE \in Nat \ {0} /\ i.amount \in Nat
      /\ i.pending_withdrawal \in Nat /\ i.accumulated_rewards \in Nat
      /\ index - i.last_reward_index \in Nat
  BY <1>0, StakingFacts DEF StakerOK
<1>2. n \in Nat
  BY <1>1, ProductMonotone
<1>3. e = n \div SCALE
  BY DEF Earned
<1>4. Claims[k] = i.amount + i.pending_withdrawal + (i.accumulated_rewards + e)
  BY <1>0 DEF Claims, Entitlement
<1>5. ScaledClaims[k] = SCALE * x + n
  BY <1>0 DEF ScaledClaims, Scaled
<1> HIDE DEF e, n
<1>6. e \in Nat /\ SCALE * e <= n
  BY <1>1, <1>2, <1>3, FloorBounds
<1>7. Claims[k] = x + e
  BY <1>1, <1>4, <1>6
<1> HIDE DEF x, i
<1>8. SCALE * (x + e) = SCALE * x + SCALE * e /\ SCALE * x \in Int /\ SCALE * e \in Int
  BY <1>1, <1>6, ScaleSum, ProductInt
<1> QED
  BY <1>1, <1>2, <1>5, <1>6, <1>7, <1>8

\* Flooring every staker's share keeps the promises within the balance.
LEMMA InvImpliesSolvent == StakingInv => Solvent
<1> SUFFICES ASSUME StakingInv PROVE Solvent
  OBVIOUS
<1> DEFINE N == NumAddresses
           f == Claims
           g == ScaledClaims
<1>1. /\ N \in Nat /\ N \in 0..N /\ SCALE \in Nat \ {0} /\ pot \in Nat
      /\ g \in [1..N -> Int] /\ SumTo(g, N) <= SCALE * pot /\ Address = 1..N
  BY StakingConstants, StakingTypes DEF StakingInv, TypeOK, Address
<1>2. f \in [1..N -> Int]
  <2>1. f = [k \in 1..N |-> f[k]]
    BY <1>1 DEF Claims
  <2>2. \A k \in 1..N : f[k] \in Int
    BY ClaimWithinScaled
  <2> QED
    BY <2>1, <2>2
<1>3. \A k \in 1..N : SCALE * f[k] <= 1 * g[k]
  <2> SUFFICES ASSUME NEW k \in 1..N PROVE SCALE * f[k] <= 1 * g[k]
    OBVIOUS
  <2>1. SCALE * f[k] <= g[k] /\ g[k] \in Int
    BY <1>1, ClaimWithinScaled
  <2>2. 1 * g[k] = g[k]
    BY <2>1
  <2> QED
    BY <2>1, <2>2
<1> HIDE DEF f, g, N
<1>4. SCALE * SumTo(f, N) <= 1 * SumTo(g, N)
  <2>1. SCALE \in Int /\ 1 \in Int
    BY <1>1
  <2>2. \A n \in 0..N : SCALE * SumTo(f, n) <= 1 * SumTo(g, n)
    BY <1>1, <1>2, <1>3, <2>1, SumScale
  <2> QED
    BY <1>1, <2>2
<1>5. SumTo(f, N) \in Int /\ SumTo(g, N) \in Int
  BY <1>1, <1>2, SumSteps
<1>6. SCALE * SumTo(f, N) <= SCALE * pot
  <2>1. SCALE * SumTo(f, N) \in Int /\ SCALE * pot \in Int
    BY <1>1, <1>5, ProductInt
  <2> QED
    BY <1>1, <1>4, <1>5, <2>1
<1>7. SumTo(f, N) <= pot
  BY <1>1, <1>5, <1>6, CancelScale
<1> QED
  BY <1>7 DEF Solvent, f, N

LEMMA InvImpliesBooks == StakingInv => StakeBooks
<1> SUFFICES ASSUME StakingInv PROVE StakeBooks
  OBVIOUS
<1>1. DelegationsMatchStakes
  BY DEF StakingInv, DelegationsMatchStakes, get_voting_power
<1> QED
  BY <1>1, InvImpliesSolvent DEF StakingInv, StakeBooks

\* Whatever the calls and their order: the total and the voting powers are what
\* the stakes say, and the contract's balance covers every stake, every pending
\* withdrawal and every reward at once (contracts/staking: update_staker_rewards,
\* deposit_rewards).
THEOREM BooksHold == Spec => []StakeBooks
<1>1. StakingInv => StakeBooks
  BY InvImpliesBooks
<1> QED
  BY <1>1, StakingInvariant, PTL

-----------------------------------------------------------------------------
(* What a call may never do *)

\* What a record can claim in rewards.
Worth(info) == info.accumulated_rewards + Earned(info)

\* What a call does to the record of one account.
StakerCallSound(old, u, a) ==
    /\ Worth(u) <= Worth(old)
    /\ old.pending_withdrawal > 0 =>
         \/ u.pending_withdrawal = 0 /\ now >= old.unlock_time
              /\ wallet'[a] = wallet[a] + old.pending_withdrawal
         \/ u.pending_withdrawal >= old.pending_withdrawal /\ u.unlock_time >= old.unlock_time
    /\ u.pending_withdrawal > old.pending_withdrawal => u.unlock_time = now + Cooldown

\* The index stands still and every record changes as a call may change it.
CallSound ==
    /\ index' = index
    /\ \A a \in Address : StakerCallSound(stakers[a], stakers'[a], a)

LEMMA WorthOf ==
    ASSUME NEW info \in StakerInfo, index \in Nat, info.last_reward_index <= index
    PROVE  /\ Worth(info) \in Nat /\ Earned(info) \in Nat
           /\ info.accumulated_rewards <= Worth(info)
           /\ info.last_reward_index = index => Worth(info) = info.accumulated_rewards
<1> DEFINE n == info.amount * (index - info.last_reward_index)
<1>1. /\ SCALE \in Nat \ {0} /\ info.amount \in Nat /\ info.accumulated_rewards \in Nat
      /\ index - info.last_reward_index \in Nat
  BY StakingConstants DEF StakerInfo
<1>2. n \in Nat
  BY <1>1, ProductMonotone
<1>3. Earned(info) = n \div SCALE
  BY DEF Earned
<1>4. info.last_reward_index = index => n = 0
  BY <1>1
<1>5. 0 \div SCALE = 0
  BY <1>1
<1> HIDE DEF n
<1>6. Earned(info) \in Nat
  BY <1>1, <1>2, <1>3, FloorBounds
<1> QED
  BY <1>1, <1>3, <1>4, <1>5, <1>6 DEF Worth

\* A record left alone.
LEMMA SameStakerSound ==
    ASSUME StakingInv, NEW a \in Address, NEW b \in Address
    PROVE  StakerCallSound(stakers[a], stakers[a], b)
<1>1. /\ stakers[a] \in StakerInfo /\ StakerOK(stakers[a]) /\ index \in Nat
      /\ stakers[a].unlock_time \in Nat /\ stakers[a].pending_withdrawal \in Nat
  BY StakingFacts
<1>2. Worth(stakers[a]) \in Nat
  BY <1>1, WorthOf DEF StakerOK
<1> QED
  BY <1>1, <1>2 DEF StakerCallSound

LEMMA OneCallSound ==
    ASSUME StakingInv, NEW a \in Address, NEW u,
           stakers' = [stakers EXCEPT ![a] = u], index' = index,
           StakerCallSound(stakers[a], u, a)
    PROVE  CallSound
<1>1. \A b \in Address : stakers'[b] = IF b = a THEN u ELSE stakers[b]
  BY DEF StakingInv, TypeOK
<1>2. \A b \in Address : StakerCallSound(stakers[b], stakers[b], b)
  BY SameStakerSound
<1> QED
  BY <1>1, <1>2 DEF CallSound

LEMMA StakeSound ==
    ASSUME StakingInv, NEW a \in Address, NEW amount \in Nat \ {0}, stake(a, amount)
    PROVE  CallSound
<1> DEFINE old == stakers[a]
           v == update_staker_rewards(old)
           info == IF v.known THEN v ELSE FreshStaker
           u == [info EXCEPT !.amount = @ + amount]
<1>0. /\ old \in StakerInfo /\ StakerOK(old) /\ index \in Nat
      /\ old.pending_withdrawal \in Nat /\ old.unlock_time \in Nat
      /\ old.accumulated_rewards \in Nat
  BY StakingFacts
<1>1. /\ v \in StakerInfo /\ v.known = old.known
      /\ v.pending_withdrawal = old.pending_withdrawal
      /\ v.unlock_time = old.unlock_time
      /\ old.known => /\ v.last_reward_index = index
                      /\ v.accumulated_rewards = Worth(old)
  <2>1. old.last_reward_index <= index
    BY <1>0 DEF StakerOK
  <2> HIDE DEF old
  <2> QED
    BY <1>0, <2>1, Settles DEF Worth
<1>2. /\ info \in StakerInfo /\ info.last_reward_index = index
      /\ info.accumulated_rewards <= Worth(old)
      /\ info.pending_withdrawal = old.pending_withdrawal
      /\ info.unlock_time = old.unlock_time
  <2>0. Worth(old) \in Nat
    BY <1>0, WorthOf DEF StakerOK
  <2>1. CASE old.known
    <3>1. info = v
      BY <1>1, <2>1
    <3> HIDE DEF v, info, old
    <3> QED
      BY <1>1, <2>0, <2>1, <3>1
  <2>2. CASE ~old.known
    <3>1. info = FreshStaker /\ old = NoStaker
      BY <1>0, <1>1, <2>2 DEF StakerOK
    <3>2. /\ FreshStaker.pending_withdrawal = 0 /\ FreshStaker.unlock_time = 0
          /\ FreshStaker.last_reward_index = index /\ FreshStaker.accumulated_rewards = 0
          /\ NoStaker.pending_withdrawal = 0 /\ NoStaker.unlock_time = 0
      BY DEF FreshStaker, NoStaker
    <3>3. FreshStaker \in StakerInfo
      BY <1>0 DEF StakerInfo, FreshStaker, NoStaker
    <3> HIDE DEF v, info, old
    <3> QED
      BY <2>0, <3>1, <3>2, <3>3
  <2> QED
    BY <2>1, <2>2
<1>3. stakers' = [stakers EXCEPT ![a] = u] /\ index' = index
  BY DEF stake
<1> HIDE DEF info, v
<1>4. /\ u \in StakerInfo /\ u.last_reward_index = index
      /\ u.accumulated_rewards = info.accumulated_rewards
      /\ u.pending_withdrawal = info.pending_withdrawal
      /\ u.unlock_time = info.unlock_time
  BY <1>2 DEF StakerInfo
<1> HIDE DEF u, old
<1>5. Worth(u) = u.accumulated_rewards
  BY <1>0, <1>4, WorthOf
<1>6. StakerCallSound(old, u, a)
  BY <1>0, <1>2, <1>4, <1>5 DEF StakerCallSound
<1> QED
  BY <1>3, <1>6, OneCallSound DEF old

LEMMA UnstakeSound ==
    ASSUME StakingInv, NEW a \in Address, NEW amount \in Nat \ {0}, unstake(a, amount)
    PROVE  CallSound
<1> DEFINE old == stakers[a]
           left == old.amount - amount
           pending == old.pending_withdrawal + amount
           unlock == now + Cooldown
           u == [old EXCEPT !.amount = left, !.pending_withdrawal = pending,
                            !.unlock_time = unlock]
           gap == index - old.last_reward_index
<1>0. /\ old \in StakerInfo /\ StakerOK(old) /\ index \in Nat /\ now \in Nat
      /\ old.pending_withdrawal \in Nat /\ old.unlock_time \in Nat /\ old.amount \in Nat
      /\ old.accumulated_rewards \in Nat /\ old.last_reward_index \in Nat
      /\ Cooldown \in Nat /\ SCALE \in Nat \ {0}
  BY StakingFacts
<1>1. stakers' = [stakers EXCEPT ![a] = u] /\ index' = index /\ amount <= old.amount
  BY <1>0 DEF unstake, StakerInfo
<1>2. left \in Nat /\ left <= old.amount /\ pending \in Nat /\ unlock \in Nat /\ gap \in Nat
  BY <1>0, <1>1 DEF StakerOK
<1>3. /\ u.amount = left /\ u.last_reward_index = old.last_reward_index
      /\ u.unlock_time = unlock /\ u.pending_withdrawal = pending
      /\ u.accumulated_rewards = old.accumulated_rewards
  <2> HIDE DEF old, left, pending, unlock
  <2> QED
    BY <1>0, <1>2 DEF StakerInfo
<1>4. Worth(u) <= Worth(old)
  <2>1. /\ left * gap <= old.amount * gap /\ left * gap \in Nat /\ old.amount * gap \in Nat
    <3> HIDE DEF left, gap, old
    <3> QED
      BY <1>0, <1>2, ProductMonotone
  <2>2. Earned(u) = (left * gap) \div SCALE /\ Earned(old) = (old.amount * gap) \div SCALE
    BY <1>3 DEF Earned
  <2>3. Earned(u) <= Earned(old) /\ Earned(u) \in Nat /\ Earned(old) \in Nat
    <3> DEFINE m == left * gap
               n == old.amount * gap
    <3>1. m \in Nat /\ n \in Nat /\ m <= n /\ Earned(u) = m \div SCALE /\ Earned(old) = n \div SCALE
      BY <2>1, <2>2
    <3> HIDE DEF m, n, u, old
    <3> QED
      BY <1>0, <3>1, FloorMonotone, FloorBounds
  <2> HIDE DEF u, old
  <2> QED
    BY <1>0, <1>3, <2>3 DEF Worth
<1>5. StakerCallSound(old, u, a)
  <2>1. unlock >= old.unlock_time /\ pending >= old.pending_withdrawal
    BY <1>0 DEF StakerOK
  <2> HIDE DEF u, old, pending, left
  <2> QED
    BY <1>0, <1>3, <1>4, <2>1 DEF StakerCallSound
<1> HIDE DEF u
<1> QED
  BY <1>1, <1>5, OneCallSound

LEMMA ClaimSound ==
    ASSUME StakingInv, NEW a \in Address, claim_staking_rewards(a)
    PROVE  CallSound
<1> DEFINE old == stakers[a]
           v == update_staker_rewards(old)
           u == [v EXCEPT !.accumulated_rewards = 0]
<1>0. /\ old \in StakerInfo /\ StakerOK(old) /\ index \in Nat
      /\ old.pending_withdrawal \in Nat /\ old.unlock_time \in Nat
  BY StakingFacts
<1>1. /\ v \in StakerInfo /\ v.known = old.known
      /\ v.pending_withdrawal = old.pending_withdrawal
      /\ v.unlock_time = old.unlock_time
      /\ old.known => v.last_reward_index = index
  <2>1. old.last_reward_index <= index
    BY <1>0 DEF StakerOK
  <2> HIDE DEF old
  <2> QED
    BY <1>0, <2>1, Settles
<1>2. stakers' = [stakers EXCEPT ![a] = u] /\ index' = index /\ v.known
  BY DEF claim_staking_rewards
<1>3. Worth(old) \in Nat
  BY <1>0, WorthOf DEF StakerOK
<1> HIDE DEF v
<1>4. /\ u \in StakerInfo /\ u.last_reward_index = index
      /\ u.accumulated_rewards = 0
      /\ u.pending_withdrawal = old.pending_withdrawal
      /\ u.unlock_time = old.unlock_time
  BY <1>1, <1>2 DEF StakerInfo
<1> HIDE DEF u, old
<1>5. Worth(u) = 0
  BY <1>0, <1>4, WorthOf
<1>6. StakerCallSound(old, u, a)
  BY <1>0, <1>3, <1>4, <1>5 DEF StakerCallSound
<1> QED
  BY <1>2, <1>6, OneCallSound DEF old

LEMMA WithdrawSound ==
    ASSUME StakingInv, NEW a \in Address, withdraw(a)
    PROVE  CallSound
<1> DEFINE old == stakers[a]
           u == [old EXCEPT !.pending_withdrawal = 0, !.unlock_time = 0]
<1>0. /\ old \in StakerInfo /\ StakerOK(old) /\ index \in Nat /\ now \in Nat
      /\ old.pending_withdrawal \in Nat /\ old.unlock_time \in Nat
      /\ wallet \in [Address -> Nat]
  BY StakingFacts
<1>1. /\ stakers' = [stakers EXCEPT ![a] = u] /\ index' = index
      /\ now >= old.unlock_time
      /\ wallet'[a] = wallet[a] + old.pending_withdrawal
  <2>1. stakers' = [stakers EXCEPT ![a].pending_withdrawal = 0, ![a].unlock_time = 0]
    BY DEF withdraw, Withdrawal
  <2>2. stakers \in [Address -> StakerInfo]
    BY DEF StakingInv, TypeOK
  <2>3. stakers' = [stakers EXCEPT ![a] = u]
    BY <2>1, <2>2
  <2>4. wallet' = [wallet EXCEPT ![a] = @ + old.pending_withdrawal]
    BY DEF withdraw, Withdrawal, PayOut
  <2>5. index' = index /\ now >= old.unlock_time
    BY DEF withdraw, Withdrawal, CooldownOver
  <2> HIDE DEF old, u
  <2> QED
    BY <1>0, <2>3, <2>4, <2>5
<1>2. Worth(old) \in Nat
  BY <1>0, WorthOf DEF StakerOK
<1>3. /\ u.pending_withdrawal = 0 /\ u.accumulated_rewards = old.accumulated_rewards
      /\ u.amount = old.amount /\ u.last_reward_index = old.last_reward_index
  BY <1>0 DEF StakerInfo
<1>4. Worth(u) = Worth(old)
  BY <1>3 DEF Worth, Earned
<1> HIDE DEF u, old
<1>5. StakerCallSound(old, u, a)
  BY <1>0, <1>1, <1>2, <1>3, <1>4 DEF StakerCallSound
<1> QED
  BY <1>1, <1>5, OneCallSound DEF old

LEMMA DelegateSound ==
    ASSUME StakingInv, NEW a \in Address, NEW c \in Address \cup {None},
           delegate_voting_power(a, c)
    PROVE  CallSound
<1> DEFINE old == stakers[a]
           u == [old EXCEPT !.delegated_to = c]
<1>0. /\ old \in StakerInfo /\ StakerOK(old) /\ index \in Nat
      /\ old.pending_withdrawal \in Nat /\ old.unlock_time \in Nat
  BY StakingFacts
<1>1. stakers' = [stakers EXCEPT ![a] = u] /\ index' = index
  <2>1. stakers' = [stakers EXCEPT ![a].delegated_to = c] /\ index' = index
    BY DEF delegate_voting_power
  <2>2. stakers \in [Address -> StakerInfo]
    BY DEF StakingInv, TypeOK
  <2> QED
    BY <2>1, <2>2
<1>2. Worth(old) \in Nat
  BY <1>0, WorthOf DEF StakerOK
<1>3. /\ u.pending_withdrawal = old.pending_withdrawal
      /\ u.accumulated_rewards = old.accumulated_rewards
      /\ u.amount = old.amount /\ u.last_reward_index = old.last_reward_index
      /\ u.unlock_time = old.unlock_time
  BY <1>0 DEF StakerInfo
<1>4. Worth(u) = Worth(old)
  BY <1>3 DEF Worth, Earned
<1> HIDE DEF u, old
<1>5. StakerCallSound(old, u, a)
  BY <1>0, <1>2, <1>3, <1>4 DEF StakerCallSound
<1> QED
  BY <1>1, <1>5, OneCallSound DEF old

LEMMA OtherStepsSound ==
    ASSUME StakingInv, stakers' = stakers, index' = index
    PROVE  CallSound
BY SameStakerSound DEF CallSound

\* A step raises the index, or it is a sound call.
LEMMA StepSound ==
    ASSUME StakingInv, [Next]_stakingVars
    PROVE  \/ CallSound
           \/ index' > index /\ stakers' = stakers
<1>0. StakeAmounts \subseteq Nat \ {0} /\ RewardAmounts \subseteq Nat \ {0}
  BY StakingConstants
<1>1. ASSUME NEW a \in Address, initialize(a) PROVE CallSound
  <2>1. stakers' = stakers /\ index' = index
    BY <1>1 DEF initialize, StakingInv
  <2> QED
    BY <2>1, OtherStepsSound
<1>2. ASSUME NEW a \in Address, NEW amount \in StakeAmounts, stake(a, amount) PROVE CallSound
  BY <1>0, <1>2, StakeSound
<1>3. ASSUME NEW a \in Address, NEW amount \in StakeAmounts, unstake(a, amount) PROVE CallSound
  BY <1>0, <1>3, UnstakeSound
<1>4. ASSUME NEW a \in Address, claim_staking_rewards(a) PROVE CallSound
  BY <1>4, ClaimSound
<1>5. ASSUME NEW a \in Address, NEW d \in Address \cup {None}, delegate_voting_power(a, d)
      PROVE  CallSound
  BY <1>5, DelegateSound
<1>6. ASSUME NEW a \in Address, withdraw(a) PROVE CallSound
  BY <1>6, WithdrawSound
<1>7. ASSUME NEW amount \in RewardAmounts, deposit_rewards(amount)
      PROVE  CallSound \/ (index' > index /\ stakers' = stakers)
  <2>1. stakers' = stakers /\ index' = index + IndexIncrease(amount)
    BY <1>7 DEF deposit_rewards
  <2>2. index \in Nat /\ IndexIncrease(amount) \in Nat
    <3>1. amount * SCALE \in Nat /\ totalStaked \in Nat \ {0} /\ index \in Nat
      BY <1>0, <1>7, StakingConstants DEF StakingInv, TypeOK, deposit_rewards
    <3> DEFINE n == amount * SCALE
    <3>2. IndexIncrease(amount) = n \div totalStaked
      BY DEF IndexIncrease
    <3> HIDE DEF n
    <3>3. n \in Nat
      BY <3>1 DEF n
    <3> QED
      BY <3>1, <3>2, <3>3, FloorBounds
  <2>3. index' > index \/ index' = index
    BY <2>1, <2>2
  <2> QED
    BY <2>1, <2>3, OtherStepsSound
<1>8. CASE Tick \/ UNCHANGED stakingVars
  <2>1. stakers' = stakers /\ index' = index
    BY <1>8 DEF Tick, stakingVars
  <2> QED
    BY <2>1, OtherStepsSound
<1> QED
  BY <1>1, <1>2, <1>3, <1>4, <1>5, <1>6, <1>7, <1>8 DEF Next

\* A sound call creates no claim.
LEMMA NoRewardsFromCalls ==
    ASSUME StakingInv, StakingInv', [Next]_stakingVars, NEW a \in Address,
           Entitlement(a)' > Entitlement(a)
    PROVE  index' > index
<1> SUFFICES ASSUME CallSound PROVE FALSE
  BY StepSound
<1>1. Worth(stakers'[a]) <= Worth(stakers[a]) /\ index' = index
  BY DEF CallSound, StakerCallSound
<1>2. Entitlement(a) = Worth(stakers[a]) /\ Entitlement(a)' = Worth(stakers'[a])
  BY <1>1 DEF Entitlement, Worth, Earned
<1>3. Worth(stakers[a]) \in Nat
  <2>1. stakers[a] \in StakerInfo /\ index \in Nat /\ stakers[a].last_reward_index <= index
    BY StakingFacts DEF StakerOK
  <2> QED
    BY <2>1, WorthOf
<1>4. Worth(stakers'[a]) \in Nat
  <2>1. stakers'[a] \in StakerInfo /\ index \in Nat /\ stakers'[a].last_reward_index <= index
    BY <1>1 DEF StakingInv, TypeOK, StakerOK
  <2> QED
    BY <2>1, WorthOf
<1> QED
  BY <1>1, <1>2, <1>3, <1>4

LEMMA CooldownHolds ==
    ASSUME StakingInv, [Next]_stakingVars, NEW a \in Address
    PROVE  /\ stakers[a].pending_withdrawal > 0 =>
                \/ stakers'[a].pending_withdrawal = 0 /\ now >= stakers[a].unlock_time
                     /\ wallet'[a] = wallet[a] + stakers[a].pending_withdrawal
                \/ stakers'[a].pending_withdrawal >= stakers[a].pending_withdrawal
                     /\ stakers'[a].unlock_time >= stakers[a].unlock_time
           /\ stakers'[a].pending_withdrawal > stakers[a].pending_withdrawal =>
                stakers'[a].unlock_time = now + Cooldown
<1>1. CASE CallSound
  BY <1>1 DEF CallSound, StakerCallSound
<1>2. CASE stakers' = stakers
  <2>1. stakers[a].pending_withdrawal \in Nat /\ stakers[a].unlock_time \in Nat
    BY StakingFacts
  <2> QED
    BY <1>2, <2>1
<1> QED
  BY <1>1, <1>2, StepSound

\* Only a deposit creates rewards, and only a whole cooldown after the last unstake
\* releases what was unstaked (contracts/staking: stake, unstake, withdraw,
\* update_staker_rewards), whatever the calls before.
THEOREM CallsAreSound == Spec => StakeCallsSound
<1>1. StakingInv /\ StakingInv' /\ [Next]_stakingVars =>
        [\A a \in Address : Entitlement(a)' > Entitlement(a) => index' > index]_stakingVars
  BY NoRewardsFromCalls
<1>2. StakingInv /\ [Next]_stakingVars =>
        [\A a \in Address :
           /\ stakers[a].pending_withdrawal > 0 =>
                \/ stakers'[a].pending_withdrawal = 0 /\ now >= stakers[a].unlock_time
                     /\ wallet'[a] = wallet[a] + stakers[a].pending_withdrawal
                \/ stakers'[a].pending_withdrawal >= stakers[a].pending_withdrawal
                     /\ stakers'[a].unlock_time >= stakers[a].unlock_time
           /\ stakers'[a].pending_withdrawal > stakers[a].pending_withdrawal =>
                stakers'[a].unlock_time = now + Cooldown]_stakingVars
  BY CooldownHolds
<1>3. Spec => OnlyDepositsCreateRewards
  BY <1>1, StakingInvariant, PTL DEF Spec, OnlyDepositsCreateRewards
<1>4. Spec => CooldownProtectsWithdrawal
  BY <1>2, StakingInvariant, PTL DEF Spec, CooldownProtectsWithdrawal
<1> QED
  BY <1>3, <1>4 DEF StakeCallsSound
=============================================================================
