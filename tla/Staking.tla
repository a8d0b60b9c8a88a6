------------------------------- MODULE Staking -------------------------------
(***************************************************************************)
(* The staking contract (contracts/staking): accounts stake tokens, unstake *)
(* them through a cooldown, delegate voting power and earn a share of the  *)
(* rewards the admin deposits.  Rewards are accounted by a global index    *)
(* (rewards per staked token, scaled) and settled per staker whenever      *)
(* update_staker_rewards runs.  A failing call reverts, so every action is *)
(* a successful call.  One token contract backs stakes and rewards.        *)
(***************************************************************************)
EXTENDS Sums

CONSTANTS
    NumAddresses,  \* accounts are 1..NumAddresses
    StakeAmounts,  \* amounts passed to stake and unstake
    RewardAmounts, \* amounts passed to deposit_rewards
    SCALE,         \* scaling_factor (10^12 in the code)
    Cooldown,      \* the cooldown of unstake (604800 seconds in the code)
    InitialFunds,  \* token balance every account starts with
    MaxIndex,      \* bound on the reward index
    MaxTime        \* bound on the ledger timestamp

ASSUME StakingConstants ==
    /\ NumAddresses \in Nat
    /\ StakeAmounts \subseteq Nat \ {0}
    /\ RewardAmounts \subseteq Nat \ {0}
    /\ SCALE \in Nat \ {0}
    /\ Cooldown \in Nat
    /\ InitialFunds \in Nat
    /\ MaxIndex \in Nat
    /\ MaxTime \in Nat

VARIABLES
    admin,        \* DataKey::Admin, None before initialize
    index,        \* DataKey::RewardIndex
    totalStaked,  \* DataKey::TotalStaked
    stakers,      \* DataKey::Staker(address)
    delegated,    \* DataKey::DelegatedAmount(address)
    wallet,       \* the token contract's balance of every account
    pot,          \* the token contract's balance of this contract
    now           \* the ledger timestamp

stakingVars == <<admin, index, totalStaked, stakers, delegated, wallet, pot, now>>

Address == 1..NumAddresses
None    == 0

\* StakerInfo; known is FALSE while the storage key is not set.
StakerInfo == [known : BOOLEAN, amount : Nat, pending_withdrawal : Nat, unlock_time : Nat,
               last_reward_index : Nat, accumulated_rewards : Nat,
               delegated_to : Address \cup {None}]

NoStaker == [known |-> FALSE, amount |-> 0, pending_withdrawal |-> 0, unlock_time |-> 0,
             last_reward_index |-> 0, accumulated_rewards |-> 0, delegated_to |-> None]

Init ==
    /\ admin = None /\ index = 0 /\ totalStaked = 0
    /\ stakers = [a \in Address |-> NoStaker]
    /\ delegated = [a \in Address |-> 0]
    /\ wallet = [a \in Address |-> InitialFunds]
    /\ pot = 0
    /\ now = 0

-----------------------------------------------------------------------------
(* Helpers *)

Earned(info) == (info.amount * (index - info.last_reward_index)) \div SCALE

\* update_staker_rewards: the record it stores.
update_staker_rewards(info) ==
    IF info.known /\ info.last_reward_index < index
    THEN [info EXCEPT !.accumulated_rewards = @ + Earned(info),
                      !.last_reward_index = index]
    ELSE info

\* The record a first stake starts from; the first form has it earn from the
\* very beginning of the index.
FreshStakerFromZero == [NoStaker EXCEPT !.known = TRUE]
FreshStaker == [NoStaker EXCEPT !.known = TRUE, !.last_reward_index = index]

\* Adjust the amount delegated to d, if there is a d.
DelegateDelta(del, d, delta) ==
    IF d = None THEN del ELSE [del EXCEPT ![d] = @ + delta]

\* What unstaking takes off the delegatee's total; the first form forgets it.
KeepDelegated(d, amount) == delegated
Undelegate(d, amount) == DelegateDelta(delegated, d, -amount)

\* The token transfer out of the contract fails, and the call with it, when the
\* contract's balance is short.
PayOut(a, amount) ==
    /\ amount <= pot
    /\ wallet' = [wallet EXCEPT ![a] = @ + amount]
    /\ pot' = pot - amount

\* The share of a deposit per staked token; the first form rounds up.
IndexIncreaseRoundedUp(amount) == (amount * SCALE + totalStaked - 1) \div totalStaked
IndexIncrease(amount) == (amount * SCALE) \div totalStaked

-----------------------------------------------------------------------------
(* Entry points *)

initialize(a) ==
    /\ admin = None
    /\ admin' = a
    /\ index' = 0 /\ totalStaked' = 0
    /\ UNCHANGED <<stakers, delegated, wallet, pot, now>>

stake(a, amount) ==
    LET updated == update_staker_rewards(stakers[a])
        info == IF updated.known THEN updated ELSE FreshStaker
    IN
    /\ admin # None
    /\ amount <= wallet[a]
    /\ wallet' = [wallet EXCEPT ![a] = @ - amount]
    /\ pot' = pot + amount
    /\ stakers' = [stakers EXCEPT ![a] = [info EXCEPT !.amount = @ + amount]]
    /\ totalStaked' = totalStaked + amount
    /\ delegated' = DelegateDelta(delegated, info.delegated_to, amount)
    /\ UNCHANGED <<admin, index, now>>

\* The record is read before update_staker_rewards stores the settled one, and
\* the copy read first is what gets written back: the settlement is lost.
unstake(a, amount) ==
    LET info == stakers[a] IN
    /\ info.known
    /\ amount <= info.amount
    /\ stakers' = [stakers EXCEPT ![a] =
                     [info EXCEPT !.amount = @ - amount,
                                  !.pending_withdrawal = @ + amount,
                                  !.unlock_time = now + Cooldown]]
    /\ totalStaked' = totalStaked - amount
    /\ delegated' = Undelegate(info.delegated_to, amount)
    /\ UNCHANGED <<admin, index, wallet, pot, now>>

claim_staking_rewards(a) ==
    LET info == update_staker_rewards(stakers[a])
        rewards == info.accumulated_rewards
    IN
    /\ info.known
    /\ rewards > 0
    /\ stakers' = [stakers EXCEPT ![a] = [info EXCEPT !.accumulated_rewards = 0]]
    /\ PayOut(a, rewards)
    /\ UNCHANGED <<admin, index, totalStaked, delegated, now>>

delegate_voting_power(a, d) ==
    LET info == stakers[a]
        removed == DelegateDelta(delegated, info.delegated_to, -info.amount)
    IN
    /\ info.known
    /\ delegated' = DelegateDelta(removed, d, info.amount)
    /\ stakers' = [stakers EXCEPT ![a].delegated_to = d]
    /\ UNCHANGED <<admin, index, totalStaked, wallet, pot, now>>

\* The first form pays out without waiting.
CooldownIgnored(info) == TRUE
CooldownOver(info) == now >= info.unlock_time

Withdrawal(a) ==
    LET info == stakers[a] IN
    /\ info.known
    /\ info.pending_withdrawal > 0
    /\ CooldownOver(info)
    /\ stakers' = [stakers EXCEPT ![a].pending_withdrawal = 0, ![a].unlock_time = 0]
    /\ PayOut(a, info.pending_withdrawal)

\* withdraw that takes the amount off the total a second time, after unstake did.
withdraw_counted_twice(a) ==
    /\ Withdrawal(a)
    /\ totalStaked' = totalStaked - stakers[a].pending_withdrawal
    /\ UNCHANGED <<admin, index, delegated, now>>

withdraw(a) ==
    /\ Withdrawal(a)
    /\ UNCHANGED <<admin, index, totalStaked, delegated, now>>

deposit_rewards(amount) ==
    /\ admin # None
    /\ totalStaked # 0
    /\ amount <= wallet[admin]
    /\ index + IndexIncrease(amount) <= MaxIndex
    /\ wallet' = [wallet EXCEPT ![admin] = @ - amount]
    /\ pot' = pot + amount
    /\ index' = index + IndexIncrease(amount)
    /\ UNCHANGED <<admin, totalStaked, stakers, delegated, now>>

get_voting_power(a) == stakers[a].amount + delegated[a]

Tick ==
    /\ now < MaxTime
    /\ now' = now + 1
    /\ UNCHANGED <<admin, index, totalStaked, stakers, delegated, wallet, pot>>

Next ==
    \/ \E a \in Address : \/ initialize(a)
                          \/ \E amount \in StakeAmounts : stake(a, amount) \/ unstake(a, amount)
                          \/ claim_staking_rewards(a)
                          \/ \E d \in Address \cup {None} : delegate_voting_power(a, d)
                          \/ withdraw(a)
    \/ \E amount \in RewardAmounts : deposit_rewards(amount)
    \/ Tick

Spec == Init /\ [][Next]_stakingVars

-----------------------------------------------------------------------------
(* Properties *)

\* Every storage entry keeps its type; no amount ever goes below zero.
TypeOK ==
    /\ admin \in Address \cup {None}
    /\ index \in Nat
    /\ totalStaked \in Nat
    /\ stakers \in [Address -> StakerInfo]
    /\ delegated \in [Address -> Nat]
    /\ wallet \in [Address -> Nat]
    /\ pot \in Nat
    /\ now \in Nat

Amounts == [a \in Address |-> stakers[a].amount]

\* The stored total is the sum of the stakes (stake, unstake): it is the
\* divisor of every reward deposit.
TotalIsSumOfStakes == totalStaked = SumTo(Amounts, NumAddresses)

AmountsFor(d) == [a \in Address |-> IF stakers[a].delegated_to = d THEN stakers[a].amount ELSE 0]

\* The voting power of an account is its stake and its delegators' present stakes,
\* through stakes, unstakes, changed and withdrawn delegations in any order.
DelegationsMatchStakes ==
    \A d \in Address :
        get_voting_power(d) = stakers[d].amount + SumTo(AmountsFor(d), NumAddresses)

\* What a staker could claim now.
Entitlement(a) == stakers[a].accumulated_rewards + Earned(stakers[a])

Claims == [a \in Address |-> stakers[a].amount + stakers[a].pending_withdrawal + Entitlement(a)]

\* The contract can pay all stakes, all pending withdrawals and all rewards at
\* once: rounding never promises more than was deposited.
Solvent == SumTo(Claims, NumAddresses) <= pot

\* Nobody's claim to rewards grows except when rewards are deposited: a new or
\* returning staker earns nothing from deposits made before the stake.
OnlyDepositsCreateRewards ==
    [][\A a \in Address : Entitlement(a)' > Entitlement(a) => index' > index]_stakingVars

\* Tokens that were unstaked leave the contract only as a whole and only a full
\* cooldown after the last unstake of the account; until then the unlock time
\* never moves closer.
CooldownProtectsWithdrawal ==
    [][\A a \in Address :
         /\ stakers[a].pending_withdrawal > 0 =>
              \/ stakers'[a].pending_withdrawal = 0 /\ now >= stakers[a].unlock_time
                   /\ wallet'[a] = wallet[a] + stakers[a].pending_withdrawal
              \/ stakers'[a].pending_withdrawal >= stakers[a].pending_withdrawal
                   /\ stakers'[a].unlock_time >= stakers[a].unlock_time
         /\ stakers'[a].pending_withdrawal > stakers[a].pending_withdrawal =>
              stakers'[a].unlock_time = now + Cooldown]_stakingVars

\* Through stakes, delegations, claims and withdrawals in any order: the divisor of
\* every reward and the voting power are what the stakes say, and the contract can pay
\* everyone at once.
StakeBooks == TypeOK /\ TotalIsSumOfStakes /\ DelegationsMatchStakes /\ Solvent

\* Only a deposit creates rewards, and only a whole cooldown releases what was unstaked.
StakeCallsSound == OnlyDepositsCreateRewards /\ CooldownProtectsWithdrawal
=============================================================================
