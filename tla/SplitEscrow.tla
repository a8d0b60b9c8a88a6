----------------------------- MODULE SplitEscrow -----------------------------
(***************************************************************************)
(* The split-escrow contract (contracts/split-escrow): a creator opens an  *)
(* escrow with one obligation per participant, participants deposit        *)
(* towards their obligation, and the creator either releases the complete  *)
(* amount to the payee, minus the protocol fee, or cancels and refunds.    *)
(* The admin sets fee and treasury and can freeze all money movement; the  *)
(* freeze can only be lifted a fixed time after it was scheduled.          *)
(*                                                                         *)
(* A contract call is one transaction: an error or a panic reverts it, so  *)
(* an action stands for a successful call and its guards are the negations *)
(* of the early returns.  require_auth(x) is a signature of x on the       *)
(* transaction; the actions take the signer from the stored address.       *)
(* Addresses are 1..NumAddresses because Soroban iterates map keys in      *)
(* ascending order and release_funds depends on that order.  A missing map *)
(* entry reads as 0 in the code (unwrap_or(0)), so maps are total          *)
(* functions with default 0.                                               *)
(***************************************************************************)
EXTENDS Sums, FiniteSets

CONSTANTS
    NumAddresses,     \* number of accounts that call the contract
    MaxSplits,        \* bound on the number of escrows ever created
    MaxObligation,    \* bound on one participant's obligation
    Admins, Creators, Payees, Treasuries, Guests,
                      \* addresses passed as admin, creator, payee, treasury and
                      \* to the whitelist calls
    CapChoices,       \* max_participants values creators pass (the default included)
    FeeChoices,       \* fee_bps values the admin passes to set_fee
    Notes,            \* note texts within MAX_NOTE_LEN
    Metadatas,        \* metadata maps within the size limits
    Versions,         \* well-formed version strings
    InitialFunds,     \* token balance every account starts with
    TimelockSeconds,  \* UNPAUSE_TIMELOCK_SECONDS
    MaxTime           \* bound on the ledger timestamp

ASSUME EscrowConstants ==
    /\ NumAddresses \in Nat \ {0}
    /\ MaxSplits \in Nat
    /\ MaxObligation \in Nat
    /\ Admins \cup Creators \cup Treasuries \cup Guests \subseteq 1..NumAddresses
    /\ Payees \subseteq 0..NumAddresses
    /\ CapChoices \subseteq Nat
    /\ FeeChoices \subseteq Nat
    /\ Notes # {} /\ Metadatas # {}
    /\ InitialFunds \in Nat
    /\ TimelockSeconds \in Nat
    /\ MaxTime \in Nat

VARIABLES
    admin,            \* DataKey::Admin, None before initialize
    version,          \* DataKey::Version
    feeBps,           \* DataKey::FeeBps
    treasury,         \* DataKey::Treasury, None until set_treasury
    paused,           \* DataKey::Paused
    unpauseAt,        \* DataKey::UnpauseScheduledAt, NoTime when absent
    pausedSince,      \* history: when the current freeze began
    nextSplitId,      \* DataKey::NextSplitId
    splits,           \* DataKey::Split(id)
    whitelistEnabled, \* DataKey::WhitelistEnabled(id)
    whitelist,        \* DataKey::WhitelistMember(id, address)
    wallet,           \* the token contract's balance of every account
    vault,            \* the token contract's balance of this contract
    now               \* the ledger timestamp

adminVars  == <<admin, version, feeBps, treasury>>
pauseVars  == <<paused, unpauseAt, pausedSince>>
listVars   == <<whitelistEnabled, whitelist>>
tokenVars  == <<wallet, vault>>
escrowVars == <<adminVars, pauseVars, nextSplitId, splits, listVars, tokenVars, now>>

Address == 1..NumAddresses
SplitId == 1..MaxSplits
None    == 0
NoTime  == -1
MAX_BPS == 10000

Status == {"Absent", "Pending", "Ready", "Cancelled", "Released"}

\* The Split struct; "Absent" is a storage key that is not set.
Split == [creator          : Address \cup {None},
          payee            : Address \cup {None},
          total_amount     : Nat,
          deposited_amount : Nat,
          status           : Status,
          max_participants : Nat,
          participants     : SUBSET Address,
          balances         : [Address -> Nat],
          deposits         : [Address -> Nat],
          obligations      : [Address -> Nat],
          note             : Notes,
          metadata         : Metadatas,
          alerts           : [Address -> [half : Nat, full : Nat]]]

Nothing == [a \in Address |-> 0]

NoSplit == [creator |-> None, payee |-> None, total_amount |-> 0,
            deposited_amount |-> 0, status |-> "Absent", max_participants |-> 0,
            participants |-> {}, balances |-> Nothing, deposits |-> Nothing,
            obligations |-> Nothing,
            note |-> CHOOSE n \in Notes : TRUE,
            metadata |-> CHOOSE m \in Metadatas : TRUE,
            alerts |-> [a \in Address |-> [half |-> 0, full |-> 0]]]

Exists(id) == splits[id].status # "Absent"

\* The guard of the calls on live escrows; the first form overlooks Cancelled.
is_active_unless_released(id) == splits[id].status \in {"Pending", "Ready", "Cancelled"}
is_active(id) == splits[id].status \in {"Pending", "Ready"}

\* The freeze check of deposit, cancel_split and release_funds, missing and present.
require_nothing == TRUE
require_not_paused == ~paused

Init ==
    /\ admin = None /\ version = "unset" /\ feeBps = 0 /\ treasury = None
    /\ paused = FALSE /\ unpauseAt = NoTime /\ pausedSince = NoTime
    /\ nextSplitId = 1
    /\ splits = [id \in SplitId |-> NoSplit]
    /\ whitelistEnabled = [id \in SplitId |-> FALSE]
    /\ whitelist = [id \in SplitId |-> {}]
    /\ wallet = [a \in Address |-> InitialFunds]
    /\ vault = 0
    /\ now = 0

-----------------------------------------------------------------------------
(* Administration *)

initialize(caller, v) ==
    /\ admin = None
    /\ admin' = caller
    /\ feeBps' = 0
    /\ version' = v
    /\ UNCHANGED <<treasury, pauseVars, nextSplitId, splits, listVars, tokenVars, now>>

upgrade_version(v) ==
    /\ admin # None
    /\ version' = v
    /\ UNCHANGED <<admin, feeBps, treasury, pauseVars, nextSplitId, splits, listVars,
                   tokenVars, now>>

set_fee(bps) ==
    /\ admin # None
    /\ bps <= MAX_BPS
    /\ feeBps' = bps
    /\ UNCHANGED <<admin, version, treasury, pauseVars, nextSplitId, splits, listVars,
                   tokenVars, now>>

set_treasury(a) ==
    /\ admin # None
    /\ treasury' = a
    /\ UNCHANGED <<admin, version, feeBps, pauseVars, nextSplitId, splits, listVars,
                   tokenVars, now>>

-----------------------------------------------------------------------------
(* Emergency freeze *)

pause ==
    /\ admin # None
    /\ ~paused
    /\ paused' = TRUE
    /\ unpauseAt' = NoTime
    /\ pausedSince' = now
    /\ UNCHANGED <<adminVars, nextSplitId, splits, listVars, tokenVars, now>>

schedule_unpause ==
    /\ admin # None
    /\ paused
    /\ unpauseAt' = now + TimelockSeconds
    /\ UNCHANGED <<adminVars, paused, pausedSince, nextSplitId, splits, listVars,
                   tokenVars, now>>

\* As a slip would leave it: the elapsed-time comparison is missing.
unpause_without_wait ==
    /\ admin # None
    /\ paused
    /\ unpauseAt # NoTime
    /\ paused' = FALSE
    /\ unpauseAt' = NoTime
    /\ pausedSince' = NoTime
    /\ UNCHANGED <<adminVars, nextSplitId, splits, listVars, tokenVars, now>>

unpause ==
    /\ admin # None
    /\ paused
    /\ unpauseAt # NoTime
    /\ now >= unpauseAt
    /\ paused' = FALSE
    /\ unpauseAt' = NoTime
    /\ pausedSince' = NoTime
    /\ UNCHANGED <<adminVars, nextSplitId, splits, listVars, tokenVars, now>>

-----------------------------------------------------------------------------
(* Escrow life cycle *)

create_escrow(creator, obligations, total, cap, listed, note, metadata, payee) ==
    /\ admin # None
    /\ nextSplitId <= MaxSplits
    /\ total > 0
    /\ SumTo(obligations, NumAddresses) = total
    /\ splits' = [splits EXCEPT ![nextSplitId] =
                    [NoSplit EXCEPT !.creator = creator, !.payee = payee,
                                    !.total_amount = total, !.status = "Pending",
                                    !.max_participants = cap,
                                    !.obligations = obligations,
                                    !.note = note, !.metadata = metadata]]
    /\ whitelistEnabled' = [whitelistEnabled EXCEPT ![nextSplitId] = listed]
    /\ nextSplitId' = nextSplitId + 1
    /\ UNCHANGED <<adminVars, pauseVars, whitelist, tokenVars, now>>

set_note(id, note) ==
    /\ is_active(id)
    /\ splits' = [splits EXCEPT ![id].note = note]
    /\ UNCHANGED <<adminVars, pauseVars, nextSplitId, listVars, tokenVars, now>>

update_metadata(id, metadata) ==
    /\ is_active(id)
    /\ splits' = [splits EXCEPT ![id].metadata = metadata]
    /\ UNCHANGED <<adminVars, pauseVars, nextSplitId, listVars, tokenVars, now>>

add_to_whitelist(id, a) ==
    /\ Exists(id)
    /\ whitelist' = [whitelist EXCEPT ![id] = @ \cup {a}]
    /\ UNCHANGED <<adminVars, pauseVars, nextSplitId, splits, whitelistEnabled,
                   tokenVars, now>>

remove_from_whitelist(id, a) ==
    /\ Exists(id)
    /\ whitelist' = [whitelist EXCEPT ![id] = @ \ {a}]
    /\ UNCHANGED <<adminVars, pauseVars, nextSplitId, splits, whitelistEnabled,
                   tokenVars, now>>

toggle_whitelist(id, enabled) ==
    /\ Exists(id)
    /\ whitelistEnabled' = [whitelistEnabled EXCEPT ![id] = enabled]
    /\ UNCHANGED <<adminVars, pauseVars, nextSplitId, splits, whitelist, tokenVars, now>>

\* emit_deposit_thresholds: one event when half of the obligation is passed and
\* one when all of it is.  The first form would announce a level reached before.
CrossedOrAt(before, after, limit) == IF before <= limit /\ after >= limit THEN 1 ELSE 0
Crossed(before, after, limit) == IF before < limit /\ after >= limit THEN 1 ELSE 0

AlertsAfter(alert, before, after, obligation) ==
    [half |-> alert.half + Crossed(before, after, obligation \div 2),
     full |-> alert.full + Crossed(before, after, obligation)]

\* The per-participant limit, without and with the check of the code.
WithinObligationUnchecked(s, a, amount) == TRUE
WithinObligation(s, a, amount) == s.deposits[a] + amount <= s.obligations[a]

\* The participant cap; the first form admits one participant too many.
MayJoinOffByOne(s, a) ==
    a \notin s.participants => Cardinality(s.participants) <= s.max_participants
MayJoin(s, a) ==
    a \notin s.participants => Cardinality(s.participants) < s.max_participants

\* The updated record; the first form forgets what was deposited before.
AfterFirstDeposit(s, a, amount) ==
    [s EXCEPT !.participants = @ \cup {a},
              !.deposits[a] = @ + amount,
              !.balances[a] = amount,
              !.deposited_amount = @ + amount,
              !.status = IF s.deposited_amount + amount >= s.total_amount
                         THEN "Ready" ELSE "Pending",
              !.alerts[a] = AlertsAfter(@, s.deposits[a], s.deposits[a] + amount,
                                        s.obligations[a])]
AfterDeposit(s, a, amount) ==
    [s EXCEPT !.participants = @ \cup {a},
              !.deposits[a] = @ + amount,
              !.balances[a] = s.deposits[a] + amount,
              !.deposited_amount = @ + amount,
              !.status = IF s.deposited_amount + amount >= s.total_amount
                         THEN "Ready" ELSE "Pending",
              !.alerts[a] = AlertsAfter(@, s.deposits[a], s.deposits[a] + amount,
                                        s.obligations[a])]

deposit(id, a, amount) ==
    LET s == splits[id] IN
    /\ require_not_paused
    /\ amount > 0
    /\ s.status = "Pending"
    /\ whitelistEnabled[id] => a \in whitelist[id]
    /\ s.obligations[a] > 0
    /\ s.deposited_amount + amount <= s.total_amount
    /\ WithinObligation(s, a, amount)
    /\ MayJoin(s, a)
    /\ amount <= wallet[a]
    /\ wallet' = [wallet EXCEPT ![a] = @ - amount]
    /\ vault' = vault + amount
    /\ splits' = [splits EXCEPT ![id] = AfterDeposit(s, a, amount)]
    /\ UNCHANGED <<adminVars, pauseVars, nextSplitId, listVars, now>>

\* What the refund loop pays: the balance of every address in participants.
\* The first form stops one participant early.
RefundAllButLast(s) ==
    [a \in Address |-> IF a \in s.participants /\ \E b \in s.participants : b > a
                       THEN s.balances[a] ELSE 0]
Refund(s) == [a \in Address |-> IF a \in s.participants THEN s.balances[a] ELSE 0]

\* reverse_split is an alias of this entry point.
cancel_split(id) ==
    LET s == splits[id]
        refund == Refund(s)
    IN
    /\ require_not_paused
    /\ is_active(id)
    /\ SumTo(refund, NumAddresses) <= vault
    /\ wallet' = [a \in Address |-> wallet[a] + refund[a]]
    /\ vault' = vault - SumTo(refund, NumAddresses)
    /\ splits' = [splits EXCEPT ![id] =
                    [s EXCEPT !.balances = [a \in Address |-> @[a] - refund[a]],
                              !.deposits = [a \in Address |->
                                              IF refund[a] > 0 THEN 0 ELSE @[a]],
                              !.participants = {},
                              !.deposited_amount = 0,
                              !.status = "Cancelled"]]
    /\ UNCHANGED <<adminVars, pauseVars, nextSplitId, listVars, now>>

-----------------------------------------------------------------------------
(* Settlement *)

calculate_fee(total, bps) == (total * bps) \div MAX_BPS

Payee(s) == IF s.payee = None THEN s.creator ELSE s.payee

\* Pro-rata share of every obligor, rounded down.
ProRata(s, net) ==
    [a \in Address |-> (s.obligations[a] * net) \div s.deposited_amount]

\* The last key of the obligations map, in iteration order.
LastObligor(s) ==
    CHOOSE a \in Address : /\ s.obligations[a] > 0
                           /\ \A b \in Address : s.obligations[b] > 0 => b <= a

\* As a slip would leave it: the last obligor gets its pro-rata share as well.
SharesWithDust(s, net) == ProRata(s, net)

\* The shares of the distribution loop: the last key absorbs the remainder.
Shares(s, net) ==
    LET last == LastObligor(s)
    IN  [a \in Address |-> IF a = last THEN net - SumTo(ProRata(s, net), last - 1)
                                       ELSE ProRata(s, net)[a]]

\* A share is transferred only when it is positive.
Transfers(s, net) ==
    [a \in Address |-> IF Shares(s, net)[a] > 0 THEN Shares(s, net)[a] ELSE 0]

Credit(w, a, amount) == [w EXCEPT ![a] = @ + amount]

release_funds(id) ==
    LET s == splits[id]
        total == s.deposited_amount
        fee == calculate_fee(total, feeBps)
        paid == SumTo(Transfers(s, total - fee), NumAddresses)
    IN
    /\ require_not_paused
    /\ s.status = "Ready"
    /\ treasury # None
    /\ fee + paid <= vault
    /\ wallet' = Credit(Credit(wallet, treasury, fee), Payee(s), paid)
    /\ vault' = vault - fee - paid
    /\ splits' = [splits EXCEPT ![id].status = "Released"]
    /\ UNCHANGED <<adminVars, pauseVars, nextSplitId, listVars, now>>

-----------------------------------------------------------------------------
\* Ledgers close: time passes.
Tick ==
    /\ now < MaxTime
    /\ now' = now + 1
    /\ UNCHANGED <<adminVars, pauseVars, nextSplitId, splits, listVars, tokenVars>>

AdminNext ==
    \/ \E a \in Admins, v \in Versions : initialize(a, v)
    \/ \E v \in Versions : upgrade_version(v)
    \/ \E bps \in FeeChoices : set_fee(bps)
    \/ \E a \in Treasuries : set_treasury(a)
    \/ pause
    \/ schedule_unpause
    \/ unpause

CreateNext ==
    \E creator \in Creators, payee \in Payees, cap \in CapChoices,
       obligations \in [Address -> 0..MaxObligation], listed \in BOOLEAN,
       note \in Notes, metadata \in Metadatas :
         create_escrow(creator, obligations, SumTo(obligations, NumAddresses), cap,
                       listed, note, metadata, payee)

EditNext ==
    \E id \in SplitId :
       \/ \E note \in Notes : set_note(id, note)
       \/ \E metadata \in Metadatas : update_metadata(id, metadata)
       \/ \E a \in Guests : add_to_whitelist(id, a)
       \/ \E a \in Guests : remove_from_whitelist(id, a)
       \/ \E enabled \in BOOLEAN : toggle_whitelist(id, enabled)

MoneyNext ==
    \E id \in SplitId :
       \/ \E a \in Address, amount \in 1..MaxObligation : deposit(id, a, amount)
       \/ cancel_split(id)
       \/ release_funds(id)

Next == AdminNext \/ CreateNext \/ EditNext \/ MoneyNext \/ Tick

Spec == Init /\ [][Next]_escrowVars

-----------------------------------------------------------------------------
(* Properties *)

\* Every storage entry keeps its type; token balances never go below zero.
TypeOK ==
    /\ admin \in Address \cup {None}
    /\ version \in Versions \cup {"unset"}
    /\ feeBps \in 0..MAX_BPS
    /\ treasury \in Address \cup {None}
    /\ paused \in BOOLEAN
    /\ unpauseAt \in Nat \cup {NoTime}
    /\ pausedSince \in Nat \cup {NoTime}
    /\ nextSplitId \in 1..(MaxSplits + 1)
    /\ splits \in [SplitId -> Split]
    /\ whitelistEnabled \in [SplitId -> BOOLEAN]
    /\ whitelist \in [SplitId -> SUBSET Address]
    /\ wallet \in [Address -> Nat]
    /\ vault \in Nat
    /\ now \in Nat

\* What the contract owes on behalf of split id.
Held == [id \in SplitId |-> IF is_active(id) THEN splits[id].deposited_amount ELSE 0]

\* The contract's token balance is exactly what the active escrows hold: no
\* refund or release leaves dust behind, pays twice or eats into another
\* split's deposits (deposit, cancel_split, release_funds, collect_fee).
VaultMatchesEscrows == vault = SumTo(Held, MaxSplits)

\* In every split the per-participant balances (refund base), the deposits
\* (base of the obligation check) and deposited_amount (base of the Ready
\* check) tell the same story, and no balance exceeds its obligation.
BooksAgree ==
    \A id \in SplitId :
        LET s == splits[id] IN
        /\ s.balances = s.deposits
        /\ SumTo(s.balances, NumAddresses) = s.deposited_amount
        /\ \A a \in Address : s.balances[a] <= s.obligations[a]

\* The comment in release_funds: once Ready, every participant's balance is
\* exactly its obligation, so paying by obligations is paying by balances.
ReadyIsFullyFunded ==
    \A id \in SplitId :
        splits[id].status \in {"Ready", "Released"} =>
            splits[id].balances = splits[id].obligations

\* The refund loop walks participants: nobody with a balance is missing from
\* it, and the participant cap holds.
RefundReachesEveryone ==
    \A id \in SplitId :
        LET s == splits[id] IN
        /\ \A a \in Address : s.balances[a] > 0 /\ is_active(id) => a \in s.participants
        /\ Cardinality(s.participants) <= s.max_participants

\* Over any sequence of partial deposits a participant is announced as fully
\* paid exactly once, and as half paid at most once and never without the
\* half being there (emit_deposit_thresholds).
AlertsOnce ==
    \A id \in SplitId, a \in Address :
        LET s == splits[id] IN
        is_active(id) =>
            /\ s.alerts[a].full = IF s.obligations[a] > 0 /\ s.deposits[a] = s.obligations[a]
                                  THEN 1 ELSE 0
            /\ s.alerts[a].half = IF s.obligations[a] > 1
                                     /\ s.deposits[a] >= s.obligations[a] \div 2
                                  THEN 1 ELSE 0

\* A cap below the number of obligors silently makes a split unreleasable:
\* such a split can only ever be cancelled (create_escrow does not compare them).
CapBlocksRelease ==
    \A id \in SplitId :
        Cardinality({a \in Address : splits[id].obligations[a] > 0})
              > splits[id].max_participants
          => splits[id].status \in {"Absent", "Pending", "Cancelled"}

\* Released and Cancelled are final: no call changes such a split again.
TerminalIsFinal ==
    [][\A id \in SplitId :
         splits[id].status \in {"Released", "Cancelled"} => splits'[id] = splits[id]]_escrowVars

\* While the freeze is on no token moves and no split changes status
\* (pause "halts deposit, release_funds and cancel_split").
FreezeHaltsMoney ==
    [][paused => /\ vault' = vault /\ wallet' = wallet
                 /\ \A id \in SplitId :
                      Exists(id) => splits'[id].status = splits[id].status]_escrowVars

\* A freeze lasts at least the full timelock, counted from the freeze itself
\* (pause discards any pending schedule; unpause waits for a new one).
FreezeLastsTimelock ==
    [][paused /\ ~paused' => now >= pausedSince + TimelockSeconds]_escrowVars

\* Cancelling gives everyone back exactly what they put in.
CancelRefundsDeposits ==
    [][\A id \in SplitId :
         is_active(id) /\ splits'[id].status = "Cancelled" =>
            \A a \in Address : wallet'[a] = wallet[a] + splits[id].deposits[a]]_escrowVars

\* A release pays the whole escrow out: the fee, rounded down, to the treasury
\* and everything else to the payee, nobody else's balance moving.
ReleasePaysNetToPayee ==
    [][\A id \in SplitId :
         splits[id].status = "Ready" /\ splits'[id].status = "Released" =>
            LET s == splits[id]
                fee == (s.total_amount * feeBps) \div MAX_BPS
            IN  \A a \in Address :
                  wallet'[a] = wallet[a] + (IF a = treasury THEN fee ELSE 0)
                                 + (IF a = Payee(s) THEN s.total_amount - fee ELSE 0)]_escrowVars

-----------------------------------------------------------------------------
(* What the runs check, with the parts above *)

\* Through partial deposits, caps, fees that do not divide, refunds and releases in any
\* order: the vault holds exactly what the active escrows hold, the three records of a
\* deposit agree, Ready means every obligation is met, and a refund reaches everyone.
EscrowBooks == VaultMatchesEscrows /\ BooksAgree /\ ReadyIsFullyFunded /\ RefundReachesEveryone

\* Threshold alerts come once, and a cap that is too low blocks the release for good.
AlertsAndCaps == AlertsOnce /\ CapBlocksRelease

\* A settled escrow stays as it is, a refund gives everyone back their deposits, and a
\* release pays the fee to the treasury and all the rest to the payee.
SettlementSound == TerminalIsFinal /\ CancelRefundsDeposits /\ ReleasePaysNetToPayee

\* The freeze halts all money, and lasts a full timelock through any sequence of pauses
\* and schedules.
FreezeHolds == FreezeHaltsMoney /\ FreezeLastsTimelock
=============================================================================
