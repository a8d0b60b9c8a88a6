# StellarSplit in TLA+

Specifications of StellarSplit's core logic, the TLC instances that check them and
TLAPS proofs of what matters most. StellarSplit splits bills: a backend (NestJS,
PostgreSQL, Bull queues) records splits, participants and Stellar payments, and a set
of Soroban contracts (Rust) holds money in escrow, settles disputes, pays staking
rewards, lends and converts.

## 1. The system

### Parts that carry state

| part | state | operations | talks to |
|---|---|---|---|
| split-escrow contract | admin, fee, treasury, freeze; per escrow a record with participants, balances, deposits, obligations, status; whitelist | create, deposit, cancel, release, note, metadata, whitelist, fee, treasury, pause / schedule / unpause | the token contract, in the same transaction |
| dispute-resolution contract | admin, disputes with two tallies and a voter list | initialize, raise, vote, resolve | calls cancel or release of the escrow contract inside `resolve_dispute` |
| staking contract | reward index, total, one record per staker, delegated totals | stake, unstake, withdraw, claim, delegate, deposit rewards | the token contract |
| multi-sig-splits contract | signers, threshold, signatures and their count, time lock | create, sign, add and remove signers, change the threshold, execute, cancel, override | nobody |
| flash-loan contract | fee rate, loan record, guard, pool | lend with a callback, repay | the borrower's contract, token contract |
| path-payment contract | registered pairs, rates, router, intents | register, find path, execute | the swap router |
| split-template contract | templates, name index, creators' lists | create, use | nobody |
| payment processing | participants, splits, payments, reputation events | `processPaymentSubmission`, from clients and from the Horizon poller | Horizon, the multi-currency service, the split's freeze flag |
| disputes (backend) | dispute rows with an audit trail, `splits.isFrozen` | file, evidence, collect, review, request, resolve, reject, appeal | blockchain client; the freeze that payment processing reads |
| reconciliation and settlement | `payments.settlementStatus`, attempts, two queues | two cron jobs, a queue worker, manual review, the settlement job | Horizon, participants, splits |
| Horizon poller | one cursor per account | a cron job every minute | Horizon, payment processing |
| recurring splits | template with its next occurrence | two schedulers, the owner's calls | splits, participants |
| batches, webhooks, exports, OCR | a row each, jobs in a Bull queue | queue runs with attempts, cancel, retry | splits; receivers; files; recognition |
| invitations, short links, idempotency records | a row each with a counter or an answer | HTTP handlers | participants, users |
| governance | proposals with tallies, votes | vote, finalize, execute, veto | nobody |
| collaboration | one row per track and artist with a share and an audit log | invite, answer, remove | artists |
| archiving | archives of splits | archive (by hand or on expiry), restore | splits, participants, payments, reputation |
| debt simplification | none (a cache of results) | netting of a group's debts | participants, splits |

`PROJECT.json` lists every part, with the ones that are not modelled and why.

### What is hard about it

* **Contracts.** Calls are transactions, so the hard part is not atomicity but the
  long run: rounding dust, several escrows behind one token balance, books kept
  three times (balances, deposits, deposited amount), windows and timelocks that
  meet at one tick, a dispute contract that does not lock the escrow it decides
  about, a reward index settled lazily, signatures that outlive their signers.
* **Backend.** Every handler is a sequence of awaits. Payment processing looks for
  duplicates before it takes a lock, then holds two row locks over calls to other
  services; almost every other service takes none, reads a row, and saves the whole
  row some statements later over whatever was written meanwhile. Processes die between
  two awaits; Bull runs a job again after a failure or a stall; cron jobs overlap
  themselves. Services meet in shared rows: `isFrozen`, participants, payments.

### What makes each part correct

* **Escrow**: the contract's tokens are exactly what active escrows are owed; the
  three books agree; Ready means every obligation is met; a refund returns what was
  deposited; a release pays fee and rest and leaves no dust; final states are
  final; a freeze stops money and lasts its timelock.
* **Dispute contract**: one vote per account; no vote after the window; a recorded
  outcome is what the tallies say and what happened to the escrow; one resolution
  per escrow; the escrow's own guarantees are untouched.
* **Staking**: the total is the sum of the stakes; voting power is own stake plus
  delegated stakes; the contract can pay every claim at once; rewards come from
  deposits only; the cooldown holds.
* **Other contracts**: an execution had its quorum; the loan pool never shrinks; a
  payable path is found and is a shortest one; the stores of templates agree.
* **Payments**: a submission is entered once per key, whole, never into a frozen split
  and never over another's amount; the split's total follows; every submission ends; a
  verdict of reconciliation has a cause and is reached; no record of Horizon is passed
  over.
* **Backend disputes**: a split is frozen exactly while disputed; statuses follow
  the state machine; the audit trail is complete; nothing is settled unreviewed.
* **Jobs and requests**: what is due happens, at least once; what a status claims
  exists; limits leak only by as much as calls raced; archives lose nothing that did
  not race them.

## 2. Modules

```
Sums <- SplitEscrow <- DisputeResolution                    (composition, escrow unchanged)
Sums <- Staking
Sums <- PaymentLedger                                       (abstract)
Sums <- PaymentProcessing --implements--> PaymentLedger
PaymentProcessing + BackendDisputes <- PaymentsDisputed --implements--> PaymentProcessing
PaymentReconciliation
MultiSigSplits, FlashLoan, PathPayment, SplitTemplate       <- MCContracts
RecurringSplits, OcrJobs, HorizonPoller                     <- MCSchedules
Invitations, ShortLinks, Idempotency, Archiving,
DebtSimplification, Collaboration, BackendDisputes          <- MCRequests
BatchJobs, WebhookDelivery, ExportJobs, Governance          <- MCQueues

SumsProofs <- SplitEscrowProofs <- DisputeResolutionProofs
SumsProofs <- StakingProofs
SumsProofs <- ContractProofs        (the four of MCContracts)
SumsProofs <- PaymentProofs         (ledger, payments, payments with disputes)
SumsProofs <- RequestProofs         (the seven of MCRequests)
SumsProofs <- JobProofs             (PaymentReconciliation, those of MCSchedules and MCQueues)
```

Each `MC...` module extends one or several of these and gives the configurations their
values.

| module | models | how it corresponds |
|---|---|---|
| `Sums` | `SumTo(f, n)`, the sum of `f[1..n]`, as a recursive function (no RECURSIVE operator, so it can be proved about) | helper |
| `SplitEscrow` | `contracts/split-escrow` | one variable per storage key, one action per entry point; guards are the negated early returns |
| `DisputeResolution` | `contracts/dispute-resolution`, EXTENDS `SplitEscrow` | `resolve_dispute` contains the escrow call; every escrow action stays available |
| `Staking`, `MultiSigSplits`, `SplitTemplate` | the contracts of these names | as above |
| `FlashLoan` | `contracts/flash-loan` | a loan is one transaction of several steps, with the callback as any transfers of tokens in between; a failure restores what was there before |
| `PathPayment` | `contracts/path-payment` | the breadth-first search is a recursive function over the queue, compared with the definition of distance |
| `PaymentLedger` | what `docs/payment-system.md` promises | abstract: a payment is entered in one step or not at all |
| `PaymentProcessing` | `payment-processor.service.ts` and what a submission waits for in `multi-currency.service.ts` | one action per await; `pc[r]` says which; row locks are variables |
| `BackendDisputes` | `disputes.service.ts`, `dispute.state-machine.ts` | a handler is load, save, and for two operations a second save after the blockchain call |
| `PaymentsDisputed` | both over one `isFrozen` | a dispute's update of the split waits for the submission that holds the row |
| `PaymentReconciliation` | `payment-reconciliation.service.ts`, its queue processor, `payment-settlement.processor.ts` | one action per await of a worker; cron jobs, the review and the settlement job beside it |
| `HorizonPoller` | `horizon-poller.service.ts` | one action per await of a poll; polls overlap |
| `RecurringSplits` | `recurring-splits` service and scheduler | a generation is three inserts or saves; schedulers and the owner hold whole rows |
| `OcrJobs`, `ExportJobs`, `BatchJobs`, `WebhookDelivery` | the services, their entities and queue processors | the row, the queue's job, the run, and the calls that cancel, retry, expire or change it |
| `Invitations`, `ShortLinks`, `Idempotency` | the services and the interceptor | one action per statement of a request |
| `Governance` | `governance.service.ts` | calls load a proposal with its votes and save it whole |
| `Archiving` | `archiving.service.ts` | one action per statement of a transaction, against payments that commit meanwhile |
| `Collaboration` | `collaboration.service.ts` | a request is its reads and checks, then its save; the row it read is its local state |
| `DebtSimplification` | `debt-graph.service.ts` | one action per debt read and per transfer chosen |

Conventions. Names are the code's where TLA+ allows it. A definition that stands next
to a second one with a qualified name (`AfterDeposit` and `AfterFirstDeposit`) has a
variant: the form a plausible slip would give it. The specification never uses a
variant; replacing the definition by it must break the property the pair is there
for, which shows that the property depends on that line of code.

### Modelling decisions

* **A contract call** is one action. An error or a panic reverts it, so only
  successful calls are steps. Integer overflow reverts too (`overflow-checks = true`)
  and is left out. `require_auth` becomes "the signer is the stored address".
* **Addresses** of the escrow are `1..NumAddresses`: the release loop walks a Soroban map
  in key order and gives the remainder to the last key. A missing map entry reads as 0, so
  maps are total functions.
* **Direct token transfers** to the escrow, outside its entry points, are not
  modelled; `VaultMatchesEscrows` is an equality because of it.
* **The ledger clock** ticks up to a bound. `generate_dispute_id` hashes the split
  name and the ledger sequence; the model has the pair itself.
* **History variables** (`pausedSince`, `performed`, `reviewed`, `tried`, `settled` and the
  like) are marked as such where they are declared; nothing the code does depends on them.
* **PostgreSQL** runs at READ COMMITTED. Writes of a submission appear at its commit; a
  locking read waits for the holder; the unique index on the key makes a second
  insert wait for the first transaction and then fails it. `Store` stands for the
  insert and the two updates behind it, `Commit` for the rest of the transaction.
  The foreign key from a payment to its participant is the one the entity declares.
* **Decimal columns.** The PostgreSQL driver returns `decimal` as text, and
  `amountPaid + amount` then appends digits. `DecimalsAreText` selects that or the
  numbers that the code and its unit tests take them for; see section 5. On texts
  the model's comparison assumes amounts below 10.00, where the two orders agree.
  `PercentagesAreText` is the same choice for the shares of a collaboration.
* **TypeORM's `save`** writes the whole loaded object back: a stale copy overwrites
  newer columns, and one of a deleted row inserts it again. `update` writes its columns.
* **Bull** runs a job up to its attempts, again after a stall, keeps the job of a failed
  run under its id, and ignores an `add` with an id it still knows.
* **Evidence rows, events, listeners, formatting and who may call** are left out.

## 3. Runs

Bounds are in the `.cfg` files. `CHECK_DEADLOCK FALSE` is set where a finite number of
calls, a clock bound or finished requests end a behaviour: the programs too may be left
alone for good. `Contracts`, `Requests` and `Queues` use symmetry over callers or assets
that no definition tells apart; they check no liveness. `Contracts`, `Schedules`,
`Requests` and `Queues` put services that share nothing into one instance, and `focus`
gives the whole behaviour to one of them.

| run | question | instance and why it is enough |
|---|---|---|
| `escrow_money` | do books, vault, refunds, releases and caps agree at every step, and are settled escrows final? | 3 accounts, obligations 0..2, one escrow, caps 2 and 3, fee 33.33% (rounds every share) and 200% (must be rejected). Three obligors are the fewest where "last" differs from both "first" and "not first"; caps 2 and 3 lie below and at their number. The timelock is 0 here: the freeze is `disputes`' and the proofs'. |
| `disputes` | tallies, windows, outcomes, the freeze; is the composition still an escrow? | 2 disputes about one escrow, 3 voting accounts, one of them the admin whose votes are refused (so wins by one and two votes, ties at 0 and 1), window and timelock of 1 tick, clock to 3. `EscrowRefined` is the specification of `SplitEscrow` as a property. |
| `staking` | books, solvency, cooldown in every order of calls | 2 accounts, stakes 1 and 2, scale 4 (3 staked tokens do not divide it), index up to 4, clock to 2 with a cooldown of 1 |
| `payment_races` | do concurrent submissions implement the ledger, without waiting for each other in a circle, and are callers told the truth? | 4 submissions of one split: a duplicate pair under one key, a second payment of the same participant, a path payment of the other one; freezing, thawing, crashes at every await. Numbers. |
| `payment_twice` | violation: is a transaction credited once? | a client and the poller submit one transaction |
| `payments_disputed` | do payments and disputes surprise each other; does every submission end? | 3 submissions in 2 splits, one key used in both and a participant looked for in the wrong split; one dispute with 5 actions: filed, reviewed, settled, appealed, reviewed again. Text. |
| `reconciliation` | do verdicts have a cause, and does every payment settle? | one payment (the jobs never look at two together, but for the batch of the cron job), 2 workers, 2 attempts, one queued job beside those that run, 2 faults of any kind |
| `contracts` | the four smaller contracts | thresholds 0..2 of two signatories with every lock from past to future; loans up to the whole pool, two borrowers, callbacks that move tokens; all graphs of at most 3 pairs over 3 assets with paths of 2; two creators of one name with uses 1 and unlimited |
| `schedules` | is anything that is due passed over, or any record of Horizon? do scans say what they found? | 3 days, an overlapping manual trigger, 3 owner's calls; 2 queue jobs of one scan with 2 attempts; 2 overlapping polls over 3 records in pages of 2, 2 failures |
| `requests` | what do limits, answers, archives, audit logs and freezes still promise under races? | 4 concurrent calls (3 at the interceptor, where up to renaming one of them may bring another payload): two that race, one that undoes, one that comes later; a cap of 2. Four wallets and 3 debts give chains, cycles and ties. 2 artists, where a share of 100 meets one of 50. 2 handlers and 2 disputes of one split with 4 actions each. |
| `track_oversold` | violation: do the shares of a track stay within 100%? | two invitations of 60%, even one after the other |
| `queues` | batches, webhooks, exports and proposals under retries, cancellations and stale saves | 2 operations in 2 lanes, 2 runs; 2 deliveries with 2 attempts and a threshold of 2; 2 calls and 3 requests on one export; 2 voters with quorums met by one vote and by two |

What the properties say is written above each of them in the modules.

### Refinements

* `EscrowRefined` (proved and checked): the composition with disputes implements `SplitEscrow`.
* `PaymentsAreLedger` (proved and checked): `PaymentProcessing` implements `PaymentLedger`, with
  the committed submissions as entries. It replaces what would otherwise be three
  invariants (one credit per key, sums, no lost update): the ledger has them by proof.
* `PaymentsRefined` (proved and checked): payments composed with disputes implement `PaymentProcessing`,
  so that its free `SetFrozen` is an honest environment.

### Fairness

* `EverySubmissionEnds`, under `WF(Proceed(r))` for every submission: once a request is in,
  Node keeps running its continuations and PostgreSQL keeps answering; Horizon calls end,
  if only by an error. Submitting, crashing, filing and freezing carry no fairness. A lock
  wait disables `Proceed`, so a lock that is never given back is a counterexample, not an
  excuse. The instance has no path payment (section 5).
* `EveryPaymentSettles`, under weak fairness of the cron job, of every worker's work and of
  the network deciding a transaction, and strong fairness of taking a payment's job: Bull
  is first in, first out, but a worker that is busy or dies disables the taking again and
  again. Faults are bounded by `MaxTroubles`, so they stop.
* `OccurrencesHappen`, under weak fairness of the six-hourly cron job and of a generation
  that runs. The manual trigger carries none.
* `EveryRecordTried`, under weak fairness of each poll's start and of its steps.

The contracts have no liveness of their own: nothing happens unless somebody calls.

## 4. Proofs

All hold for every number of accounts, escrows, voters, disputes, requests, participants,
splits, wallets, pairs, jobs and handlers, every fee up to 100% and every vector of
obligations or debts, under the named assumptions of the modules (`EscrowConstants`,
`DisputeConstants`, ...), which say only that bounds are naturals, that roles are accounts,
that sets of data are not empty, that markers for "nothing" are not rows, and what keys,
payers and amounts are functions of. TLC evaluates each of them on the instances. Two
assumptions are about the system and stated in the theorem that needs them:

* `~DecimalsAreText` in `PaymentsImplementLedger` and `PaymentEventsHold`: numbers in decimal
  columns. With the driver's text both are false (section 5). `PaymentTotalsHold`,
  `PaymentInvariant` and everything about disputes hold either way.
* `OneAtATime` (one dispute, one handler) in `OneDisputeFollowsLifeCycle` and
  `NoCreditUnderOneDispute`: with two of either the life cycle is really broken (section 5).
  Payments are as many as one likes, and this is what the instance checks too.

Every safety invariant, action property and refinement of the passing runs is a theorem, and
so is the type invariant of every module.

### Contracts

* **`SumsProofs`**: linearity of `SumTo`, change at one index, monotonicity, tails. The
  library's induction theorems take an operator as a parameter, so these lemmas argue by a
  smallest counterexample in a finite interval instead (`LeastNat`). So do all later lemmas
  about recursive functions and searches.
* **`SplitEscrowProofs`**: the inductive invariant is

      EscrowInv == TypeOK /\ (\A id : SplitInv(splits[id])) /\ VaultMatchesEscrows
                   /\ (an id not yet given out has no split)

  with `SplitInv` about one record: the books agree, balances stay within obligations,
  obligations add up to the total, everyone with a balance in an active escrow is a
  participant, and Ready or Released means that the total has been deposited. Each conjunct
  is needed by another: a refund pays the sum over *participants*, so the vault follows only
  if nobody with a balance is missing; a release pays by *obligations*, so it follows
  only if Ready implies balances = obligations, which in turn follows from
  `SumTo(balances) = SumTo(obligations)` and pointwise `<=`.
  `TransfersAddUpToNet` is the arithmetic heart: whatever the fee, no share of the
  distribution loop is negative and the shares add up to the net amount. Of calls,
  `EscrowBooksKept` adds that a refund reaches every depositor; `EscrowSettlementSound` that
  settled escrows are final, refunds complete and releases exact; `EscrowFreezeHolds` has an
  invariant of its own (a pending schedule is at least the timelock after the present
  freeze). `EscrowAlertsAndCaps` needs that no list of participants is longer than its cap
  (`CapInv`), so that an escrow all of whose obligors have paid has room for them (`AlertInv`).
* **`DisputeResolutionProofs`**: `DisputesRefineEscrow` shows that every step of the
  composition is a step of `SplitEscrow` or leaves it alone, so all escrow theorems carry
  over (`EscrowUnderDisputes`). The dispute invariant then says: a raised dispute names an escrow id, has one tally
  per voter, and if resolved its escrow is in the status its tallies demand. That conjunct
  is preserved by escrow steps because final statuses are final, and it gives "at most one
  resolution per escrow" because a resolution needs the escrow open.
* **`StakingProofs`**: `StakingInv` is about sums: the total is the sum of the stakes, every
  delegate's power the sum of the stakes that name it, and solvency in the scaled form

      SumTo(ScaledClaims, NumAddresses) <= SCALE * pot

  where a claim is what a staker would be paid if rewards were settled now, times the
  scale. Unscaled, the inequality is not inductive: each settlement rounds down, and only
  the scaled claims change by exactly the deposit. `BooksHold` (`StakeBooks`) and
  `CallsAreSound` follow; the first divides the scaled inequality once, at the end.
* **`ContractProofs`**, four contracts. Multi-sig: the counter is the cardinality of the
  signatures on record, and a split not stored has neither signature nor intent
  (`QuorumsBackExecutions`). Flash loan: while a callback runs, what a failure would put
  back has all fees too (`PoolNeverLoses`). Templates: every id in any store is in all of
  them, and in a creator's list once (`TemplatesAgree`). Path payment (`ShortestPaths`): a
  breadth-first search is correct for all graphs. `Hops(source, q, d)` says that the queue
  `q` holds distinct assets, each reached over a pair from an earlier one, `d` pairs from the
  source; `Layered(t, q, d)` that after `t` looks at a pair `d` never decreases along the queue,
  is at most one more than at the asset in front, and that whatever a pair already looked at
  leads to is in the queue, one hop on at most. Both are preserved by a look (`SearchStep`);
  the queue never exceeds the pairs by more than one (`QueueFits`, an injection from the
  assets found to the pairs that found them), so at the end every asset of the queue has been
  in front of every pair, and whatever is within `n` hops by definition was found in at most
  `n` (`WithinIsFound`). The path back is a walk of `d` pairs (`PathFollows`). Walks survive
  because pairs are only added; the slippage is the floor of one division (`FloorIsClose`).

### Payments

* **`PaymentProofs`**: first the ledger, one entry per key and balances that are the sums of
  their entries (`LedgerKeepsBooks`). The inductive invariant of payment processing is

      PaymentInv == PaymentTypeOK /\ RowsHeld /\ SplitsHeld /\ KeysHeld

  Between two awaits a submission relies on what it has read. `RowsHeld` says that it holds
  its participant's row from its locking read on and that what it read is still there;
  `SplitsHeld` the same of the split, and that the split is not frozen until the commit;
  `KeysHeld` that no two transactions have inserted the same key and that none of a
  committed submission's key is under way. Together they make the commit one atomic `Enter`:
  `PaymentsImplementLedger`.

  Totals (`PaymentTotalsHold`) need `TotalsRead`: whoever is about to commit has computed the
  total from the rows as they still are, because it holds the split. Reputation
  (`PaymentEventsHold`) needs `StandingFits`: whoever is marked as paid has met the
  obligation.

  `PaymentsWithDisputes`: a dispute's update of the split waits for the row lock, so every step
  of the composition is a step of `PaymentProcessing`, `SetFrozen` or a stutter; `HandlerInv`
  (a handler's object belongs to a split) is all it needs of disputes. For one dispute and
  one handler `LifeInv` adds that the split is frozen exactly while the dispute is unsettled
  and that the handler holds the row as it is stored.

  Corollaries of that refinement: `GuaranteesUnderDisputes` (totals, waits, answers) and
  `LedgerUnderDisputes` (the ledger, for numbers) need no look at a dispute's steps.

  `WaitsEnd` (`NoWaitCycle`): a submission waits for the holder of its participant, of its split
  or of its key. The invariant behind it, `LocksEnd`, says that whoever holds a lock is under
  way and how far: the three are taken in that order, so the holder of what one waits for is
  always at a later await, and the steps that end a submission release all it holds. The
  property exempts one submission, the path payment that waits for its own row (section 5).

  `AnswersTrue` (`AnswersHold`): what a caller is told (a duplicate, a refusal) cannot become
  false by what others commit later.

### Requests

`RequestProofs`. These services take no lock, so their invariants are about *copies*: what a
request has read, compared with what may have happened since.

* **Disputes** (`ReviewsPrecede`, `FreezesMoveWithDisputes`): a copy whose status needs a review
  is of a row that has been reviewed.
* **Idempotency** (`KeysReplayAnswers`): the record is the answer of a request that ran, with
  its payload, and so is whatever a request is about to serve.
* **Short links and invitations** (`LinkLimitsHold`, `CapsHold`): a potential argument. Those
  who got in are at most what the row counts, plus those in and not yet counted, plus a whole
  limit for every save that undid another's (`AccessesBounded`, `UsesBounded`): a race is
  paid for when its stale row is written.
* **Collaboration** (`AuditLogsReadRight`): every row, stored or held, is a legal one, and a
  save adds an entry that its own copy allows.
* **Archiving** (`ArchivesKeepSplits`): where an archive or restore stands determines which of
  the tables have the split; the property has the same exception as the invariant, a
  restore that overlaps an archive (`overrun`).
* **Debts** (`DebtsAreNetted`): `DebtInv` has the sums of `balance` and of `nets` at zero (so a
  largest creditor exists whenever a debtor does and the loop's other exits are never
  taken), what is left within what there was, and `TransfersCounted`: every transfer settles
  a wallet and the last one two. Everybody's balance is covered exactly, in fewer transfers
  than wallets involved, the bound the comment of `simplify` promises.

### Jobs

`JobProofs`, one inductive invariant per service.

* **Reconciliation** (`VerdictsCaused`): an answer of the network is final, so whoever holds one
  (a worker between two awaits, a queued settlement) holds what is still true.
* **OCR** (`ResultsShown`): runs and half-made calls hold rows without a result, so whatever
  they overwrite shows none either.
* **Recurring splits** (`OccurrencesFollow`): every copy of the template, however old, is one
  whose next occurrence has been reached; whoever is about to advance it has completed its
  occurrence.
* **Webhooks** (`WebhooksJudged`): every copy's failure count is covered by failures that
  happened and those still to be recorded; the attempts of a delivery explain its posts.
* **Poller** (`NoRecordPassedOver`): a poll holds the cursor it read and a page that starts right
  after it; every record up to any stored or held cursor has been handed over. A poll that
  overtakes another sets the cursor back, never past a record.
* **Exports** (`ExportsComplete`): a file is stored before its key; a confirmed cancellation
  stands for every run that begins after it.
* **Governance** (`ExecutionsCarried`): votes are never withdrawn and time passes one way, so
  what was enough when a handler looked is enough when it writes; that two camps of voters
  share nobody bounds the tallies.
* **Batches** (`BatchesWork`): the *claims* on an operation, i.e. its row waiting, its place in
  the list of a run, a lane at work on it and a split made, change hands, and only a fault
  doubles one. Claims minus faults stay within one, so splits do.

### Types

`EscrowTypes`, `DisputeTypes`, `PaymentTypes`, `ContractTypes`, `RequestTypes` and `JobTypes` prove the
type invariant of every module, so no run spends a property on it; that of reconciliation
is part of `VerdictsHaveCause`, that of staking of `StakingInv`. Most of them are not
inductive alone: that a use count stays within its bound, a stored path within its length
or a batch's counters within its operations needs the invariant of that service. Where a
model has a bound of its own (edits, mishaps, days, faults) the bound is part of it.

### Only model-checked

Liveness (`EverySubmissionEnds`, `EveryPaymentSettles`, `OccurrencesHappen`,
`EveryRecordTried`): liveness under fairness and ENABLED are outside the prover's reach. The
safety halves are proved: `WaitsEnd` says that submissions do not wait in a circle, but for the
path payment that waits for itself (section 5), `NoRecordPassedOver` that a payment not yet handed over is still ahead of the cursor,
`OccurrencesFollow` that no occurrence is skipped, `VerdictsCaused` that a verdict has a cause.

## 5. Findings

Two runs end in a counterexample against a line of the repository.

**`payment_twice`**: the look-up
by transaction hash is not locked and no unique index backs it, so one transaction
submitted under two keys (a client's own and the one the poller derives) is credited twice.

**`track_oversold`**: `validateSplitPercentage` adds up a decimal column, which the driver
returns as text. "0" followed by "60.00" and by a new 60 is "060.0060", which is not above
100, and two accepted shares make no number at all: the check refuses only what follows a
single accepted share of exactly 100. `collaboration/README.md:132` says that the total
cannot exceed 100%. Reading numbers (`PercentagesAreText = FALSE`) does not save it: pending
invitations are not counted, and acceptance checks nothing.

### Seen while modelling

What the models' traces show besides, not stated by a run of their own. Paths are under
`src/backend/src` or `src/contracts`.

Payments
* `payment-processor.service.ts:344`: with the driver's text decimals a single payment
  already breaks `PaymentsAreLedger` (set `DecimalsAreText = TRUE` in `PaymentRaces.cfg`).
* `multi-currency.service.ts:178`: a path payment inserts, on another connection, a row whose
  foreign key needs the participant's row that its own submission has locked, and waits
  for ever.
* Reconciliation: no write is conditional on the status read before it, so the stale check
  and a second worker can overwrite CONFIRMED; a crash between CONFIRMED and the queueing of
  the settlement loses the settlement; the stale check never sees RECONCILING rows; with
  more undecided payments than a batch, the oldest ones keep the others waiting.
* Poller: an error of `autoConfirmPayment` is swallowed and the cursor moves on; overlapping
  polls set the cursor back (records are tried again, never skipped); an account without a
  cursor row starts at "now" on every poll, sees nothing and saves nothing.
* Idempotency: concurrent requests with one key both run; on the payment routes the
  interceptor runs twice and the second insert's rejection is handled by nobody.
* `settlement.service.ts:71` updates a column `amount_paid` that the table calls `amountPaid`.

Disputes
* `disputes.service.ts:96`: two concurrent filings of one split both pass the check.
* `disputes.service.ts:161` and `:268`: stale saves move a dispute backwards and drop audit
  entries (`StatusFollowsMachine` and `AuditTrailComplete` fail with two handlers).
* `disputes.service.ts:442`: settling one dispute thaws a split that another one, appealed or
  filed since, still disputes. The publisher of the outbox has no caller.

Contracts
* `staking/src/lib.rs:87`: `unstake` reads the record, has the rewards settled in storage, then
  writes its own older copy back: the rewards earned on the tokens taken out are lost,
  against its comment "Update rewards before changing stake".
* Multi-sig: while the list of signers is empty anyone may sign, and such a signature cannot
  be withdrawn; a huge time lock makes the deciding signature trap.
* Flash loan: all loans have one id and stay unrepaid on record, so one can be "repaid" later.
* Path payment: the swapped tokens are never paid out; slippage is measured against the rates
  of the moment; a limit above 100% gives a negative minimum.

Jobs
* Batches: an operation left RETRYING is never picked up; a retry adds a job under an id Bull
  may still know, which is then ignored; lanes that outlive a rejected run create a split
  twice. `payment-batch.processor.ts` has the same shape, never empties its list of running
  operations and marks the batch COMPLETED whatever failed.
* Recurring splits: a pause or a deletion during a generation is undone by its save; two
  schedulers generate an occurrence twice; one that the scheduler reaches after the end
  date is lost.
* Webhooks: an error of the database after a successful delivery sends it again; a stale
  save reactivates a deactivated webhook.
* Exports: a cancellation that is acknowledged after the run's last check does not stop it;
  a retry adds a job that Bull ignores while the failed one is kept.
* OCR: the second save of `createJob` resets a row that already runs; saves of whole rows
  overwrite cancellations.

Requests
* Collaboration: the unique index on track and artist makes every rejected or removed artist
  impossible to invite again; a rejected collaboration may be removed, a transition
  `collaboration/README.md:145` does not list; the "completed" it lists is never set.
* Invitations: a revocation is overwritten by a concurrent join; an upgraded guest can join
  again by e-mail. Short links: a stale save inserts a deleted link again.
* Governance: `finalizeProposal` checks no status, so executed and vetoed proposals are decided
  again; concurrent votes lose each other's tallies; at exactly the end of voting both voting
  and finalising are possible.
* Archiving: a payment committed between the read of the payments and their deletion is in
  neither table; two overlapping archives leave a second, possibly empty archive, which is
  the one that restoring by the split's id then picks; a participant who pays during an
  expiring archive may be penalised; one split that fails stops the expiry of all later ones.
* Debt simplification: nothing invalidates the cached suggestions, so paid debts may be
  suggested for a day.

## 6. Limits

* `payment_races` reads decimal columns as numbers: its money properties are about
  locking and ordering, and hold only where a column transformer or the driver
  delivers numbers. `payments_disputed` uses the text the driver really delivers.
* `EveryPaymentSettles` is about rows: whether the settlement job follows a confirmation
  depends on there being no crash in between (section 5).
* `DisputeResolution` checks one escrow with TLC; several are covered by the proofs.
* Amounts of debts are in cents; differences below the code's epsilon are left out.
* Webhook replay and retry of payments have no caller and are left out, as is the clean-up
  of idempotency records.
* Some properties promise little ("leaks only by races"), because the code does: their point
  is the exact bound of what a race can do, and that nothing else leaks.

### Not modelled

* **reminder and achievement-badges contracts**: one record under one key per call, which
  nothing else reads.
* **share calculation**: a pure function whose only caller passes item data in every mode, so
  that equal, percentage and custom splits are refused before it computes anything.
* **settlement suggestions**: the statement every completed step needs fails at run time.
* **notifications, e-mail, gateways, search, analytics, dashboards, currency**: reads, reports
  and single writes whose state no several steps share.
* **authentication and authorization**: the models take the callers that the code lets through.
* **frontend, ml-service**: clients and a scoring service; view and form state, `api-client.ts`
  keeps no state between calls.

## 7. Plan

Next in line, by what they would add:

1. Reconciliation composed with payment processing over participants and splits, with the
   settlement job's update as a step of both; `PaymentsRefined` shows the way.
2. Payments composed with archiving over the real lock order of `PaymentProcessing`, so that
   the payment that races an archive is the one submission goes through.
3. The life cycle of disputes for two handlers, once the code checks the status in the update
   that changes it: `OneAtATime` is then no longer needed.

## 8. Running it

    tlc -workers 2 -config EscrowMoney.cfg MCSplitEscrow      # and so on, see PROJECT.json
    tlapm SplitEscrowProofs.tla                               # and the other *Proofs
