# A model of the payment API

This directory holds TLA+ modules for every part of the service that keeps state: merchants and their
sessions, wallets and their ledger, transfers, the idempotency guard, payment intents, payouts and
settlement, the two webhook workers, and the compositions in which these share rows of one PostgreSQL
database. TLC checks the
modules on small instances; TLAPS proves the main results about every component for every value of the
constants.

Paths below are those of the repository (`src/...` for code, `migrations/...` for the schema).

## 1. The system

Node processes (the API, the settlement worker, a webhook worker, a Rabbit worker) share one
PostgreSQL database at READ COMMITTED. Node runs one continuation at a time, but every `await` of a
query lets others run, and several processes run at once. So **one SQL statement is one step**, and
whatever a handler keeps in a local variable across an `await` may be stale.

| Component | State | Operations | Talks to |
|---|---|---|---|
| wallets and ledger (`wallets/wallet.repository.ts`, `ledger/ledger.repository.ts`, `db.ts`) | `wallets.balance`, `wallets.version`, `ledger_entries`, row locks, uncommitted writes | `findById`, `findByIdForUpdate`, `applyDelta`, `applyDeltaIfVersion`, `addEntry`, `withTransaction` | used by all services below |
| transfers (`transfers/transfer.service.ts`) | nothing of its own: an attempt counter and two rows in local variables | `transfer` with up to 5 optimistic attempts | wallets, ledger; wrapped by the guard |
| idempotency guard (`middleware/idempotency.ts`, `idempotency/idempotency.repository.ts`) | `idempotency_keys` | `claim`, `get`, `complete`, `release` around `POST /transfers` | the transfer handler and the error handler |
| payment intents (`payments/*.ts`) | `payment_intents.status`, `charges` | `create`, `confirm`, `cancel` | wallets, ledger, webhook outbox |
| payouts and settlement (`payouts/*.ts`, `settlement-worker.ts`) | `payout_accounts`, `payouts` (status, attempts, next attempt) | register an account, `sweep`, `processDuePayouts`, `settleNow` | wallets, ledger, the bank, webhook outbox |
| webhook outbox and polling worker (`webhooks/*.ts`, `webhook-worker.ts`) | `webhook_events`, `webhook_endpoints` | register an endpoint, `emit`, `claimDue`, deliver, `markDelivered`, `markRetry`, `markFailed` | merchants' servers |
| Rabbit relay and consumer (`rabbit-worker.ts`, `rabbit/*.ts`) | the same rows, plus broker queues | relay, publisher confirms, reaper, consume, retry and dead-letter queues | broker, merchants' servers |
| merchants and sessions (`auth/*.ts`, `merchants/*.ts`, `middleware/authenticate.ts`) | `merchants`; tokens, which only clients keep | `register`, `login`, `me`, `authenticate` | bcrypt, jsonwebtoken; guards every other route |
| wallet API (`wallets/wallet.routes.ts`, `wallet.service.ts`) | rows of `wallets` | `create`, `listByMerchant` | behind `authenticate` |
| start-up, migrations, scripts, logging, metrics, tracing | - | - | - |

**What is hard.** Two transfers reading the same wallets; validation on rows that are stale by the
time they are used; a debit that finds its version and a credit that does not; retries that reuse
something; opposite transfers that deadlock; COMMIT executed and its answer lost; a key released
between a duplicate's INSERT and SELECT; a process that dies between claiming and saving; two
settlers over the same wallets and payouts; a lease that expires under a live holder; the bank
having paid when the recording of it fails; writers that bump the version and writers that do not; a
relay, a reaper and a consumer that write the same outbox rows without looking at their status;
registrations of one address that hash their passwords side by side; and layers that are each right
while their composition has to be looked at: a key's row against the transfer made under it, a
version against writers that leave it alone.
`PROJECT.json` lists each under `hazards`, at its line.

**What makes each part correct.**

- *Wallets and ledger*: a balance is the sum of its entries; no balance is negative.
- *Transfers*: each is a whole movement or nothing, at most once, and the caller is told which; the
  checks on unlocked rows are never wrong when it matters; someone always gets through.
- *Guard*: one execution per key; answers under a key are the answers of that execution, for the body
  that was sent, saved before they are sent.
- *Guard and transfers together*: a client that was refused under a key is never charged under it.
- *Merchants and wallet API*: an account and its wallets stay with who registered the address first;
  201 and 409 are told to the right ones of racing requests.
- *Payments*: an intent is confirmed or canceled once; status, money, charge and event move together.
- *Payouts*: what leaves a wallet is in exactly one payout; a payout is sent to the bank once; only
  one that the bank refused is refunded; every payout becomes paid or failed.
- *Webhooks*: no committed event is lost between the outbox, the broker and the endpoint; it is sent
  again only for a reason, a limited number of times, and is delivered or exhausted in the end.

## 2. Modules

```
 Books            PaymentPromise                      abstract specifications
   ^                  ^
   | refines          | refines
 Transfers        Payments      Payouts     Idempotency     WebhookRelay   Webhooks   Accounts
   |    \             |           /             |
   |     +------- WalletStore ---+              | (a handler such as the guard assumes)
   |     Platform = Transfers + Payments + Payouts on one store
   +------- GuardedTransfers -------------------+
 WalletStoreProofs                                        lemmas
   ^ TransfersProofs  PaymentsProofs  PayoutsProofs       theorems
     (TransfersProofs: with the other two and IdempotencyProofs, also of the compositions)
 IdempotencyProofs  AccountsProofs  WebhooksProofs  WebhookRelayProofs
```

| Module | Models |
|---|---|
| `WalletStore` | `wallets`, `ledger_entries`, `withTransaction`, row locks |
| `Transfers` | `transferService.transfer`, statement by statement |
| `Books` | what transfers promise: one whole bearable movement at a time |
| `Idempotency` | the guard of `POST /transfers`, around any handler |
| `GuardedTransfers` | `POST /transfers`: the guard around the transfer service, and a client's promise over retries |
| `Payments`, `PaymentPromise` | payment intents, and what they promise |
| `Payouts` | settlement: sweep, claim, bank, retry, reversal |
| `Platform` | transfers, payments and settlement over the same wallets |
| `WebhookRelay` | outbox, relay, confirms, reaper, consumer, retry and dead queues |
| `Webhooks` | the same outbox drained by polling workers under leases (`webhook-worker.ts`, a compose profile that is off by default) |
| `Accounts` | registration, login, tokens, authentication of protected routes, creating and listing wallets |
| `MC*` | small instances for TLC, one for each module that has a run |
| `WalletStoreProofs` | lemmas on the store's statements, and on the sums in which money is counted |
| `*Proofs` | the theorems about each component (section 4); `TransfersProofs` also has those about `GuardedTransfers` and `Platform` |

### WalletStore

`balance`, `version` and `net` (credits minus debits of a wallet's ledger) are what is committed.
`dBalance`, `dVersion` and `dNet` are what each open transaction has added and not committed;
`Row(t, w)` is what a read in transaction `t` returns. `CommitTxn` publishes them, `RollbackTxn` drops
them, and both let go of the transaction's `locks`.

Locks are PostgreSQL's: an entry's foreign key check takes KEY SHARE on the wallet, an `UPDATE` of
no key column NO KEY UPDATE, and `findByIdForUpdate` FOR UPDATE. A statement that must wait is not
enabled. A conditional update (`applyDeltaIfVersion`) that matches waits for the row and evaluates its
WHERE again on the new version (`UpdateMatched`, `UpdateMissed`); an update that breaks
`CHECK (balance >= 0)` or the width of BIGINT raises (`UpdateRejected`). `applyDelta` leaves `version`
alone, as the code does. `LockAndPost` fuses lock, ledger entry and balance of one row, since nobody can
come between while the row is FOR UPDATE.

Funds are the deposits `seed.ts` makes: balance and ledger start equal.

### Transfers

A request walks `idle -> readFrom -> readTo -> validate -> ledgerDebit -> ledgerCredit -> debit ->
credit -> commit | conflict -> done`, one label per awaited statement. `seen` is the pair of local
rows, `okFrom` the first update's result; both updates are tried before either result is looked at, as
in the code. `Validate` is `validate()`'s checks in their order. `Retry` and `GiveUp` are the
catch block for `ConcurrencyConflictError`; every other error becomes a rollback and a 500 (`Fails`).
`DeadlockVictim` is PostgreSQL's deadlock detector: opposite transfers update their rows in
the order of the request. `DbError`, `AckLost` and `Crash` are faults of the environment: a COMMIT that was
executed and not heard of is `AckLost`, so `Crash` at `commit` is the one that rolls back. `posted` is a
history variable.

### Idempotency

Each statement of the guard commits on its own, so INSERT (`Claim`, `Duplicate`), SELECT (`Reuse`,
`InProgress`, `Replay`, `FallThrough`), the handler (`Handle`) and the saving of the result (`Complete`,
`Release`, then `Send`) are separate steps. The handler ends with any of `Outcome`; `"lost"` is a
transfer that was committed and answered 500 since only COMMIT's answer was lost. `unclaimed`,
`saveFailed` and `executed` are history variables. A response is named by the request whose handler
produced it, which is all the properties need of its body.

### Payments

`confirm` and `cancel` lock the intent (`holder`), check `TRANSITIONS` (`Allowed`), and write in one
transaction; `draft` is what an intent's transaction has written and not committed. `Ledger` and
`Credit` use the shared store, so confirmations of different intents of a merchant meet at the wallet.
The wallet lookup of `confirm` always succeeds, for wallets are created before intents and never
deleted. `Emit` reads the merchant's active endpoints and `Enqueue` writes an event for one after the other, while `RegisterEndpoint`
goes on; `audience` (history) is who listened when the intent was created, and `PaymentPromise` requires that these are told,
once each. A request is given what it asks as it arrives.

### Payouts

A settler is the worker's loop or one `POST /payouts/run`; `Scope` is every wallet or the merchant's.
A tick is `SweepList`, then `SweepDebit`/`SweepCommit` or `SweepSkip` for each listed wallet, `ClaimDue`,
then for each claimed payout `Take`, `SendToBank`, `MarkPaid` or the catch block (`MarkRetry`, or `Reverse`
and `ReverseCommit`). `known` is the copy of the attempts that `claimDue` returned: the code uses it
and never reads the row again. `due` is `next_attempt_at <= now()`; `BecomesDue` makes it true, for a
payout that is being held only if `Faults` has `"slowSettler"`, so that a lease that runs out under a live
holder is a question a run asks rather than an accident of the model. `told` counts the events
a payout's merchant was sent (one endpoint; the fan-out is `Payments`'), `bank` counts the bank's side,
`unrecorded` the transfers the platform failed to record, `charged` what payments brought in (`Charge`
is `confirm` seen from a wallet). A bank account ends in 0000 or not, as in `simulateBankTransfer`.

### GuardedTransfers

The module extends `Transfers` and instantiates `Idempotency` as `Guard`, its handler being the service. A request is at a label
of each layer: `gpc` walks through `Idempotency` and, while it is at `handle`, `pc` through `Transfers`; `reply` is what `transfer()`
said, `answered` what the client got. The guard's statements commit on their own and the transfer's in its transaction, so the key
and the transfer can disagree, which neither module can see alone. `HandlerEnds` is the hand-over:
the status that `res.json` is given becomes the guard's `outcome`, with `"lost"` for a 500 after a commit. A
dying process takes both layers with it (`ProcessDies`). `ImplementsGuard` is the composition shown to be an instance of
`Idempotency`: the service is a handler such as the guard was modelled (and proved) around.
A request is said to ask its transfer (`dto`) from the start, which the service looks at only when it is called.
`Scenario` is a bound on which requests arrive in one behaviour.

### Platform

The module extends `Transfers` and instantiates `Payments` (`Paying`) and `Payouts` (`Settling`) over the same `WalletStore`; each step
is one statement of one of them. `Charge`, which stands for the payments where `Payouts` is alone, is not among them: `charged` is 0,
and what a wallet's confirmed intents have brought in is `Paid`. Whoever opens a transaction has a connection of its own, so
transfers, requests of payments and settlers are different members of `Txn` (`PlatformAssumption`). A sweep holds its wallet FOR UPDATE against the transfer's
updates and entries and the payment's credit, and leaves the version alone.

### Accounts

A request runs one autocommitted statement, but reading its body, hashing its password (bcrypt, off the event
loop) and that statement are separate steps, between which others run; a login's `findByEmail` and its
`VerifyPassword` likewise. An INSERT and the unique constraint that judges it are one step, as in PostgreSQL: the loser
is told 409 (`EmailTaken`, `HasWallet`). Row ids are the requests that inserted them. A hash is its salt
and what it is a hash of; a token is whom it is for and whose login signed it; both libraries are modelled by what they
promise. `Authenticate` looks at the token only, as the code does; `Expire` is its hour passing. `Fails` and
`AnswerLost` are failing statements, statements whose answer is lost, and dying processes.

### WebhookRelay

Each worker process has a relay and a consumer. The relay goes `sleep -> claim -> publish -> mark |
reset -> sleep`: `Reap`, `Claim`, one `Store` for each message the broker takes, `Confirm`, then
`MarkPublished`, or `ResetToPending` in the catch block. `Update` is what all of the repository's
updates but the claim and the reaper are: by id, whatever the status. `stale` is `updated_at` being over 30
seconds old; a row that a live relay holds grows stale only as the fault `"slowRelay"`.

A message is in the deliver queue, in the retry queue, or unacknowledged with a worker, where its place
says which `await` its handler is at: `lookup`, `post`, `record` (`markDelivered`), `bury` (`markFailed`).
`Caught` is the inner catch block, `Discard` the outer one. Publishing and acknowledging on one channel
are one step, except that a dying worker may leave a copy in the retry queue and the original
unacknowledged (`copy` in `Crash`); the statement or POST it was waiting for may have been carried
out (`done`). Endpoints are never deleted by the code, but the schema and both workers provide for it:
`EndpointDeleted` takes the row with it. `received`, `tried`, `again` and `discarded` are history variables.

### Webhooks

The same table under `webhook-worker.ts`, which runs instead of the Rabbit worker. `ClaimDue` is one
`UPDATE`: it takes `Batch` due rows (fewer if there are fewer), moves `next_attempt_at` (`due` is
`next_attempt_at <= now()`) and starts a task for each, since the deliveries of a tick run concurrently. A
task is at `lookup`, `post`, `record` or `caught` (the catch block); `known` is its copy of `attempts`.
`Promise.all` is `batch`: empty when the last task resolves (`Resolve`) or as soon as one rejects
(`Reject`), after which a new tick may begin beside tasks that still run. `BecomesDue` is time: of an event
that a task holds, it is the fault `"slowWorker"`. `markDelivered` may be executed and seem to fail
(`doubted`). Other failing statements are taken not to have been executed.

## 3. Runs

| Run | Question | Result |
|---|---|---|
| `TransfersRace` | three transfers around three wallets, conflicts, deadlocks of two and of three, overflow, failing statements, lost COMMIT answers, crashes; refines `Books` | holds |
| `GuardedTransfers` | a transfer, its retry and one in the other direction; keys reused; every refusal; every fault of both layers; refines `Idempotency`; every request ends | holds |
| `IdempotencyOnce` | one key shared by three requests (one with another body), a second key, every outcome, every fault | holds |
| `IdempotencyFallThrough` | two handlers under one key | violated |
| `Payments` | confirmations and cancellations race while endpoints are registered; faults; refines `PaymentPromise`; every request ends | holds |
| `Payouts` | worker and merchant settle one wallet; aborts, crashes, failing records; every payout settles | holds |
| `PayoutsDoubleReversal` | one debit, two refunds, when a lease runs out under its holder | violated |
| `Platform` | transfers (both of one direction; deadlocks are `TransfersRace`'s), a confirmation and a settlement with its reversal on the same wallets | holds |
| `PlatformStale` | a debit that `CHECK` has to refuse | violated |
| `WebhookRelay` | two workers and one event, two faults of any kind: lost, repeated, exhausted, settled? | holds |
| `Webhooks` | two polling workers, batches of two, two faults of any kind: true statuses, repeated, settled? | holds |
| `Accounts` | registrations of one mailbox under two spellings, logins, expiring tokens, wallets, one fault | holds |

**Properties.**

- *Money*: `BooksBalance` (balance = ledger, although different statements write the two; run where all three writers
  meet, in `Platform`); `MoneyIsAccountedFor`, `TransfersExplainBalances`, `MoneyIsConserved`: conservation, with the
  histories of who moved what; `SameVersionSameBalance`: the fact optimistic locking rests on; `CheckNeverFires`:
  what validation saw is what the update finds; `ConflictsHaveWinners`: lock-freedom, stated for every attempt;
  `RepliesAreHonest`: what callers are told.
- *Guard*: `AtMostOnce`, `RepliesNameTheTransfer`, `AnswersAreSaved`, `InProgressMeansRunning`.
- *The route*: `RefusalIsFinal` (a 4xx answer under a key means that no request of that key moves money, before or after,
  over retries, reuse and faults); `ImplementsGuard`; `EveryRequestEnds`.
- *Payments*: `AnswersStayTrue`, `KeepsPromise`, `EveryRequestEnds`.
- *Settlement*: `SentAtMostOnce`, `StatusTellsTheBank` (a payout is paid only if the bank has it and refunded only if not),
  `MerchantsAreTold` (events agree with the row, and are not repeated without a reason), `TerminalIsFinal`, `EveryPayoutSettles`.
- *Relay*: `NothingIsLost`, `ReceivedOnce`, `FailedMeansRefused`, `TriedWithinLimit`, `SettledUnlessHeld` (the status of
  a settled event changes only while some relay holds it in its batch or there was a reason to send it again),
  `EveryEventEnds`. *Polling workers*: `StatusIsTrue`, `ReceivedOnce`, `TerminalIsFinal`, `EveryEventSettles`.
- *Accounts*: `SessionsAreEarned` (tokens and wallets go back to the password of the first registration of the address),
  `RepliesAreTrue` (of racing inserts one is told 201, and 409 only after another's row), `RegisteredCanLogIn` (whoever was told
  201 is never refused afterwards, however the address is spelled).

**Excuses.** Where the code leaves a gap, the property names the gap and nothing else, with a history
variable: `AtMostOnce` excuses a key whose request fell through the guard (`unclaimed`) or whose commit
was answered 500 (`"lost"`), and `RefusalIsFinal` the same two; the settlement properties excuse a payout by as many bank transfers as the
platform failed to record (`unrecorded`); `InProgressMeansRunning` excuses a key under which a process
died or a statement of the guard failed (`Orphaned`); the webhook properties excuse as many repetitions
as there were reasons (`again`: rows taken back by the reaper or the catch block, answers not heard or not
recorded, redeliveries) and messages a consumer threw away after a failing statement (`discarded`). The polling workers' `TerminalIsFinal`
lets a task write to an event that is done with only while the task is still at work on an event whose lease ran out under it (`lapsed`) or
whose recording seemed to fail (`doubted`), and no excuse covers a write that makes the event pending again. The violated runs
show gaps without their excuse.

**Bounds and why they suffice.**

- `TransfersRace`: three requests are the fewest for a loser with two different winners, i.e. for
  `MaxRetries = 2` to be used up (the code's 5 needs six), and with three wallets the fewest for a circle of three that wait for
  one another; two amounts and both directions of one pair give conflict, a source become too poor, and overflow
  (`MaxBalance = 3`). 377,134 states under symmetry. The branches of `validate()` that need other wallets or ids are
  `GuardedTransfers`' (and the proofs').
- `GuardedTransfers`: `Scenario` lets {a transfer, its retry, one in the other direction}, {a transfer, a reuse of its key}
  and three pairs of refusals (poor, not the owner's, another currency, no such wallet) arrive together: a retry meets its
  first attempt at every statement of both, and a competitor decides whether it conflicts. A fourth concurrent request, or two
  retries, is left to `Idempotency`'s run, whose handler may end in any way at any time. `MaxRetries = 1`. 348,243 states, two and a half
  minutes, most of it the liveness check.
- `IdempotencyOnce`: a claimer, a duplicate and a third to claim a released key are what the
  interesting schedules need; a second key shows keys do not meet. 1.9 million states under symmetry.
- `Payments`: two intents on one wallet (contention), three requests, one of which may be somebody else's (404), and two endpoints, the
  fewest for a fan-out that fails half-way; `MaxBalance = 2` lets a credit overflow. What each request may ask is fixed so that no case is repeated under another
  name (`MCAsk`). 390,777 states.
- `Payouts`: two settlers, one wallet, two payout rows, `MaxAttempts = 2`, `Limit = 2`, one charge of 1,
  two faults (`MaxFaults`). When no row is left a sweep skips the wallet (`RowsLeft`), which is a bound
  and not the code. Two payouts give a batch of two and a sweep after a sweep; two faults, so that each
  kind strikes at each point and one strikes while the other is being repaired. 95,162 states.
- `WebhookRelay`: one event, since events share nothing but slots of the queues and membership of a batch,
  and a batch that fails half-way is, for each of its events, one that failed before or after its message
  was stored; two workers, so that a relay can be reaped by another and a message can move from a dead
  consumer to a live one; two messages at a time (`Slot`), so a republished event overtakes its first message;
  `MaxAttempts = 2` (a retry and an exhaustion); `Prefetch = 1`; two faults (`MaxFaults`), so that each fault
  meets the repair of another.
- `Webhooks`: two events, so that one task of a tick fails while the other goes on; two workers; `MaxAttempts = 2`,
  `Batch = 2`, two faults. A claim does not take an event that an earlier tick of the same worker still delivers
  (`open` in `ClaimRows`): a second task of one worker on one event is left to the pair of workers.
- `Platform`: two transfers, one confirmation (which may crash) and one settler on one wallet, one payout with one aborted tick and
  a bank that may refuse: each writer meets the two others at every statement. About 770,000 states. Two
  settlers, or several intents, meet in `Payouts` and `Payments`.
- `Accounts`: five requests are a registration, a racing one of another spelling, a login, a wallet and one that competes with it; two
  passwords, one wallet currency, one fault. 290,994 states under symmetry.

**Symmetry** is used only in runs without liveness properties, over requests with the
same possible bodies, payouts and clients (`TransfersRace`, `IdempotencyOnce`, `Platform`, `Accounts`); `Books`, which `TransfersRace`
also refines, is a safety specification that is symmetric in the same sets.

**Deadlock** is checked in every run. Runs in which all requests are answered end in an explicit
`Terminated` step; the settlement and webhook
modules never end.

**Fairness.** In `GuardedTransfers` and `Payments`, one `WF` of the disjunction of all requests' steps: as long as some continuation
can run (Node) or some free lock be granted (the server, whose deadlock detector is among the steps), something does; nobody
is promised to be the next, so the property is that all arrived requests end, which the bound on retries makes true. `WF` of `SettlerStep`: the worker's loop never
returns, and `restart` policies bring it back; a merchant's own run has it too, being a handler that runs to its end. `WF` of `BecomesDue`: time passes. In `WebhookRelay`, `WF` of each relay's
loop and each handler (nothing waits for a lock), of `Delivery` (the broker hands out messages and expires
TTLs) and of an abandoned row growing old. In `Webhooks`, `WF` of each
worker's claim (the loop does not end), of each task, and of `BecomesDue` for events no task holds. No fairness is assumed of
faults, arrivals, charges or registrations.

## 4. Proofs

Every theorem holds for any sets of wallets, requests, keys, intents, payouts, events, workers..., any limits and whatever faults
are allowed, from the assumption its module states about the constants (their types; distinct wallets in a body; limits of one at
least; and what the code relies on, such as that `"none"`, which stands for nobody, is no request, event or worker). Where a theorem needs more,
it says so as a hypothesis:

- `IsFiniteSet(Transfer)`, `IsFiniteSet(Payout)`, `IsFiniteSet(Intent)`: what is counted is finite. `Webhooks` and `WebhookRelay` assume the same of their
  workers: a deployment has so many processes.
- `"slowSettler" \notin Faults` (`SettlementFaults` in `Platform`): no settler outlives the 60 second lease of what it works on. Without it the properties of
  settlement are false, which is what `PayoutsDoubleReversal` shows; every other fault is allowed.

None of the invariants that the runs check is inductive. In each module `IInv` (in `PayoutsProofs`: `MoneyInv` and `LeaseInv`)
is, and TLC checked it before it was proved; one lemma per step shows that the step keeps it.

**The store (`WalletStoreProofs`).** What each statement of `WalletStore` preserves, whoever executes it (`StoreInv`): the types;
locks that exclude each other; whoever has something pending on a wallet holds a NO KEY UPDATE or FOR UPDATE lock on it, and what is
pending is within what the table allows. So COMMIT moves a balance from one legal value to another. The services' proofs cite
these lemmas and add what a service has written at each of its statements.

The second half is about sums, which the library folds recursively and the provers cannot unfold for all sets. `IsSum(g, f, S)` says what
a partial sum is; that every finite set has one (`AdditiveExists`) and that it is the only one (`SumIsUnique`) follow by taking a
smallest subset for which it failed, since strict inclusion of finite sets is well-founded. From these: a sum changes by as much as
its members do (`TotalChanges`), and members that count nothing may be left out (`TotalOfPart`).

**Transfers (`TransfersProofs`).** `TypeCorrect`, `BooksAlwaysBalance`, `VersionsIdentifyBalances` (`SameVersionSameBalance`),
`NoDebitIsRejected` (`CheckNeverFires`), `RepliesAlwaysHonest`, and `Refinement`: `Spec => Abstract!Spec`, i.e. transfers
implement `Books`. `IInv` relates each `pc` to what the transaction has written: nothing before `ledgerDebit`, the two entries
after it, `dBalance` and `dVersion` after an update that matched, so that at `commit` the pending writes are exactly one whole
transfer and everywhere else rollback leaves no trace.
Commit is the one step that moves `balance`, and with the lock it is a `Books!Move`; every other step is
a stutter. Beyond `IInv`:

- `VersionsIdentifyBalances` and `NoDebitIsRejected` need `Seen`: a version read is at most the committed one, and equality means
  equal balances. It is apart from `IInv` since it is what the other writers break.
- `BalancesAlwaysExplained` (`TransfersExplainBalances`): a step commits one transfer or none (`CommitOrNot`), and a commit adds to the
  sum of a wallet what it adds to its balance.
- `ConflictsAlwaysHaveWinners` (`ConflictsHaveWinners`): a wallet's version is the number of committed transfers that wrote to it
  (`VersionCounts`), and for each transfer there is a set `W` of others, all committed, that is as large as the number of attempts it has
  lost, and whose members are all counted in the versions its present attempt has read (`Beaten`). An attempt that fails its version
  check missed a transfer which is in the version and not in `W`, for those of `W` were counted before: so the new winner is a new one.

**The guard (`IdempotencyProofs`).** `TypeCorrect`, `ExecutesOnce` (`AtMostOnce`), `RepliesAreReal` (`RepliesNameTheTransfer`),
`AnswersStaySaved` (`AnswersAreSaved`), `InProgressIsTrue` (`InProgressMeansRunning`) and `RefusalsStayFinal`. The invariant: a running
handler is alone on a row of its own that is in progress (`OneRunner`); an execution keeps the row of its key (`OneExecution`);
saved and sent responses name executions (`Truthful`); a final answer is saved from before it is sent (`Saved`); each as long as
nobody fell through, and `OneExecution` also as long as no commit's answer was lost. `release()` keeps it because the row it frees
is that of a handler which executed nothing, or is excused. `InProgressMeansRunning` is inductive beside it once nobody is answered
before it is done (`UnansweredUntilDone`): then an orphaned key stays orphaned (`OrphansStay`), and a runner that stops settles its
row or orphans the key. For `RefusalsStayFinal` (nobody executes under a key one of whose callers was refused: the guard's half of
`GuardedTransfers`' `RefusalIsFinal`), a handler that ends with an answer to be saved is the last one of its key (`OneEnding`), and what
is saved or answered is how a handler of the key ended (`Sourced`).

**Accounts (`AccountsProofs`).** `SessionsStayEarned` (`SessionsAreEarned`), `RepliesStayTrue` (`RepliesAreTrue`) and
`RegisteredAreLetIn` (the action property `RegisteredCanLogIn`). The invariant: a row is of the registration or creation that made
it, which is done, and is the only one of its address or of its owner and currency; a token names a login and a registration of one
address and one password (`Tokens`); a request on its way knows what it read, so that a login about to compare a password holds
the hash of the address's row (`OnItsWay`); 201 and 409 are true of the rows (`Answered`). `Frame` says once that a step of
one request leaves all of it true of the others, since rows and tokens are only added and are of the request that adds them.

**Payments (`PaymentsProofs`).** `TypeCorrect`, `BooksAlwaysBalance`, `AnswersAlwaysStayTrue` (`AnswersStayTrue`) and `PromiseIsKept`:
`Spec => Promise!Spec`, i.e. payments implement `PaymentPromise`. From the guard to COMMIT an intent is its request's (`Holds`), so
the status it looked at is the status it replaces; what it has written to the wallet (`Paid`), to the intent (`Drafted`) and to the outbox
(`Telling`: whoever was registered when the intent was created is told already or still listed) is whole at `commit`. COMMIT is then one
`Confirm` or `Cancel` of the promise, also when its answer is lost, and every other step but a registration or a creation is a stutter.

**Settlement (`PayoutsProofs`).** `TypeCorrect` and `BooksAlwaysBalance` follow from `MoneyInv`, whatever the faults. With
the hypothesis above, `LeaseInv`: what somebody holds is not due, and nobody else holds it (`OneHolder`); at each statement it is
known how many transfers the bank has made beyond those the platform failed to record (`Leased` for a settler, `Known` for a
payout). From it `SentAtMostOnceAlways`, `StatusAlwaysTellsTheBank`, `MerchantsAreAlwaysTold` and, of steps, `TerminalStaysFinal`.
`MoneyIsAlwaysConserved` (`MoneyIsConserved`) adds that a sweep or reversal that is about to commit has posted just its amount to
just its wallet (`Posted`); each of the two commits then exchanges an amount between a wallet and the share of one payout
(`Exchange`), a payment adds the same to both sides, and nothing else moves money.

**Polling workers (`WebhooksProofs`).** `TypeCorrect`, `StatusIsAlwaysTrue`, `ReceivedAtMostOnce`, `TerminalStaysFinal`. The argument
counts chances: each task that was not yet accepted, and a row that may be claimed, may bring one more 2xx; answers received and chances
together are at most one more than the reasons to repeat (`Counted`). Until its lease runs out a task is alone with its row
(`Leased`); no row, and no copy of it, counts a POST that was not made (`Tried`). Each reason is an acceptance that no row records, or a
pending row that became due under a live task; `Counted` is what shows that nothing else need be one. `TerminalStaysFinal` is of steps: none writes
`pending` over a terminal status, and none but those of a task that holds the event writes at all.

**Rabbit (`WebhookRelayProofs`).** `TypeCorrect`, `NothingIsEverLost`, `ReceivedAtMostOnce`, `FailedAlwaysMeansRefused`,
`TriedAlwaysWithinLimit`, `SettledStaysSettled`. The same count over messages, batches that are not stored yet, and the row
(`Counted`); beside it one of POSTs: those made, the attempts that the messages' headers have left (`Left`), and `MAX_ATTEMPTS` for
whatever may become a message, are within `MAX_ATTEMPTS` for the first message and for each reason (`Limited`). A row
that is published or beyond has somebody who knows of the event (`Handled`): a relay marks only what is no longer `unsent`
(`PerWorker`). The hard step is `Crash`, which returns any number of messages, one of them perhaps in two copies; `Redelivered` says of it
all that the counts need.

**The route (`TransfersProofs`, `GuardedTransfers`).** `ServiceIsTransfers`: `GuardedSpec => Spec`, each step of the route is one of the
service or leaves it alone, so that everything proved of transfers holds under the guard. `GuardAlwaysImplemented`:
`GuardedSpec => ImplementsGuard`. A statement of `transfer()` is nothing to the guard, or its handler's ending
(`HandlerIsHandled`); that this is an ending `Idempotency` allows its handler takes the invariant of transfers before and after the step,
by which a `reply` tells what was committed. `IdempotencyProofs` is then about this guard: from its
`RefusalsStayFinal` follows `RefusalsAreFinal` (`RefusalIsFinal`), and from its `ExecutesOnce` `OneKeyOneTransfer`: under one key at most
one transfer is committed in the ledger. Both go from what the guard believes was executed to what was posted (`Executed`).

**The three writers (`TransfersProofs`, `Platform`).** None of the services' invariants is about the wallets' balances alone, and each was
proved with nobody else writing. What is shown here is that nobody else matters but in one way. A step of a service writes only to its
own transaction's pending changes (`OwnWrites` of the store; `RequestStaysInside`, `SettlerStaysInside`, `OthersStand` of the
services); and a service's invariant survives any change of the store that keeps `StoreInv` and `BooksBalance` and leaves its
own transactions' pending changes alone (`OthersMayWrite`, `TransfersStand`). What one guarantees is what the others rely on, so
their invariants hold together (`TogetherInv`, `AlwaysTogether`). From it:

- `BooksBalanceForAll` (`BooksBalance`): with all three writing, whatever the faults of any;
- `AnswersHoldForAll`: callers of transfers and of payments are told the truth, in company as alone;
- `SettlementHoldsForAll`: the bank is asked once, and rows and events say what it did, in company as alone;
- `MoneyAlwaysAccountedFor` (`MoneyIsAccountedFor`): what a wallet and its payouts hold (`Held`) is what it was seeded with, what its
  confirmed intents brought (`Brought`) and what transfers moved (`MovedInto`). A commit of a transfer adds to the last what it adds to the balance
  (`CommitCounts`), a confirmation likewise to the second, being one `Confirm` of `PaymentPromise` (`CreditsAreConfirmed`); neither touches a
  payout (`RowsStay`), and settlement exchanges between a wallet and its payouts (`HeldNext`).

What is *not* carried over is `SameVersionSameBalance` and `CheckNeverFires`: they are false in company (`PlatformStale`), and `IInv` of
transfers was chosen not to contain them.

**Left to TLC.** Liveness (`EveryRequestEnds` of two modules, `EveryPayoutSettles`, `EveryEventEnds`, `EveryEventSettles`): its proofs need
`ENABLED`, which the prover has no backend for. Every other property that a passing run checks is proved. The
three violated properties are false. `WebhookRelay` is proved for any number of events, but its run has one.

## 5. What the violated runs show

- `IdempotencyFallThrough`: `claim()` returns neither `created` nor a row when the key is released between
  its INSERT and SELECT, and `middleware/idempotency.ts:46` lets such a request run the handler.
- `PayoutsDoubleReversal`: the lease covers a batch processed sequentially and is never renewed, and the
  reversal does not look at the payout again under its lock.
- `PlatformStale`: sweeps, charges and reversals change a balance without bumping its version, so a
  transfer's version check can succeed on a balance that is gone; `CHECK` then refuses it with a 500.

Known from the models without a run of their own: the broker gives a message to the consumer before the relay sees the
confirm, and `markPublished` then writes by id over `delivered`, so that the row of a delivered event may say `published` for
ever, without any fault, and `resetToPending` would in the same way send it again (the excuse of `SettledUnlessHeld`); the `try` of `processOne` holds the bank transfer and
the transaction that records it, so a database error after a successful transfer is treated as a refusal and
may end in a refund of a payout the bank made (the excuse `unrecorded`); a key whose process died stays `in_progress` for ever,
there being no lease and no clean-up, and every retry is told 409 (the excuse `Orphaned`); a consumer whose
endpoint lookup or `markFailed` fails discards the message, and an event so lost stays `published` (the
excuse `discarded`); `markDelivered` sits in the `try` of the POST, so that an event can be delivered and
dead-lettered (the excuse `again`), by either worker; a polling worker that outlives its lease writes over
whatever status and attempts the event has by then (the excuse `lapsed`), though never so that the event is sent again, as `markRetry` leaves the
status alone (`TerminalIsFinal`); a transfer whose COMMIT answer is lost is answered
500, its key released and a retry executes it again (the excuse `AckWasLost`); a 409 conflict is
saved like any answer below 500, so the retry its message asks for, under the same key, is told
the same (`RefusalIsFinal` is the other side of it: no such retry is ever charged); opposite transfers can deadlock and one is answered 500 without a retry.

## 6. What is not modelled

- Listing webhook endpoints, and `get` and `list` of intents and payouts: reads. Nothing in the code deactivates an endpoint.
- A `POST /transfers` without an `Idempotency-Key`: a 400 before anything is read or written.
- `migrate.ts` (by hand, before the processes start, one file after another), `seed.ts` and `attack.ts` (development
  scripts), and the wiring in `index.ts` and `app.ts`: they share no state with a running service. Logging, metrics
  and tracing: nothing reads what they write.
- Of the Rabbit pipeline: trace propagation, signatures, queue order (handlers run concurrently), and the
  time that messages at the head of the retry queue keep later ones waiting.
- What bcrypt and jsonwebtoken compute: a hash verifies its own password, a token is what was signed. In the
  other modules callers are authenticated merchants with their wallets.
- `version` as a 32-bit INTEGER: two thousand million transfers of one wallet.
- Serialisation of bodies and HTTP details.
- Amounts are small integers; BIGINT is `MaxBalance`.
