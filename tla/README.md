# TLA+ models and proofs of the Fewticket Stellar bridge

The bridge (`src/`, a NestJS service) lets a Laravel platform sell tickets for
USDC on Stellar. It creates orders with an 8-digit memo, watches the Horizon
payment stream, matches incoming payments to orders by that memo, credits the
orders, announces a paid order to Laravel over a webhook and answers Laravel's
call back to verify it. This directory holds TLA+ modules of the parts where
concurrency, failure and ordering matter, the TLC configurations that check
them, and theorems checked by TLAPS.

## 1. Inventory

| Component (source) | State it keeps | Operations | Hard behaviour |
|---|---|---|---|
| Stellar listener (`stellar.service.ts:69-80, 275-408`) | the stream position and the tracked-address set with the time of its last refresh, both in memory | start (resume cursor, load the set, open the stream), one asynchronous `onmessage` per operation, refresh | handlers of successive operations overlap at their awaits; a failing one is only logged; the set is stale for up to its refresh time |
| Listener state (`stellar-listener-state.service.ts`) | one row: cursor, ledger, count | `getListenerState` (find or create), `updateCursor` (read, modify, save), `getResumeCursor` | read-modify-write by overlapping handlers: the cursor can pass an operation that is not queued yet, or go back; any error on start means `'now'` |
| Incoming queue (BullMQ in Redis, external) | jobs by id, their state, the last 50 completed and 200 failed ones | `add` (ignored when the id exists), take, complete, fail, stalled check | jobs survive a crash and are rerun once; an id is forgotten once its job is removed |
| Payment processor (`transaction.processor.ts`) | handler locals | `process`, 15 at a time | every await is a point where other handlers run; a rerun repeats everything before the crash |
| Orders (`order.service.ts`, `order.entity.ts`) | `stellar_orders`: amounts, status, memo | `createOrder`, `createBridgeVirtualAccountOrder`, `applyIncomingPayment`, `verifyTransaction` | lookups and inserts race; the paid amount is read, added to and saved; the webhook is added after the save |
| Movements (`stellar-transaction.service.ts`) | `stellar_transactions`, unique by hash, address and type | `recordConfirmedMovement` (find, then insert or overwrite) | two payments of one transaction share a key |
| Wallets (`wallet.service.ts`) | wallets, wallet balances | create, sync, `payWithWalletOrder` | check-then-insert; balances are fetched, then written, by the processor's handlers and by HTTP requests |
| Outgoing payments (`stellar.service.ts:82-224`) | none; the network has sequence numbers and balances | `sendPayment`, `fundTestnetWalletByUserId` | a submission can time out and still land; calls for one account read the same sequence number |
| Webhook delivery (`webhook.processor.ts`, `webhook.service.ts`) | webhook jobs (5 attempts, exponential backoff), `webhooks` rows | insert row, POST, mark sent or failed, retry | at least once; the answer, the update or the process may be lost after the POST |
| Virtual accounts (`bridge-virtual-account.service.ts`, `bridge.service.ts`, `bridge.client.ts`) | `bridge_virtual_accounts`, Bridge's own | reuse an inactive one or create one | the answer may be lost or have no id; a repeated request carries another memo under the same idempotency key |
| Authentication (`auth.service.ts`, guards) | the one current token | issue, validate | a new token ends the previous one |
| Mail, queue dashboard, response interceptor, DTO validation, bridge stubs | none that matters | - | - |

How they interact: the listener calls the listener state (awaited) and adds
jobs to the incoming queue; the queue calls `process`, which calls orders,
movements and wallets in turn; `applyIncomingPayment` adds a job to the webhook
queue; the webhook processor POSTs to Laravel, which calls `verifyTransaction`.
All of them share one MySQL database without explicit transactions (wallet
balances and virtual-account orders excepted) and one Redis, in one Node
process: handlers interleave at awaits only, and a crash ends all of them.

What makes each part correct:

- *Listener*: every payment of a tracked address is queued, once; a restart
  resumes behind the last operation that is dealt with; addresses become
  tracked soon enough.
- *Processor and orders*: an order is paid when, and only when, the payments
  for it reach its amount; a paid order is announced; a payment counts once; a
  completed job leaves the movements that a later verification looks for.
- *Webhook delivery*: every announcement reaches Laravel, or its job is seen to
  have failed; the `webhooks` table tells the truth.
- *Order creation and virtual accounts*: a memo names one order, equal requests
  get equal answers, deposits carry the memo of an order.
- *Wallets and outgoing payments*: one wallet per user, a retried call does not
  pay twice, money that moved finds its order, and an error that a caller is told
  of means that nothing was paid.

## 2. Modules

| Module | What it is | Main correspondence |
|---|---|---|
| `PaymentProcessing` | the incoming queue and `TransactionProcessor.process` with everything it calls, and the HTTP requests that sync balances | one action per stretch between two awaits; `run[w]` holds a handler's locals |
| `OrderLedger` | the abstract specification of crediting orders | `PaymentProcessing` implements it with one worker (`ImplementsLedger`) |
| `StellarListener` | the Horizon stream, `onmessage`, the tracked addresses, the cursor, job ids and their retention | `handler[e]` holds the locals of the handler of operation `e` |
| `WebhookDelivery` | the webhook queue and `sendWebhook` | one action per await and outcome; `rows` is the `webhooks` table |
| `OrderCreation` | the order endpoints, virtual accounts and Bridge's API | `call[c]` holds the locals of a request under way |
| `OrderBook` | the abstract specification of the order endpoints: what their callers are promised | `OrderCreation` implements it (`ImplementsOrderBook`) with one fiat currency and as long as Bridge's answers have an id; with two currencies it does not |
| `WalletCheckout` | wallets, payments from them, `sendPayment` and the Stellar network | `call[c]` holds the locals of a call, `tx[n]` the transaction that call `n` submitted |
| `PaymentProcessingProofs`, `FreshCopyProofs`, `LedgerRefinementProofs`, `OrderLedgerProofs`, `StellarListenerProofs`, `WebhookDeliveryProofs`, `OrderCreationProofs`, `WalletCheckoutProofs` | theorems (section 4) | |
| `MC...` | instances for TLC | |

Operators whose comment begins with `Variant:` stand before the definition they
vary. They are plausible mistakes in that piece of code; none of the
specifications uses them. Put in place of the definition, each makes the
property it is paired with in `PROJECT.json` fail.

### PaymentProcessing

State and code: `jobs`, `stalls` are BullMQ's; `orders` has the two columns the
program changes (`paid_amount`, `status`); `movement` is `stellar_transactions`
keyed by its unique index; `balances` records which payments a stored balance
reflects instead of its number; `syncs` is what the HTTP requests that sync
balances have fetched and not stored; `outbox` is the list of webhook jobs added.

The rest is history, which only properties read. `credits` and `receipts` count
the saves that handlers made for each payment and order, whatever became of
them. `holds` is what came of them: the payments that are in the `paid_amount`
stored now. `fresh` are the handlers and requests whose copy of an order or of
balances is still what the last save left, `clobbered` and `overtaken` the orders
and wallets that were saved from one that was not. So a property can say of every
order, with any number of workers, that it holds *unless a stale copy was saved*;
the theorem `OneWorkerSavesNoStaleCopy` says when that never happens.

| Actions | Code |
|---|---|
| `Deliver`, `Take`, `RecoverStalled`, `Crash` | BullMQ and the process (external): a job found active without a worker is rerun `MaxStalled` times (BullMQ's default is 1), then fails |
| `Skip`, `Inspect` | the wallet look-ups and the Horizon read at the start of `process` |
| `Unmatched`, `Mismatch`, `ApplyPayment` | `findByMemoOrReference`, then the guards and the in-memory change of `applyIncomingPayment` |
| `SaveSelect`, `SaveUpdate` | `orderRepo.save(order)`. TypeORM's `save` reads the row again and updates the columns in which the entity differs from it; both halves interleave with other handlers |
| `Dispatch` | `dispatchPaidWebhook` |
| `FindMovement`, `SaveMovement`, `DuplicateMovement` | `recordConfirmedMovement` |
| `FetchBalances`, `SaveBalances` | `syncWalletBalancesByAddress` |
| `SyncFetch`, `SyncSave`, `SyncFail` | `syncWalletBalances` for an HTTP request, which writes the same rows |
| `Namesakes`, `Confirms`, `Verifies` (no steps) | what `verifyTransaction` answers. Its query names a reference and nothing else, so that any order with it may come back: `Verifies` asks that each of them confirms the payment |
| `Complete`, `Fail` | the end of `process`; any await may throw and the job has no attempts |

Abstractions. Amounts are integers of 0.0000001, so that `toFixed(6)` is
`ToFixed6`. What a payment's memo and currency mean is part of the instance:
`found` are the orders that the query by memo or reference may return, `applies`
those the guards accept. Orders and wallets do not come or go during a run. A
worker takes any waiting job, which includes BullMQ's order. An error after an
update took effect is the update followed by `Fail`. The rewrite of an existing
movement row is one step. A lock that expires while its worker is alive
(stalled event loop) is left out. The branch of `applyIncomingPayment` for
`overpaid` is never reached: the test before it accepts every larger amount.

### StellarListener

`closed` counts the operations on the ledger, `position` how far this life of
the process has been told. `handler[e]` is the `onmessage` call of operation
`e`; up to `MaxInFlight` of them wait at an await (a bound on what is explored:
the stream does not wait for `onmessage`, and the theorems hold for any
`MaxInFlight`). `tracked` and `refreshedAt` are the address cache; `rows` and
`first` the state table and the row `findOne` returns; `waiting`, `active`,
`completed` the queue as far as job ids go. `cut` is history: the operations
whose last handler failed, or was killed when the cursor had already passed them.

| Actions | Code |
|---|---|
| `ReadCursor`, `ReadCursorFails`, `Open` | `onModuleInit`: `getResumeCursor` (an error means `'now'`), the first refresh, `startListener` |
| `Receive` | the stream calls `onmessage`; a fresh cache is compared at once |
| `LoadWallets`, `Refresh` | `refreshTrackedAddressCache`: the query, then the set is replaced |
| `Add` | `incomingTransactionQueue.add` with the paging token as job id |
| `FindState`, `CreateState`, `SaveCursor` | `updateCursor` and `getListenerState` |
| `HandlerFails` | the `catch` of `onmessage` |
| `Close`, `CreateWallet`, `Tick`, `Crash`, `Process`, `Complete` | the ledger, `createUserWallet`, time, the process, the workers |

Abstractions. The ledger and count columns are dropped: nothing reads them. A
wallet's key is used only after it has been handed out, that is after its row
is committed. Failed jobs and their retention, and the limit on reruns, are
left to `PaymentProcessing`. The stream's own reconnection is not modelled: it
resumes after the last operation delivered.

### WebhookDelivery

`rows[w]` are the rows that the tries of job `w` left, `received[w]` (history)
says which of those POSTs Laravel got. `Insert`, `Post`, `MarkSent`,
`MarkFailed`, `Finish` are the awaits of `sendWebhook`, each with a failing
twin that may have had its effect. `FailAttempt` is BullMQ's count of attempts
with the delay before the next; how long that is stays open. The worker has
BullMQ's default concurrency of one.

### OrderCreation

`orders` and `rows` are `stellar_orders` and `bridge_virtual_accounts`, `bridge`
what Bridge keeps: the memo it puts on the payments of each account. An account
is named by the idempotency key it was created under. `told`, `asked` and
`astray` are history: the answers callers got, how often Bridge was asked for a
request's account, and the orders saved after an answer of Bridge without an id.

| Actions | Code |
|---|---|
| `Call`, `FindOrder`, `FindNone` | the endpoints and the lookup by reference (`order.service.ts:68`, `:180`); only `createBridgeVirtualAccountOrder` looks at the currency |
| `DrawMemo`, `NoMemo` | `generateUniqueMemo`: one action per attempt |
| `FindInactive`, `Reactivate`, `CreateAccount`, `Refuse`, `AnswerWithoutId`, `LoseAnswer` | `generateVirtualAccountNumberForNewOrder` and what Bridge does with its POST |
| `Save`, `Reject` | the insert, with the account's in one transaction; the unique indexes let it in or roll it back |
| `Respond`, `Fail`, `Crash` | the answer; an await that throws or an answer that does not arrive; the process |
| `Deactivate` | an operator (external): no code of the program sets a row to inactive |

Amounts are left out, no lookup and no index compares them. `Reactivate` ends
the call: the request names the account by the id of the bridge's own row
(`bridge-virtual-account.service.ts:28`), which Bridge does not know, so that
its error reaches the caller. Whether Bridge answers or refuses a key it has
seen with another body is left open. The upsert of the account names a column
that has no unique index; MySQL finds no conflict and inserts, so `Save` counts
rows instead of finding them. When Bridge's answer has no id
(`bridge.service.ts:97`) the row is inserted without an account and looked up
with an id that is `undefined`: TypeORM leaves such a condition out, and any row
may come first (`Found`).

### WalletCheckout

`wallets` and `stored` are `wallets` and `wallet_balances`; `orders` is the part
of `stellar_orders` that `createOrder` gives this call; `chain` and `tx` are the
Stellar network (external). A wallet remembers (history) which wallets existed
when its call arrived, a transaction which had landed when its sequence number
was read.

| Actions | Code |
|---|---|
| `Create`, `FindWallet`, `SaveWallet` | `createUserWallet` |
| `Sync`, `FetchBalances`, `SaveBalances` | `syncWalletBalances`, `getWalletBalances`, `applyChainBalancesToWallet` |
| `Fund`, `Ensure`, `Friendbot` | `fundTestnetWalletByUserId`, `ensureTestnetDestinationAccount`, `fundTestnetWallet` |
| `Pay`, `Refuse`, `EnsureOrder` | `payWithWalletOrder` up to the payment, with `createOrder` |
| `LoadAccount`, `Submit`, `Answer`, `Fail` | `sendPayment`; a submission that fails says nothing about its transaction |
| `Land`, `Bounce`, `Drop`, `Trust` | the network: a transaction lands when its number is next and its source can pay, is refused, or expires |

`EnsureOrder` finds or adds the order of a reference; the races of `createOrder`
are `OrderCreation`'s. The module ends where a payment has landed on the
platform: whether the listener and the processor then credit it is the subject
of their own modules, which show that it may fail (`listener_gap`,
`lost_update`), and nothing is promised of it here. Fees, reserves and the memo
of a funding payment only make a call or a transaction fail, which `Fail` and
`Drop` do. Encryption of the secret key is left out.

## 3. Runs

| Run | Question | Instance and why it is enough |
|---|---|---|
| `processing_concurrent` | Does anything that two interleaving handlers and a balance sync do make an order paid too early, silence its announcement, or complete a job without its order's credit, its movements and its balances? | 2 workers and 1 HTTP sync, 4 payments: one of a tracked wallet, two of one transaction (same unique key), one without memo; amounts 10, 4, 14 of 20, so that pairs and triples pay, overpay and round; two other orders share a reference; 1 failing await (826,607 states) |
| `processing_crash` | What survives two crashes and the reruns? | 2 workers, 2 payments: one that may mean either of two orders of one reference, and pays only when it is saved twice; one that is the only one of its order (with amount 0, as virtual-account orders are created); 2 crashes exceed `MaxStalled` = 1; FairSpec for `JobsSettle` and `AnnouncedIsVerifiable` (35,688 states) |
| `processing_serial` | Does the ledger hold through many payments of one worker? | `BULL_INCOMING_CONCURRENCY` = 1; 6 payments including another currency, a refund and a payment between others; 1 failing await; FairSpec, because the ledger promises that a due announcement is sent or lost (82,446 states) |
| `listener` | What may overlapping handlers, refreshes, a crash and an error skip, repeat, miss or take back? | 3 operations, 2 handlers at a time, 2 workers, 1 completed job kept; 3 instants, a wallet created at any of them and a refresh interval of 1; a crash and a failing await. Every order of two refreshes and the wallet's birth occurs, and so do a payment that is skipped, one that is queued again because it was forgotten, two state rows and a start at `'now'` (528,915 states) |
| `webhook` | Do the rows tell the truth, are tries bounded, does every webhook arrive? | 2 jobs of 2 attempts, 3 errors (one more than attempts), 2 crashes (one more than reruns) |
| `orders` | What do memo, account and answer mean when calls race, repeat and fail? | 2 calls at a time, 3 in all, for one reference (lookups and keys compare nothing else) in 2 currencies and both services; 2 memos and 2 attempts, so that draws collide and run out; an error, a lost answer or one without an id, and a crash (304,206 states) |
| `wallets` | Two wallets, two payments, an error: when, and what does an error mean? | 2 creations for one user with 2 key pairs, a funding, a sync, 2 payments of 1 or 2 for one order from wallets that may hold 2, so that a stored balance can be stale and a transaction can bounce; one error, timeout or crash; XLM and USDC (815,672 states) |

Every run sets `CHECK_DEADLOCK FALSE`: once all payments, operations, calls or
jobs are dealt with the system rests.

Where a property does not hold of everything, its statement says of what it does,
and the exception is a run's finding or listed below. `NothingLost`, `FullyPaid`,
`AnnouncedStaysPaid` and `CompletedIsCredited` except orders that were saved from
a stale copy (`lost_update` shows one), `CompletedIsReflected` wallets whose
balances were, `CompletedIsVerifiable`, `AnnouncedIsVerifiable` and the second
half of `LonePaymentSettles` orders that share their reference. `SkippedOnlyByFault`
and `EventuallyQueued` except the payments whose own handler was cut short
(`listener_gap`) and what lies before a start at `'now'`. `AccountBelongsToOneOrder`
and `DepositCarriesOrderMemo` except orders made after an answer without an id,
`AnswersAgree` Stellar orders in two currencies (`currency_answer`).
`ImplementsLedger` is about one worker without crashes.

### What the code does not do

Five runs show where the program differs from what the repository says of it.

| Run | What happens |
|---|---|
| `lost_update` | two handlers add their payment to the same `paid_amount`; the order that received its amount stays `partial_paid` |
| `lost_webhook` | a crash between the save and the webhook; the rerun finds the order paid and never announces it |
| `unreconciled_deposit` | virtual-account orders are given the Bridge address; a deposit there is queued and its job completes, but `process` matches only payments to the platform address |
| `currency_answer` | two Stellar requests for one reference in two currencies; the second is answered with the order of the first, although the unique index is there "to allow same reference for different services and currencies" |
| `listener_gap` | a later operation's cursor is saved before an earlier payment is queued; a crash in between skips that payment for good |

Others came up in modelling and are left to what the properties say:

- A job rerun after a crash adds its payment again; `CreditsBounded` says how
  often. An order that only this job pays is at least still paid
  (`LonePaymentSettles`).
- The job of a deposit at the Bridge address completes without an order; of a
  payment to the platform address that applies to its order none does
  (`CompletedIsCredited`).
- `verifyTransaction` looks an order up by its reference alone: for a reference
  that two services or currencies share it may answer about the other order.
- The amount of a virtual-account order is 0, so that any payment that applies to
  it makes it paid (the order `o2` of `processing_crash`).
- A job that fails after its order was credited leaves out the movements and
  balances that were still to come; nothing repairs them.
- Two payments of one transaction to one address have one movement row: the second
  overwrites the first, or its insert fails its job (`JobsFailForAReason`).
- A balance fetched earlier may be stored later, by an HTTP request as well
  (`CompletedIsReflected` excepts it); the next sync heals it.
- `paid_amount` has six decimals, Stellar amounts seven: `NothingLost` and
  `FullyPaid` say how much is rounded away.
- A failed `add` skips its payment as in `listener_gap`, without a crash.
- A restart delivers operations behind a cursor that an earlier handler saved last.
  When Redis has forgotten the job of one by then, it becomes a second job and its
  payment is credited again; `RequeuedOnlyIfForgotten` says how rare that is.
- An error while the cursor is read on start skips what arrived meanwhile.
- `getListenerState`, "singleton per app instance", makes two rows when the
  first read fails and two handlers overlap.
- A virtual-account request that is repeated after a lost answer gets an order
  with a memo that Bridge does not put on its deposits
  (`DepositCarriesOrderMemo` excepts it).
- After an answer of Bridge without an id an order may be given the row, and so the
  bank details, of another order (`AccountBelongsToOneOrder` excepts it).
- While one row of `bridge_virtual_accounts` is inactive, no virtual-account
  order can be created.
- A payment that failed with a timeout and is repeated once it has landed moves
  money twice (`PaidTwiceOnlyAfterLanding`).
- A wallet may pay in XLM, but every order is in USDC: that money moves and
  is never added to the order.
- Two overlapping requests make two wallets for one user
  (`SecondWalletOnlyByRace` says that nothing else does).
- No code makes an account trust USDC, so a wallet can hold it only when
  somebody else with its key does (`Trust`).

### Fairness

All fairness below rests on an assumption that the code does not enforce: an
awaited call returns or throws. `bridge.client.ts:19`, for one, gives axios no
timeout, so that a peer which accepts a request and never answers holds its call
for as long as the connection lasts.

`PaymentProcessing`: weak fairness of each worker's next step and of the stalled
check, which BullMQ makes every 30 seconds. Taking a job is part of a worker's
work: a worker that is idle while a job waits takes one. No fairness makes a
payment or a request arrive, a process crash or an await throw.

`StellarListener`: the process is restarted (`restart: always` in
`docker-compose.yml`), the stream delivers what is on the ledger, and the steps of
a handler are weakly fair, however many handlers are at work.

`WebhookDelivery`: the worker's steps, the timers (`Promote`) and the stalled
check are weakly fair. `Take(w)` is strongly fair: there is one worker, so
taking `w` is disabled again and again while others are served, and BullMQ
serves waiting jobs first in, first out.

`OrderCreation`: the steps of a call are weakly fair. `WalletCheckout` states no
fairness: all of its properties are about safety, and neither a caller nor the
network has to do anything.

## 4. Theorems

Proved by TLAPS for every value of the constants (any number of payments,
orders, workers, crashes and errors), from the assumptions `ConstantsAssumption`,
`DataAssumption`, `ListenerAssumption`, `DeliveryAssumption`,
`CreationAssumption` and `CheckoutAssumption` that TLC evaluates on every run,
and `LedgerAssumption`.

| Theorem | States | Argument |
|---|---|---|
| `TypeCorrect` | `[]TypeOK` | `TypeOK` is not inductive: an action uses the job, order and leg of a handler, which must be there at that step. `LocalsOK` says what each step's locals are, `Ownership` that an active job has at most one worker and a worker's job is active |
| `CreditsAreBounded` | `[]CreditsBounded` | strengthened by: the credits of a job that waits, or whose handler has not saved yet, are at most its reruns |
| `PaidOrdersAreBacked` | `[]PaidIsBacked` | the amount an entity or a row holds is at most the payments saved so far plus half a unit each, whichever snapshot it came from; the count of payments is what makes stale columns harmless |
| `PaidOrdersAreAnnounced` | `[]PaidIsAnnounced` | `AnnounceInv`: a row that says paid, and a handler that has read it as paid, imply that the announcement is made, being made or excused by a failure; whoever writes `paid` without having read it announces |
| `CompletedJobsAreCredited` | `[]CompletedIsCredited` | `CreditedInv`: a payment to the platform is never skipped, and the only way past an order it applies to is the save. `KeptInv` and `FreshInv`: a fresh entity has in it all that the row holds, and a payment of at least half a sixth decimal makes `paid_amount` dirty, so the save really writes it |
| `LonePaymentsSettle` | `[]LonePaymentSettles` | `LoneFrame`: only its own handler writes such an order, and a job has one handler. `PaysInv`: every save of a covering payment leaves the order paid, also a rerun's. `LoneInv`: what row, entity and announcement are at each await of a handler that was not interrupted |
| `CompletedJobsAreRecorded`, `CompletedJobsAreVerifiable` | `[]CompletedIsRecorded`, `[]CompletedIsVerifiable` | every leg that a handler has behind it is recorded, and a row is only replaced by one of the same transaction, which can mean the same orders; where the reference is of one order, the query by reference returns that one |
| `JobsFailForAReason` | `jobs[p] = "failed"` only after an error, after more than `MaxStalled` crashes, or when another payment of the transaction owes the same movement and there are two workers | `FaultsInv`: each crash is counted by one stalled check at most; the unique index rejects an insert only for a row that another handler wrote between `FindMovement` and `SaveMovement`, and a job has one handler |
| `NothingIsLost`, `OrdersAreFullyPaid`, `AnnouncedOrdersStayPaid` | `[]NothingLost`, `[]FullyPaid`, `[]AnnouncedStaysPaid`, for any number of workers, crashes and reruns | `FreshInv`: the entity of a fresh handler is the row plus its payment, and an order saved from no other entity is what was added to it; whoever finds it unpaid is the first and only one to announce it |
| `OneWorkerSavesNoStaleCopy` | `[](clobbered = {})`, assuming `OneWorker` | `NoStaleCopy`: the one handler that holds a copy is fresh, and a crash drops its copy; so the row above holds of all orders |
| `LedgerIsExact` | for orders not saved from a stale copy: `paidAmount` is the sum saved and `paid` holds iff it reaches the amount, assuming `SixDecimals` | `ExactInv` with `FreshInv`: a fresh entity is saved whole, and rounding does nothing to six decimals |
| `CompletedJobsAreReflected` | `[]CompletedIsReflected`, for any number of handlers and requests | `ReflectedInv`: a fresh snapshot has every payment whose balances were stored before, and a payment is on the ledger before its job runs |
| `WorkersImplementLedger` | `Spec => Ledger!Safety`, assuming `OneWorker` and `MaxCrashes = 0` | `RefinementInv`: `FreshInv`, `NoStaleCopy`, the invariant of `CreditsAreBounded` and `UnstalledInv`; without a crash no job is stalled, so no payment is added twice. `NoticeFacts` turns the mapped notice into the handler's step, and each action is one of the ledger's or changes nothing it knows; an error between the save and the webhook is `Lose` |
| `NoticeAlwaysFollowsStatus` | of `OrderLedger`: `[]NoticeFollowsStatus` | a paid order's rounded amount has reached its amount, because amounts have six decimals; so no later payment can make it unpaid |
| `ListenerTypeCorrect` | `[]TypeOK` | strengthened by `HandlerInv` and `CursorInv`: handlers live with their process and follow the stream, and nothing saved is ahead of the ledger |
| `CursorNeverBehindStart` | `[]NotBehindStart` | `StartInv`: a process that resumed from a cursor has a row, so none of its handlers makes another, and whatever they save is later than the start |
| `OldWalletsAreNotMissed` | `[]OnlyNewWalletsAreMissed` | `CacheInv`: a wallet the cache lacks is no older than the stamp of the cache, because the stamp is taken before the query; a handler that refreshed itself sees all wallets its operation can concern |
| `OnlyFaultsSkip` | `[]SkippedOnlyByFault`, for any number of overlapping handlers, crashes and errors | `GapInv`: what the stream has delivered and no handler works on is queued, irrelevant or cut (`SettledInv`); a handler that has reached `updateCursor` has queued its operation; the cursor never passes the stream, so a crash leaves everything behind it settled and a restart delivers the rest (`ResumeInv`) |
| `RequeuesAreRare` | `[]RequeuedOnlyIfForgotten` | `RequeueInv`: each life of the process adds an operation once at most (`DeliveryInv`), no id is twice in the queue (`JobsInv`), and an id that is no longer known was pushed out by `Retained` others (`ForgottenInv`) |
| `DeliveryTypeCorrect` | `[]TypeOK` | strengthened by `HandlerInv`: the job under way is active and has its row |
| `SentRowsAreReceived`, `CompletedJobsAreSent` | `[]SentIsReceived`, `[]CompletedIsSent` | `RowInv`: what the newest row and its POST are at each step of the try |
| `TriesAreBounded` | `[]TriesBounded` | `TriesInv`: rows of a job that waits are at most its attempts and reruns, one more while it is active |
| `SettledWebhooksAreReceived` | `[]SettledIsReceived`: a completed webhook was received, and one is given up only after `Attempts` errors or more than `MaxStalled` crashes | `FaultsInv`: failed tries are at most the errors, stalls at most the crashes, one fewer while the try or the crash is still to be counted |
| `CreationTypeCorrect` | `[]TypeOK` | strengthened by what the locals of a call are at each of its steps |
| `AccountsAreNotShared` | `[]AccountBelongsToOneOrder` | unless Bridge's answer had no id, an account's name is the key of its order's request, rows and orders are inserted together, and the index lets one order of a request in (`OrderInv`, `RowInv`) |
| `DepositsCarryOrderMemo` | `[]DepositCarriesOrderMemo` | while Bridge has been asked once, the one call that asked carries the memo Bridge keeps until its order is inserted |
| `SoloDepositsCarryOrderMemo` | `bridge[o.account] = o.memo` for every order with an account while nothing has failed, assuming one client | `SoloInv`: no account is asked for again, because the account of a call was inserted with an order of its reference, or is about to be |
| `AnswersAlwaysAgree` | `[]AnswersAgree` | what a call is about to answer is in the table and was matched by its request; orders are never changed |
| `EndpointsImplementOrderBook` | `Spec /\ [](astray = {}) => ImplementsOrderBook`, assuming one currency (with two it does not hold: `currency_answer`) | with one currency the lookup is by the whole request, so what is told was asked for; an insert is `Register`, because an account's name is the key of its request |
| `OneCurrencyAnswersAgree` | equal requests are told the same order, assuming one currency | the lookup by reference and service then says as much as the unique index |
| `CheckoutTypeCorrect` | `[]TypeOK` | a transaction lands only when its source can pay, and a source other than its destination keeps balances natural |
| `SecondWalletsAreRaces` | `[]SecondWalletOnlyByRace` | `CallInv`, `RowInv`: a call that has found no wallet arrived before any wallet of its user that is saved by then |
| `SecondPaymentsFollowLanding` | `[]PaidTwiceOnlyAfterLanding` | `SentInv`, `LandedInv`: what lands without having landed when a sequence number was read cannot have a smaller number; a number is used once |
| `LandedMoneyHasAnOrder` | `[]LandedMoneyFindsItsOrder` | `SentInv`: the order of every transaction sent by a payment is saved and stays, whatever becomes of its call |
| `FaultlessFailureMovesNothing` | `[]FailureMovesNothing` | `ToldInv`: the call that has sent a transaction ends with Horizon's answer, or with a fault |

Only model-checked: liveness (`JobsSettle`, `AnnouncedIsVerifiable`,
`EventuallyQueued`, `WebhooksSettle`, `EventuallyReceived`, `CallsEnd`), which
needs fairness and `ENABLED`. Of `JobsSettle`, `EventuallyQueued` and
`EventuallyReceived` the safety halves are proved: how a job or a webhook that has
ended can have ended, and what can be left behind the cursor
(`CompletedJobsAreCredited`, `JobsFailForAReason`, `OnlyFaultsSkip`,
`SettledWebhooksAreReceived`); that it ends is left to TLC. Also only model-checked
is the fair part of `ImplementsLedger` (after a crash it does not hold: a rerun
adds its payment again). That `receipts` and `credits` agree for every set of payments is not
proved either, because it is a sum over a set of any size.

## 5. Not modelled

- *Composition of listener, processor and Laravel in one module.* Each is
  checked against what the next one needs (a payment is queued; its job ends;
  the webhook arrives; the verification succeeds), as far as each really holds;
  the exceptions of one are not repaired by the next. A joint state space of
  overlapping handlers on both sides is out of TLC's reach.
- *The second process.* `docker-compose.yml` starts a live and a sandbox process
  on one Redis; the modules are about one.
- *Authentication.* One token in memory; issuing and comparing it are single
  assignments without an await.
- *The rest of the Bridge client* (customers, wallets, account activity,
  deactivation): it passes a request on and keeps nothing. Bridge transactions and
  Bridge webhooks are stubs.
- *Mail* (nothing adds a job), the queue dashboard, the response interceptor,
  DTO validation and utilities.
- *Real time.* Timeouts and backoff happen at any time; a lock of BullMQ that
  expires while its worker is alive is left out.
