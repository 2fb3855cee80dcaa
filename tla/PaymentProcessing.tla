------------------------- MODULE PaymentProcessing -------------------------
(***************************************************************************)
(* The worker side of the bridge: the incoming-transactions queue and the  *)
(* TransactionProcessor that matches each Stellar payment to an order,     *)
(* credits the order, announces a paid order to Laravel and records the    *)
(* movements and balances (src/queue/transaction.processor.ts, the parts   *)
(* of order.service.ts, stellar-transaction.service.ts and                 *)
(* wallet.service.ts it calls).                                            *)
(*                                                                         *)
(* A handler yields at every await, so each action below runs from one     *)
(* await to the next and the handlers of several workers interleave.       *)
(* repository.save(entity) is two steps, as in TypeORM 0.3: a SELECT of    *)
(* the row, whose difference from the entity gives the dirty columns, and  *)
(* an UPDATE of those columns only. The HTTP requests that sync a wallet's *)
(* balances run in the same process and write the same rows.               *)
(*                                                                         *)
(* Amounts are integers of 0.0000001 (the stroop); the database keeps six  *)
(* decimals, i.e. multiples of 10.                                         *)
(***************************************************************************)
EXTENDS Naturals, Sequences, FiniteSets

CONSTANTS
  Payment,      \* payment operations on the ledger: one queue job each
  Order,        \* rows of stellar_orders
  Reference,    \* the reference of each order; several orders may have one
  Worker,       \* concurrent handlers (BULL_INCOMING_CONCURRENCY, default 15)
  Request,      \* balance syncs that HTTP clients may have in flight at a time
  Hash,         \* transaction hashes; one transaction may hold many payments
  Address,      \* Stellar public keys
  Wallet,       \* the addresses that have a row in the wallets table
  Platform,     \* STELLAR_PUBLIC_KEY
  None,         \* no job, no order, no row
  Data,         \* what the ledger says of each payment, see DataType
  AssetAmount,  \* the amount each order expects
  MaxStalled,   \* BullMQ's maxStalledCount: how often a lost job is rerun
  MaxCrashes,   \* bound on the crashes explored
  MaxFailures   \* bound on the failing awaits explored

\* found: the orders the query by memo or reference can return (it has no
\* ORDER BY, and the database compares strings without case).
\* applies: those whose memo is equal to the letter and whose currency is the
\* payment's.
DataType == [hash : Hash, amount : Nat, from : Address, to : Address,
             found : SUBSET Order, applies : SUBSET Order]

ASSUME ConstantsAssumption ==
  /\ Wallet \subseteq Address
  /\ Platform \in Address
  /\ None \notin Payment \cup Order \cup Address
  /\ Worker \cap Request = {}
  /\ None \notin [order : Order \cup {None}, amount : Nat]
  /\ AssetAmount \in [Order -> Nat]
  /\ \A o \in Order : AssetAmount[o] % 10 = 0   \* asset_amount is decimal(18,6)
  /\ MaxStalled \in Nat /\ MaxCrashes \in Nat /\ MaxFailures \in Nat

ASSUME DataAssumption ==
  /\ Data \in [Payment -> DataType]
  /\ \A p \in Payment : Data[p].applies \subseteq Data[p].found
  \* The memo belongs to the transaction.
  /\ \A p, q \in Payment : Data[p].hash = Data[q].hash
                             => Data[p].found = Data[q].found

VARIABLES
  jobs,       \* state of each payment's job in the queue
  stalls,     \* BullMQ's stalled counter of each job
  run,        \* the local variables of each worker's handler
  orders,     \* stellar_orders: paid_amount and status
  outbox,     \* webhook jobs added, in order
  movement,   \* stellar_transactions, by its unique index
  balances,   \* the payments each wallet's stored balances reflect
  syncs,      \* what each request that syncs balances has in its hands
  crashes, failures,  \* counters for the bounds
  \* History, which no step reads:
  credits,    \* how often a handler of each payment saved an order for it
  receipts,   \* number and sum of the payments saved for each order
  holds,      \* the payments that are in each order's stored paid_amount
  fresh,      \* whose copy of an order or of balances nobody has saved since it was read
  clobbered,  \* orders that were saved from a copy that was not fresh
  overtaken   \* wallets whose balances were last saved from a copy that was not fresh

vars == <<jobs, stalls, run, orders, outbox, movement, balances, syncs, crashes,
          failures, credits, receipts, holds, fresh, clobbered, overtaken>>

store   == <<orders, outbox, movement, balances, syncs>>
bounds  == <<crashes, failures>>
tallies == <<credits, receipts, holds, clobbered>>
history == <<tallies, fresh, overtaken>>

-----------------------------------------------------------------------------
(* Values. *)

JobState == {"absent", "waiting", "active", "completed", "failed"}

\* The statuses this program writes; the other members of the enum are never set.
OrderStatus == {"pending", "partial_paid", "paid"}

\* Variant: rounds up.
ToFixed6RoundUp(x) == 10 * ((x + 9) \div 10)

\* Variant: truncates.
ToFixed6Truncate(x) == 10 * (x \div 10)

\* Decimal.toFixed(6), which rounds half up; MySQL's decimal(18,6) rounds
\* an inserted value in the same way.
ToFixed6(x) == 10 * ((x + 5) \div 10)

\* Variant: an overpaid order gets a status of its own.
StatusForOverpaid(o, total) ==
  IF total > AssetAmount[o] THEN "overpaid"
  ELSE IF total = AssetAmount[o] THEN "paid" ELSE "partial_paid"

\* Variant: the expected amount itself does not count as paid.
StatusForStrict(o, total) ==
  IF total > AssetAmount[o] THEN "paid" ELSE "partial_paid"

\* The status for an order that has received total.
StatusFor(o, total) ==
  IF total >= AssetAmount[o] THEN "paid" ELSE "partial_paid"

\* What order o has received once payment p is added.
Total(o, p) == orders[o].paidAmount + Data[p].amount

\* Variant: wasAlreadyPaid is read after the status is set.
AnnouncesNever(r) == LET wasPaid == r.status = "paid" IN r.status = "paid" /\ ~wasPaid

\* Variant: wasAlreadyPaid is not looked at.
AnnouncesAlways(r) == r.status = "paid"

\* Whether the handler that saved entity r goes on to announce the order.
Announces(r) == r.status = "paid" /\ ~r.wasPaid

Columns == {"paidAmount", "status"}

\* The columns in which an entity differs from its row.
Differences(entity, row) ==
  {c \in Columns : \/ c = "paidAmount" /\ entity.paidAmount # row.paidAmount
                   \/ c = "status" /\ entity.status # row.status}

MovementKey == Hash \X Address \X {"credit", "debit"}

Pc == {"idle", "start", "match", "saveSelect", "saveUpdate", "dispatch",
       "findMovement", "saveMovement", "fetchBalances", "saveBalances",
       "finish"}

\* A handler's locals. order is matchedOrderId; paidAmount and status are the
\* order entity's; wasPaid is wasAlreadyPaid; exists says whether findMovement
\* returned a row; leg is the movement being recorded; snapshot is what
\* Horizon answered. sums (history) are the payments in paidAmount.
Locals == [pc : Pc, job : Payment \cup {None}, order : Order \cup {None},
           paidAmount : Nat, sums : SUBSET Payment,
           status : OrderStatus, wasPaid : BOOLEAN,
           dirty : SUBSET Columns, leg : 0..5, exists : BOOLEAN,
           snapshot : SUBSET Payment]

Idle == [pc |-> "idle", job |-> None, order |-> None, paidAmount |-> 0,
         sums |-> {}, status |-> "pending", wasPaid |-> FALSE, dirty |-> {},
         leg |-> 0, exists |-> FALSE, snapshot |-> {}]

\* No request at work.
NoSync == [address |-> None, snapshot |-> {}]

-----------------------------------------------------------------------------
(* The movements a payment leads to: the four blocks at the end of process. *)

SenderWallet   == 1
ReceiverWallet == 2
PlatformDebit  == 3
PlatformCredit == 4
NoMore         == 5

Due(p) ==
  LET d == Data[p] IN
  {k \in 1..4 :
     \/ k = SenderWallet   /\ d.from \in Wallet
     \/ k = ReceiverWallet /\ d.to \in Wallet
     \/ k = PlatformDebit  /\ d.from = Platform /\ d.from \notin Wallet
     \/ k = PlatformCredit /\ d.to = Platform /\ d.to \notin Wallet}

Involved(p) == Due(p) # {}

LegAddress(p, k) ==
  IF k \in {SenderWallet, PlatformDebit} THEN Data[p].from ELSE Data[p].to

LegType(k) == IF k \in {SenderWallet, PlatformDebit} THEN "debit" ELSE "credit"

Key(p, k) == <<Data[p].hash, LegAddress(p, k), LegType(k)>>

\* Variant: the platform block of its own forgets the orderId.
LegOrderOfWallet(p, k, o) ==
  IF LegType(k) = "credit" /\ Data[p].to = Platform /\ Platform \in Wallet THEN o ELSE None

\* The orderId of the row: only a credit to the platform carries one.
LegOrder(p, k, o) ==
  IF LegType(k) = "credit" /\ Data[p].to = Platform THEN o ELSE None

\* Variant: off by one.
NextLegOffByOne(p, k) ==
  LET later == {l \in Due(p) : l > k + 1} IN
  IF later = {} THEN NoMore
  ELSE CHOOSE l \in later : \A m \in later : l <= m

NextLeg(p, k) ==
  LET later == {l \in Due(p) : l > k} IN
  IF later = {} THEN NoMore
  ELSE CHOOSE l \in later : \A m \in later : l <= m

\* Locals of handler r, which worked for order o, once leg k is behind it.
AfterLeg(r, o, k) ==
  LET l == NextLeg(r.job, k) IN
  [Idle EXCEPT !.pc = IF l = NoMore THEN "finish" ELSE "findMovement",
               !.job = r.job, !.order = o, !.leg = l]

Row(p, k, o) == [order |-> LegOrder(p, k, o), amount |-> ToFixed6(Data[p].amount)]

-----------------------------------------------------------------------------
Init ==
  /\ jobs = [p \in Payment |-> "absent"]
  /\ stalls = [p \in Payment |-> 0]
  /\ run = [w \in Worker |-> Idle]
  /\ orders = [o \in Order |-> [paidAmount |-> 0, status |-> "pending"]]
  /\ outbox = <<>>
  /\ movement = [k \in MovementKey |-> None]
  /\ balances = [a \in Wallet |-> {}]
  /\ syncs = [r \in Request |-> NoSync]
  /\ crashes = 0 /\ failures = 0
  /\ credits = [p \in Payment |-> 0]
  /\ receipts = [o \in Order |-> [count |-> 0, sum |-> 0]]
  /\ holds = [o \in Order |-> {}]
  /\ fresh = {} /\ clobbered = {} /\ overtaken = {}

(* The queue. *)

\* The listener adds the job of a payment it saw on the stream. The job id is
\* the payment's paging token, so a second add is ignored.
Deliver(p) ==
  /\ jobs[p] = "absent"
  /\ jobs' = [jobs EXCEPT ![p] = "waiting"]
  /\ UNCHANGED <<stalls, run, store, bounds, history>>

Take(w) ==
  /\ run[w].pc = "idle"
  /\ \E p \in Payment :
       /\ jobs[p] = "waiting"
       /\ jobs' = [jobs EXCEPT ![p] = "active"]
       /\ run' = [run EXCEPT ![w] = [Idle EXCEPT !.pc = "start", !.job = p]]
  /\ UNCHANGED <<stalls, store, bounds, history>>

\* The job of worker w ends with the given outcome.
EndJob(w, outcome) ==
  /\ jobs' = [jobs EXCEPT ![run[w].job] = outcome]
  /\ run' = [run EXCEPT ![w] = Idle]

\* The process dies: every handler and request is gone, Redis and the database
\* stay.
Crash ==
  /\ crashes < MaxCrashes
  /\ \E w \in Worker : run[w].pc # "idle"
  /\ crashes' = crashes + 1
  /\ run' = [w \in Worker |-> Idle]
  /\ syncs' = [r \in Request |-> NoSync]
  /\ fresh' = {}
  /\ UNCHANGED <<jobs, stalls, orders, outbox, movement, balances, failures,
                 tallies, overtaken>>

\* Variant: reruns are not counted.
RecoverStalledUncounted(p) ==
  /\ jobs[p] = "active"
  /\ \A w \in Worker : run[w].job # p
  /\ jobs' = [jobs EXCEPT ![p] = "waiting"]
  /\ UNCHANGED <<stalls, run, store, bounds, history>>

\* Variant: a job that stalled too often is left alone.
RecoverStalledOnce(p) ==
  /\ jobs[p] = "active"
  /\ \A w \in Worker : run[w].job # p
  /\ stalls[p] < MaxStalled
  /\ stalls' = [stalls EXCEPT ![p] = @ + 1]
  /\ jobs' = [jobs EXCEPT ![p] = "waiting"]
  /\ UNCHANGED <<run, store, bounds, history>>

\* BullMQ's stalled check finds an active job that nobody works on.
RecoverStalled(p) ==
  /\ jobs[p] = "active"
  /\ \A w \in Worker : run[w].job # p
  /\ IF stalls[p] < MaxStalled
     THEN /\ stalls' = [stalls EXCEPT ![p] = @ + 1]
          /\ jobs' = [jobs EXCEPT ![p] = "waiting"]
     ELSE /\ jobs' = [jobs EXCEPT ![p] = "failed"]
          /\ UNCHANGED stalls
  /\ UNCHANGED <<run, store, bounds, history>>

-----------------------------------------------------------------------------
(* TransactionProcessor.process, one action per stretch between two awaits. *)

\* Neither side of the payment is ours.
Skip(w) ==
  /\ run[w].pc = "start"
  /\ ~Involved(run[w].job)
  /\ EndJob(w, "completed")
  /\ UNCHANGED <<stalls, store, bounds, history>>

\* The wallets and the Horizon transaction are read. Only a payment to the
\* platform is matched to an order.
Inspect(w) ==
  /\ run[w].pc = "start"
  /\ Involved(run[w].job)
  /\ run' = [run EXCEPT ![w] =
               IF Data[@.job].to = Platform
               THEN [@ EXCEPT !.pc = "match"]
               ELSE AfterLeg(@, None, 0)]
  /\ UNCHANGED <<jobs, stalls, store, bounds, history>>

\* The payment has no memo, or no order has it.
Unmatched(w) ==
  /\ run[w].pc = "match"
  /\ Data[run[w].job].found = {}
  /\ run' = [run EXCEPT ![w] = AfterLeg(@, None, 0)]
  /\ UNCHANGED <<jobs, stalls, store, bounds, history>>

\* applyIncomingPayment returns 'mismatch'; process ignores the result.
Mismatch(w) ==
  /\ run[w].pc = "match"
  /\ \E o \in Data[run[w].job].found \ Data[run[w].job].applies :
       run' = [run EXCEPT ![w] = AfterLeg(@, o, 0)]
  /\ UNCHANGED <<jobs, stalls, store, bounds, history>>

\* The order is read and its entity is changed in memory.
ApplyPayment(w) ==
  /\ run[w].pc = "match"
  /\ \E o \in Data[run[w].job].applies :
       LET total == Total(o, run[w].job) IN
       run' = [run EXCEPT ![w] =
                 [@ EXCEPT !.pc = "saveSelect", !.order = o,
                           !.paidAmount = ToFixed6(total),
                           !.sums = holds[o] \cup {run[w].job},
                           !.status = StatusFor(o, total),
                           !.wasPaid = (orders[o].status = "paid")]]
  /\ fresh' = fresh \cup {w}
  /\ UNCHANGED <<jobs, stalls, store, bounds, tallies, overtaken>>

\* save compares the entity with the row as it is now.
SaveSelect(w) ==
  /\ run[w].pc = "saveSelect"
  /\ run' = [run EXCEPT ![w] =
       [@ EXCEPT !.pc = "saveUpdate",
                 !.dirty = Differences(run[w], orders[run[w].order])]]
  /\ UNCHANGED <<jobs, stalls, store, bounds, history>>

\* The handlers that hold a copy of order o which they have yet to save.
Editors(o) ==
  {v \in Worker : run[v].pc \in {"saveSelect", "saveUpdate"} /\ run[v].order = o}

\* save writes the dirty columns; the handler goes on to the webhook when it
\* made the order paid.
SaveUpdate(w) ==
  LET r == run[w] IN
  /\ r.pc = "saveUpdate"
  /\ orders' = [orders EXCEPT ![r.order] =
       [paidAmount |-> IF "paidAmount" \in r.dirty THEN r.paidAmount ELSE @.paidAmount,
        status |-> IF "status" \in r.dirty THEN r.status ELSE @.status]]
  /\ run' = [run EXCEPT ![w] =
       IF Announces(r)
       THEN [Idle EXCEPT !.pc = "dispatch", !.job = r.job, !.order = r.order]
       ELSE AfterLeg(r, r.order, 0)]
  /\ credits' = [credits EXCEPT ![r.job] = @ + 1]
  /\ receipts' = [receipts EXCEPT ![r.order] =
       [count |-> @.count + 1, sum |-> @.sum + Data[r.job].amount]]
  /\ holds' = [holds EXCEPT ![r.order] = IF "paidAmount" \in r.dirty THEN r.sums ELSE @]
  /\ clobbered' = IF w \in fresh THEN clobbered ELSE clobbered \cup {r.order}
  /\ fresh' = fresh \ Editors(r.order)
  /\ UNCHANGED <<jobs, stalls, outbox, movement, balances, syncs, bounds, overtaken>>

\* dispatchPaidWebhook adds the job to the webhook queue.
Dispatch(w) ==
  LET r == run[w] IN
  /\ r.pc = "dispatch"
  /\ outbox' = Append(outbox, [order |-> r.order, payment |-> r.job])
  /\ run' = [run EXCEPT ![w] = AfterLeg(r, r.order, 0)]
  /\ UNCHANGED <<jobs, stalls, orders, movement, balances, syncs, bounds, history>>

(* recordConfirmedMovement, then syncWalletBalancesByAddress for a wallet. *)

FindMovement(w) ==
  LET r == run[w] IN
  /\ r.pc = "findMovement"
  /\ run' = [run EXCEPT ![w] =
       [r EXCEPT !.pc = "saveMovement",
                 !.exists = (movement[Key(r.job, r.leg)] # None)]]
  /\ UNCHANGED <<jobs, stalls, store, bounds, history>>

\* The new row is inserted, or the row found is overwritten.
SaveMovement(w) ==
  LET r == run[w]
      k == Key(r.job, r.leg) IN
  /\ r.pc = "saveMovement"
  /\ r.exists \/ movement[k] = None
  /\ movement' = [movement EXCEPT ![k] = Row(r.job, r.leg, r.order)]
  /\ run' = [run EXCEPT ![w] =
       IF r.leg \in {SenderWallet, ReceiverWallet}
       THEN [r EXCEPT !.pc = "fetchBalances"]
       ELSE AfterLeg(r, r.order, r.leg)]
  /\ UNCHANGED <<jobs, stalls, orders, outbox, balances, syncs, bounds, history>>

\* Another handler inserted the row since it was looked for: the unique index
\* on hash, address and type rejects the insert and the job fails.
DuplicateMovement(w) ==
  LET r == run[w] IN
  /\ r.pc = "saveMovement"
  /\ ~r.exists /\ movement[Key(r.job, r.leg)] # None
  /\ EndJob(w, "failed")
  /\ UNCHANGED <<stalls, store, bounds, history>>

\* Variant: only the payments this program has completed.
OnLedgerCompleted(a) ==
  {q \in Payment : jobs[q] = "completed" /\ a \in {Data[q].from, Data[q].to}}

\* Horizon reports the balance after every payment that is on the ledger.
OnLedger(a) ==
  {q \in Payment : jobs[q] # "absent" /\ a \in {Data[q].from, Data[q].to}}

FetchBalances(w) ==
  LET r == run[w] IN
  /\ r.pc = "fetchBalances"
  /\ run' = [run EXCEPT ![w] =
       [r EXCEPT !.pc = "saveBalances",
                 !.snapshot = OnLedger(LegAddress(r.job, r.leg))]]
  /\ fresh' = fresh \cup {w}
  /\ UNCHANGED <<jobs, stalls, store, bounds, tallies, overtaken>>

\* The handlers and requests that hold what Horizon said of wallet a.
Holders(a) ==
  {v \in Worker : run[v].pc = "saveBalances" /\ LegAddress(run[v].job, run[v].leg) = a}
    \cup {r \in Request : syncs[r].address = a}

\* The rows of wallet a are set to the snapshot that handler or request h holds.
StoreBalances(h, a, snapshot) ==
  /\ balances' = [balances EXCEPT ![a] = snapshot]
  /\ overtaken' = IF h \in fresh THEN overtaken \ {a} ELSE overtaken \cup {a}
  /\ fresh' = fresh \ Holders(a)

SaveBalances(w) ==
  LET r == run[w] IN
  /\ r.pc = "saveBalances"
  /\ StoreBalances(w, LegAddress(r.job, r.leg), r.snapshot)
  /\ run' = [run EXCEPT ![w] = AfterLeg(r, r.order, r.leg)]
  /\ UNCHANGED <<jobs, stalls, orders, outbox, movement, syncs, bounds, tallies>>

(* syncWalletBalances, for an HTTP request. *)

SyncFetch(r) ==
  /\ syncs[r] = NoSync
  /\ \E a \in Wallet :
       syncs' = [syncs EXCEPT ![r] = [address |-> a, snapshot |-> OnLedger(a)]]
  /\ fresh' = fresh \cup {r}
  /\ UNCHANGED <<jobs, stalls, run, orders, outbox, movement, balances, bounds,
                 tallies, overtaken>>

SyncSave(r) ==
  /\ syncs[r] # NoSync
  /\ StoreBalances(r, syncs[r].address, syncs[r].snapshot)
  /\ syncs' = [syncs EXCEPT ![r] = NoSync]
  /\ UNCHANGED <<jobs, stalls, run, orders, outbox, movement, bounds, tallies>>

\* An await throws and the request is answered with an error.
SyncFail(r) ==
  /\ syncs[r] # NoSync
  /\ syncs' = [syncs EXCEPT ![r] = NoSync]
  /\ UNCHANGED <<jobs, stalls, run, orders, outbox, movement, balances, bounds, history>>

Complete(w) ==
  /\ run[w].pc = "finish"
  /\ EndJob(w, "completed")
  /\ UNCHANGED <<stalls, store, bounds, history>>

\* Variant: process logs the error and does not rethrow it.
FailQuietly(w) ==
  /\ run[w].pc \notin {"idle", "finish"}
  /\ failures < MaxFailures
  /\ failures' = failures + 1
  /\ EndJob(w, "completed")
  /\ UNCHANGED <<stalls, store, crashes, history>>

\* Any await may throw (database, Horizon, Redis); process logs and rethrows,
\* and a job added without attempts is not retried.
Fail(w) ==
  /\ run[w].pc \notin {"idle", "finish"}
  /\ failures < MaxFailures
  /\ failures' = failures + 1
  /\ EndJob(w, "failed")
  /\ UNCHANGED <<stalls, store, crashes, history>>

-----------------------------------------------------------------------------
\* What worker w does of its own accord.
Work(w) ==
  \/ Take(w) \/ Skip(w) \/ Inspect(w) \/ Unmatched(w) \/ Mismatch(w)
  \/ ApplyPayment(w) \/ SaveSelect(w) \/ SaveUpdate(w) \/ Dispatch(w)
  \/ FindMovement(w) \/ SaveMovement(w) \/ DuplicateMovement(w)
  \/ FetchBalances(w) \/ SaveBalances(w) \/ Complete(w)

Sync(r) == SyncFetch(r) \/ SyncSave(r) \/ SyncFail(r)

Next ==
  \/ \E p \in Payment : Deliver(p) \/ RecoverStalled(p)
  \/ \E w \in Worker : Work(w) \/ Fail(w)
  \/ \E r \in Request : Sync(r)
  \/ Crash

Spec == Init /\ [][Next]_vars

\* BullMQ runs every worker and its stalled check for as long as the process
\* lives; nothing makes a payment or a request arrive, a process crash or an
\* await throw.
FairSpec ==
  /\ Spec
  /\ \A w \in Worker : WF_vars(Work(w))
  /\ \A p \in Payment : WF_vars(RecoverStalled(p))

-----------------------------------------------------------------------------
(* Properties. *)

\* The range of each variable.
TypeOK ==
  /\ jobs \in [Payment -> JobState]
  /\ stalls \in [Payment -> 0..MaxStalled]
  /\ run \in [Worker -> Locals]
  /\ orders \in [Order -> [paidAmount : Nat, status : OrderStatus]]
  /\ outbox \in Seq([order : Order, payment : Payment])
  /\ movement \in [MovementKey ->
       [order : Order \cup {None}, amount : Nat] \cup {None}]
  /\ balances \in [Wallet -> SUBSET Payment]
  /\ syncs \in [Request -> [address : Wallet, snapshot : SUBSET Payment] \cup {NoSync}]
  /\ crashes \in 0..MaxCrashes
  /\ failures \in 0..MaxFailures
  /\ credits \in [Payment -> Nat]
  /\ receipts \in [Order -> [count : Nat, sum : Nat]]
  /\ holds \in [Order -> SUBSET Payment]
  /\ fresh \subseteq Worker \cup Request
  /\ clobbered \subseteq Order
  /\ overtaken \subseteq Wallet

Announced(o) == \E i \in DOMAIN outbox : outbox[i].order = o

\* The payments that handlers saved for order o reach its amount, up to the half
\* unit of the sixth decimal that each earlier rounding may have given away.
Backed(o) ==
  /\ receipts[o].count > 0
  /\ AssetAmount[o] <= receipts[o].sum + 5 * (receipts[o].count - 1)

\* However the handlers interleave, an order is marked paid, and announced to
\* Laravel, only when the payments that handlers saved for it reach its amount:
\* a lost update or a row that mixes the columns of two saves never makes an
\* order paid too early (applyIncomingPayment). A payment that is saved again in
\* the rerun after a crash counts again, see CreditsBounded.
PaidIsBacked ==
  \A o \in Order : orders[o].status = "paid" \/ Announced(o) => Backed(o)

\* The jobs that can touch order o have not failed.
NoFailure(o) == \A p \in Payment : o \in Data[p].found => jobs[p] # "failed"

\* Unless the process crashed or one of its jobs failed, a paid order has been
\* announced or its announcement is under way, whatever the other handlers of
\* the order read and wrote: wasAlreadyPaid never silences the only webhook.
PaidIsAnnounced ==
  \A o \in Order :
    crashes = 0 /\ NoFailure(o) /\ orders[o].status = "paid"
      => \/ Announced(o)
         \/ \E w \in Worker : run[w].pc = "dispatch" /\ run[w].order = o

\* Handlers save a payment for an order at most once more than its job was found
\* stalled: concurrency alone never credits a payment twice.
CreditsBounded == \A p \in Payment : credits[p] <= stalls[p] + 1

\* A payment to the platform that applies to whichever order the query by its
\* memo or reference returns.
Reconcilable(p) ==
  /\ Data[p].to = Platform
  /\ Data[p].found # {} /\ Data[p].applies = Data[p].found

\* The paid_amount of order o has payment p in it, or o was saved from a copy that
\* another handler's save had made stale.
Keeps(o, p) == p \in holds[o] \/ o \in clobbered

\* The money of a completed job is in the paid_amount of an order that it applies
\* to: only a save of a stale copy of that order takes it out again, no crash,
\* error, rerun or saved status does. Less than half of the sixth decimal is rounded
\* to nothing (applyIncomingPayment, and process which rethrows its errors).
CompletedIsCredited ==
  \A p \in Payment :
    jobs[p] = "completed" /\ Reconcilable(p) /\ Data[p].amount >= 5
      => \E o \in Data[p].applies : Keeps(o, p)

\* Movement k of payment p has its row: the platform's credit belongs to an
\* order the memo can mean, and the amount is the payment's when its
\* transaction holds no other.
Recorded(p, k) ==
  LET row == movement[Key(p, k)] IN
  /\ row # None
  /\ LegType(k) = "credit" /\ Data[p].to = Platform /\ Data[p].found # {}
       => row.order \in Data[p].found
  /\ (\A q \in Payment \ {p} : Data[q].hash # Data[p].hash)
       => row.amount = ToFixed6(Data[p].amount)

\* A completed job has left every movement it owes, whatever the handlers of
\* other payments of the same transaction overwrote.
CompletedIsRecorded ==
  \A p \in Payment : jobs[p] = "completed" => \A k \in Due(p) : Recorded(p, k)

\* The orders that a query by the reference of order o may return: it names no
\* service and no currency, and has no ORDER BY.
Namesakes(o) == {q \in Order : Reference[q] = Reference[o]}

\* verify-transaction confirms payment p when its query has returned order q: the
\* memo is that of q, q is paid and one of its rows has the transaction.
Confirms(q, p) ==
  /\ q \in Data[p].applies
  /\ orders[q].status = "paid"
  /\ \E a \in Address :
       LET row == movement[<<Data[p].hash, a, "credit">>] IN
       row # None /\ row.order = q

\* verify-transaction confirms payment p for the reference of order o, whichever
\* order of that reference its query returns.
Verifies(o, p) == \A q \in Namesakes(o) : Confirms(q, p)

\* Payment p can mean order o only, and no other order has the reference of o.
Unmistakable(p, o) ==
  /\ Reconcilable(p) /\ Data[p].found = {o}
  /\ Namesakes(o) = {o}

\* When the job of a payment is complete, Laravel's call back to verify it succeeds
\* for as long as the order is paid, if the order shares its reference with no
\* other. (Otherwise the query may return the order of another service.)
CompletedIsVerifiable ==
  \A p \in Payment : \A o \in Order :
    jobs[p] = "completed" /\ Unmistakable(p, o) /\ orders[o].status = "paid"
      => Verifies(o, p)

\* The webhook is enqueued before the movement is recorded, so that Laravel's call
\* back may come too early; it succeeds in the end, or the job has failed, or the
\* order was taken back from paid.
AnnouncedIsVerifiable ==
  \A o \in Order : \A p \in {q \in Payment : Unmistakable(q, o)} :
    (\E i \in DOMAIN outbox : outbox[i] = [order |-> o, payment |-> p])
      ~> Verifies(o, p) \/ jobs[p] = "failed" \/ orders[o].status # "paid"

\* No payment that was saved for an order is lost unless a stale copy of the order
\* was saved: what paid_amount misses is at most the roundings.
NothingLost ==
  \A o \in Order \ clobbered :
    receipts[o].sum <= orders[o].paidAmount + 5 * receipts[o].count

\* Unless a stale copy of it was saved, an order is paid once the payments saved for
\* it reach its amount, the roundings aside.
FullyPaid ==
  \A o \in Order \ clobbered :
    receipts[o].count > 0
      /\ receipts[o].sum >= AssetAmount[o] + 5 * (receipts[o].count - 1)
      => orders[o].status = "paid"

\* The stored balances of a wallet reflect every completed payment that moved them,
\* unless they were last stored from what Horizon said before the sync that another
\* handler or an HTTP request stored meanwhile; the next sync then heals them.
CompletedIsReflected ==
  \A p \in Payment : jobs[p] = "completed" =>
    \A k \in Due(p) \cap {SenderWallet, ReceiverWallet} :
      LET a == LegAddress(p, k) IN p \in balances[a] \/ a \in overtaken

\* Unless a stale copy of it was saved, an announced order stays paid, so that the
\* webhook's receiver can act on it at any later time, and is announced once.
AnnouncedStaysPaid ==
  \A o \in Order \ clobbered :
    /\ Announced(o) => orders[o].status = "paid"
    /\ \A i, j \in DOMAIN outbox :
         outbox[i].order = o /\ outbox[j].order = o => i = j

\* What became of the announcement of order o.
Notice(o) ==
  IF \E i, j \in DOMAIN outbox : i # j /\ outbox[i].order = o /\ outbox[j].order = o
  THEN "repeated"
  ELSE IF Announced(o) THEN "sent"
  ELSE IF \E w \in Worker : run[w].pc = "dispatch" /\ run[w].order = o THEN "due"
  ELSE IF orders[o].status = "paid" THEN "lost" ELSE "none"

\* Payment p applies to order o only, and no other payment can mean o.
Alone(p, o) ==
  /\ Reconcilable(p) /\ Data[p].found = {o}
  /\ \A q \in Payment \ {p} : o \notin Data[q].found

\* The usual order, which one payment pays: whatever the handlers of other orders
\* do and whatever crashes, the order ends paid when the payment covers it, and
\* verifiable when no other order has its reference; if the job itself was never
\* interrupted, the row holds that payment and Laravel is told exactly once, or
\* not at all of one that is too small.
LonePaymentSettles ==
  \A p \in Payment : \A o \in Order :
    jobs[p] = "completed" /\ Alone(p, o) =>
      /\ Data[p].amount >= AssetAmount[o] =>
           /\ orders[o].status = "paid"
           /\ Namesakes(o) = {o} => Verifies(o, p)
      /\ stalls[p] = 0 =>
           /\ orders[o] = [paidAmount |-> ToFixed6(Data[p].amount),
                           status |-> StatusFor(o, Data[p].amount)]
           /\ Notice(o) = IF Data[p].amount >= AssetAmount[o] THEN "sent" ELSE "none"

(* With one handler at a time and no crash, the workers implement the ledger. *)

Ledger == INSTANCE OrderLedger WITH
  Amount  <- [p \in Payment |-> Data[p].amount],
  Applies <- [p \in Payment |-> Data[p].applies],
  ledger  <- orders,
  applied <- {p \in Payment : credits[p] > 0},
  notice  <- [o \in Order |-> Notice(o)]

\* Each payment is saved once for one order it applies to, paid is final, and
\* each paid order is announced at most once and only lost through an error.
ImplementsLedger == Ledger!Spec

\* Every job that is waiting or active ends: no handler waits for another, and
\* the job of a crashed handler is rerun or given up.
JobsSettle ==
  \A p \in Payment :
    jobs[p] \in {"waiting", "active"} ~> jobs[p] \in {"completed", "failed"}

=============================================================================
