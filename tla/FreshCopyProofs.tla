------------------------- MODULE FreshCopyProofs ---------------------------
(***************************************************************************)
(* What PaymentProcessing guarantees of a row for as long as no handler    *)
(* saves it from a stale copy, for every number of workers, payments,      *)
(* orders, requests, crashes and failures: nothing is lost from an order,  *)
(* paid is final, and the balances of a wallet are those of its last       *)
(* payment. With one worker no copy of an order is ever stale.             *)
(***************************************************************************)
EXTENDS PaymentProcessingProofs

USE DEF SenderWallet, ReceiverWallet, PlatformDebit, PlatformCredit, NoMore

\* BULL_INCOMING_CONCURRENCY is 1.
OneWorker == \A v, w \in Worker : v = w

Saving == {"saveSelect", "saveUpdate"}

\* The entity in a handler's hands is its order's row plus the payment.
EntityFresh(r) ==
  /\ r.order \in Data[r.job].applies
  /\ r.paidAmount = ToFixed6(Total(r.order, r.job))
  /\ r.sums = holds[r.order] \cup {r.job}
  /\ r.status = StatusFor(r.order, Total(r.order, r.job))
  /\ r.wasPaid = (orders[r.order].status = "paid")
  /\ r.pc = "saveUpdate" => r.dirty = Differences(r, orders[r.order])

HandlersFresh ==
  \A w \in Worker : run[w].pc \in Saving /\ w \in fresh => EntityFresh(run[w])

\* The one handler that is about to announce an order made it paid.
OneAnnouncer ==
  \A w \in Worker : run[w].pc = "dispatch" /\ run[w].order \notin clobbered =>
    /\ orders[run[w].order].status = "paid" /\ ~Announced(run[w].order)
    /\ \A v \in Worker : run[v].pc = "dispatch" /\ run[v].order = run[w].order => v = w

\* Rounding does not take a paid order back below its amount.
PaidIsReached ==
  \A o \in Order \ clobbered :
    orders[o].status = "paid" => orders[o].paidAmount >= AssetAmount[o]

FreshInv ==
  /\ HandlersFresh /\ OneAnnouncer /\ PaidIsReached
  /\ NothingLost /\ FullyPaid /\ AnnouncedStaysPaid

-----------------------------------------------------------------------------
(* Steps. *)

\* The steps around the save of an order and its announcement.
OrderStep(w) == ApplyPayment(w) \/ SaveSelect(w) \/ SaveUpdate(w) \/ Dispatch(w)

\* Every other step leaves the orders alone; a handler stays where it is or has
\* no order in its hands.
LEMMA QuietSteps ==
  ASSUME TypeInv, [Next]_vars, \A w \in Worker : ~OrderStep(w)
  PROVE  /\ UNCHANGED <<orders, outbox, tallies>>
         /\ \A w \in Worker :
              \/ run'[w] = run[w]
              \/ run'[w].pc \notin Saving \cup {"dispatch"}
<1> USE DEF TypeInv, Saving
<1>1. ASSUME NEW p \in Payment, Deliver(p) \/ RecoverStalled(p)
      PROVE  UNCHANGED <<orders, outbox, tallies, run>>
  BY <1>1 DEF Deliver, RecoverStalled, store, history, tallies
<1>2. CASE Crash
  BY <1>2 DEF Crash, Idle, store, history, tallies
<1>3. ASSUME NEW w \in Worker, Take(w)
      PROVE  /\ UNCHANGED <<orders, outbox, tallies>>
             /\ run'[w].pc = "start" /\ \A v \in Worker \ {w} : run'[v] = run[v]
  <2>1. PICK p \in Payment : run' = [run EXCEPT ![w] = [Idle EXCEPT !.pc = "start", !.job = p]]
    BY <1>3 DEF Take
  <2> QED
    BY <1>3, <2>1 DEF Take, TypeOK, Idle, store, history, tallies
<1>4. ASSUME NEW w \in Worker,
             Skip(w) \/ DuplicateMovement(w) \/ Complete(w) \/ Fail(w)
      PROVE  /\ UNCHANGED <<orders, outbox, tallies>>
             /\ run'[w].pc = "idle" /\ \A v \in Worker \ {w} : run'[v] = run[v]
  <2>1. PICK outcome \in {"completed", "failed"} :
          EndJob(w, outcome) /\ run[w].pc # "idle"
    BY <1>4 DEF Skip, DuplicateMovement, Complete, Fail
  <2>2. UNCHANGED <<orders, outbox, tallies>>
    BY <1>4 DEF Skip, DuplicateMovement, Complete, Fail, store, history, tallies
  <2> QED
    BY <2>1, <2>2, HandlerEnds DEF Idle
<1>5. ASSUME NEW w \in Worker, Move(w)
      PROVE  /\ UNCHANGED <<orders, outbox, tallies>>
             /\ run'[w].pc \notin Saving \cup {"dispatch"}
             /\ \A v \in Worker \ {w} : run'[v] = run[v]
  <2>1. ~(ApplyPayment(w) \/ SaveSelect(w) \/ SaveUpdate(w)) /\ ~Dispatch(w)
    BY DEF OrderStep
  <2>2. UNCHANGED <<outbox, tallies>>
    BY <1>5, <2>1 DEF Move, Inspect, Unmatched, Mismatch, FindMovement, SaveMovement,
                      FetchBalances, SaveBalances, StoreBalances, store, history, tallies
  <2> QED
    BY <1>5, <2>1, <2>2, OtherMoves, MoveFacts
<1>6. CASE UNCHANGED core
  BY <1>6 DEF core
<1> QED
  BY <1>1, <1>2, <1>3, <1>4, <1>5, <1>6, CoreStutter DEF Next, Work, Move

\* A step of a lone handler on an order, in terms of its locals.
LEMMA OrderStepFacts ==
  ASSUME TypeInv, NEW w \in Worker, OrderStep(w)
  PROVE  /\ run[w] \in Locals /\ run'[w] \in Locals /\ LocalsOK(run[w])
         /\ run[w].job \in Payment /\ run'[w].job = run[w].job
         /\ Data[run[w].job].amount \in Nat /\ Data[run[w].job].applies \subseteq Order
         /\ <<run[w].pc, run'[w].pc>> \in Follows
         /\ TypeInv'
<1>1. Move(w)
  BY DEF OrderStep, Move
<1>2. TypeInv' /\ run[w].job \in Payment
  BY <1>1, MoveFacts
<1> QED
  BY <1>1, <1>2, MoveFacts, DataAssumption DEF TypeInv, TypeOK, LocalsInv, DataType

\* What an order has received once a payment is added is a number, and so is
\* every amount of an order.
LEMMA AmountTypes ==
  ASSUME TypeInv, NEW o \in Order
  PROVE  /\ orders[o].paidAmount \in Nat /\ orders[o].status \in OrderStatus
         /\ AssetAmount[o] \in Nat /\ AssetAmount[o] % 10 = 0
         /\ receipts[o].count \in Nat /\ receipts[o].sum \in Nat
         /\ \A p \in Payment : Total(o, p) \in Nat /\ Total(o, p) >= orders[o].paidAmount
<1>1. \A p \in Payment : Data[p].amount \in Nat
  BY DataAssumption DEF DataType
<1> QED
  BY <1>1, ConstantsAssumption DEF TypeInv, TypeOK, Total

\* toFixed(6) keeps an amount that has six decimals reached.
LEMMA ToFixed6Reaches ==
  ASSUME NEW x \in Nat, NEW a \in Nat, a % 10 = 0, x >= a
  PROVE  ToFixed6(x) >= a
<1>1. a = 10 * (a \div 10) /\ a \div 10 \in Nat
  OBVIOUS
<1>2. (x + 5) \div 10 >= a \div 10
  OBVIOUS
<1> QED
  BY <1>1, <1>2 DEF ToFixed6

\* A fresh entity is saved as a whole, although only its dirty columns are
\* written.
LEMMA SavedWhole ==
  ASSUME TypeInv, HandlersFresh, NEW w \in Worker, SaveUpdate(w), w \in fresh
  PROVE  LET r == run[w] IN
         /\ r.order \in Order /\ r.order \in Data[r.job].applies
         /\ orders' = [orders EXCEPT ![r.order] =
              [paidAmount |-> ToFixed6(Total(r.order, r.job)),
               status |-> StatusFor(r.order, Total(r.order, r.job))]]
<1> DEFINE r == run[w]
           o == run[w].order
<1>1. r.pc = "saveUpdate" /\ EntityFresh(r) /\ LocalsOK(r)
  BY DEF SaveUpdate, HandlersFresh, Saving, TypeInv, LocalsInv
<1>2. o \in Order
  BY <1>1 DEF LocalsOK
<1>3. r.dirty = Differences(r, orders[o])
  BY <1>1 DEF EntityFresh
<1>4. /\ (IF "paidAmount" \in r.dirty THEN r.paidAmount ELSE orders[o].paidAmount) = r.paidAmount
      /\ (IF "status" \in r.dirty THEN r.status ELSE orders[o].status) = r.status
  BY <1>3 DEF Differences, Columns
<1>5. orders' = [orders EXCEPT ![o] = [paidAmount |-> r.paidAmount, status |-> r.status]]
  BY <1>4 DEF SaveUpdate
<1> QED
  BY <1>1, <1>2, <1>5 DEF EntityFresh, Saving

\* Only the handler that reads an order gets a fresh copy of it, and only a save of
\* the order takes the freshness away.
LEMMA FreshnessKept ==
  ASSUME TypeInv, [Next]_vars, \A w \in Worker : ~OrderStep(w)
  PROVE  \A w \in Worker : run'[w].pc \in Saving => (w \in fresh' <=> w \in fresh)
<1> USE DEF Saving
<1>1. CASE fresh' = fresh \/ Crash
  <2>1. Crash => \A w \in Worker : run'[w].pc = "idle"
    BY DEF Crash, Idle
  <2> QED
    BY <1>1, <2>1
<1>2. ASSUME NEW w \in Worker, FetchBalances(w)
      PROVE  /\ fresh' = fresh \cup {w} /\ run'[w].pc = "saveBalances"
  BY <1>2 DEF FetchBalances, TypeInv, TypeOK, Locals
<1>3. ASSUME NEW h, NEW a, NEW snapshot, StoreBalances(h, a, snapshot),
             \A v \in Worker : run[v].pc = "saveBalances" => run'[v].pc \notin Saving \/ run'[v] = run[v]
      PROVE  \A w \in Worker : run'[w].pc \in Saving => (w \in fresh' <=> w \in fresh)
  <2> SUFFICES ASSUME NEW v \in Worker, run'[v].pc \in Saving
               PROVE  v \in fresh' <=> v \in fresh
    OBVIOUS
  <2>1. run[v].pc # "saveBalances"
    BY <1>3
  <2>2. v \notin Holders(a)
    BY <2>1, ConstantsAssumption DEF Holders
  <2> QED
    BY <1>3, <2>2 DEF StoreBalances
<1>4. ASSUME NEW w \in Worker, SaveBalances(w)
      PROVE  \A v \in Worker : run'[v].pc \in Saving => (v \in fresh' <=> v \in fresh)
  <2>1. /\ \A v \in Worker : v # w => run'[v] = run[v]
        /\ run'[w].pc \notin Saving
    BY <1>4, MoveFacts DEF Move, SaveBalances, Follows
  <2> QED
    BY <1>3, <1>4, <2>1 DEF SaveBalances
<1>5. ASSUME NEW r \in Request, Sync(r)
      PROVE  \A v \in Worker : run'[v].pc \in Saving => (v \in fresh' <=> v \in fresh)
  <2>1. r \notin Worker /\ run' = run
    BY <1>5, ConstantsAssumption DEF Sync, SyncFetch, SyncSave, SyncFail
  <2>2. CASE SyncSave(r)
    BY <1>3, <2>1, <2>2 DEF SyncSave
  <2>3. CASE SyncFetch(r) \/ SyncFail(r)
    BY <2>1, <2>3 DEF SyncFetch, SyncFail, history
  <2> QED
    BY <1>5, <2>2, <2>3 DEF Sync
<1>6. \/ fresh' = fresh \/ Crash
      \/ \E w \in Worker : FetchBalances(w) \/ SaveBalances(w)
      \/ \E r \in Request : Sync(r)
  BY DEF Next, Work, OrderStep, Deliver, RecoverStalled, Take, Skip, Inspect, Unmatched,
         Mismatch, FindMovement, SaveMovement, DuplicateMovement, Complete, Fail, vars,
         history
<1>7. ASSUME NEW w \in Worker, FetchBalances(w)
      PROVE  \A v \in Worker : run'[v].pc \in Saving => (v \in fresh' <=> v \in fresh)
  BY <1>2, <1>7
<1> QED
  BY <1>1, <1>4, <1>5, <1>6, <1>7

\* A new announcement joins those of the outbox.
LEMMA Announcing ==
  ASSUME TypeInv, NEW w \in Worker, Dispatch(w)
  PROVE  /\ run[w].order \in Order
         /\ \A o \in Order : Announced(o)' <=> Announced(o) \/ o = run[w].order
         /\ \A o \in Order :
              /\ \A i, j \in DOMAIN outbox : outbox[i].order = o /\ outbox[j].order = o => i = j
              /\ o = run[w].order => ~Announced(o)
              => \A i, j \in DOMAIN outbox' :
                   outbox'[i].order = o /\ outbox'[j].order = o => i = j
<1> DEFINE entry == [order |-> run[w].order, payment |-> run[w].job]
           Entry == [order : Order, payment : Payment]
           n == Len(outbox)
<1>1. run[w].order \in Order /\ run[w].job \in Payment
  BY OrderStepFacts DEF OrderStep, Dispatch, LocalsOK
<1>2. outbox \in Seq(Entry) /\ entry \in Entry /\ entry.order = run[w].order
  BY <1>1 DEF TypeInv, TypeOK
<1>3. outbox' = Append(outbox, entry)
  BY DEF Dispatch
<1> HIDE DEF entry, Entry
<1>4. /\ n \in Nat /\ DOMAIN outbox = 1..n /\ DOMAIN outbox' = 1..(n + 1)
      /\ outbox'[n + 1] = entry /\ \A i \in 1..n : outbox'[i] = outbox[i]
  BY <1>2, <1>3
<1> HIDE DEF n
<1>5. \A o \in Order : Announced(o)' <=> Announced(o) \/ o = run[w].order
  BY <1>2, <1>4 DEF Announced
<1>6. ASSUME NEW o \in Order, o = run[w].order => ~Announced(o),
             \A i, j \in DOMAIN outbox : outbox[i].order = o /\ outbox[j].order = o => i = j,
             NEW i \in 1..(n + 1), NEW j \in 1..(n + 1),
             outbox'[i].order = o, outbox'[j].order = o
      PROVE  i = j
  <2>1. o = run[w].order => \A k \in 1..n : outbox[k].order # o
    BY <1>4, <1>6 DEF Announced
  <2> QED
    BY <1>2, <1>4, <1>6, <2>1
<1> QED
  BY <1>1, <1>4, <1>5, <1>6

\* What the handler does once it has saved the order.
LEMMA AfterSave ==
  ASSUME TypeInv, NEW w \in Worker, SaveUpdate(w)
  PROVE  /\ run'[w].pc \notin Saving
         /\ run'[w].pc = "dispatch" <=> Announces(run[w])
         /\ run'[w].pc = "dispatch" => run'[w].order = run[w].order
<1> DEFINE r == run[w]
<1>1. r \in Locals /\ r.job \in Payment /\ run \in [Worker -> Locals]
      /\ r.order \in Order
  BY OrderStepFacts DEF OrderStep, TypeInv, TypeOK, SaveUpdate, LocalsOK
<1>2. CASE Announces(r)
  <2>1. run'[w] = [Idle EXCEPT !.pc = "dispatch", !.job = r.job, !.order = r.order]
    BY <1>1, <1>2 DEF SaveUpdate
  <2> QED
    BY <1>2, <2>1 DEF Idle, Saving
<1>3. CASE ~Announces(r)
  <2>1. run'[w] = AfterLeg(r, r.order, 0)
    BY <1>1, <1>3 DEF SaveUpdate
  <2> QED
    BY <1>1, <1>3, <2>1, AfterLegFacts DEF Saving
<1> QED
  BY <1>2, <1>3

-----------------------------------------------------------------------------
(* Nothing is lost, and paid is final. *)

LEMMA InitFreshInv == Init => FreshInv
<1> SUFFICES ASSUME Init PROVE FreshInv
  OBVIOUS
<1>1. HandlersFresh /\ OneAnnouncer /\ AnnouncedStaysPaid
  BY DEF Init, HandlersFresh, OneAnnouncer, Saving, Idle, AnnouncedStaysPaid, Announced
<1> QED
  BY <1>1 DEF Init, FreshInv, PaidIsReached, NothingLost, FullyPaid

\* An entity stays fresh while its order's row is left alone.
LEMMA EntityKept ==
  ASSUME NEW w \in Worker, run'[w] = run[w], EntityFresh(run[w]),
         orders'[run[w].order] = orders[run[w].order],
         holds'[run[w].order] = holds[run[w].order]
  PROVE  EntityFresh(run[w])'
BY DEF EntityFresh, Total, StatusFor, Differences

\* Steps that leave the orders alone.
LEMMA FreshQuiet ==
  ASSUME TypeInv, FreshInv, [Next]_vars, \A w \in Worker : ~OrderStep(w)
  PROVE  FreshInv'
<1>1. /\ UNCHANGED <<orders, outbox, receipts, holds, clobbered>>
      /\ \A w \in Worker : run'[w] = run[w] \/ run'[w].pc \notin Saving \cup {"dispatch"}
  BY QuietSteps DEF tallies
<1>2. HandlersFresh'
  <2> SUFFICES ASSUME NEW w \in Worker, run'[w].pc \in Saving, w \in fresh'
               PROVE  EntityFresh(run[w])'
    BY DEF HandlersFresh, Saving
  <2>1. run'[w] = run[w] /\ w \in fresh
    BY <1>1, FreshnessKept
  <2> QED
    BY <1>1, <2>1, EntityKept DEF FreshInv, HandlersFresh
<1>3. OneAnnouncer'
  BY <1>1 DEF FreshInv, OneAnnouncer, Announced
<1> QED
  BY <1>1, <1>2, <1>3 DEF FreshInv, PaidIsReached, NothingLost, FullyPaid,
                          AnnouncedStaysPaid, Announced

\* What the other handlers hold stays fresh when one of them reads an order or
\* compares it.
LEMMA FreshReading ==
  ASSUME TypeInv, FreshInv, NEW w \in Worker, UNCHANGED <<orders, outbox, tallies>>,
         fresh' \subseteq fresh \cup {w}, run'[w].pc \in Saving,
         \A v \in Worker \ {w} : run'[v] = run[v],
         w \in fresh' => EntityFresh(run[w])'
  PROVE  FreshInv'
<1>1. UNCHANGED <<receipts, holds, clobbered>>
  BY DEF tallies
<1>2. HandlersFresh'
  <2> SUFFICES ASSUME NEW v \in Worker \ {w}, run'[v].pc \in Saving, v \in fresh'
               PROVE  EntityFresh(run[v])'
    BY DEF HandlersFresh, Saving
  <2>1. EntityFresh(run[v]) /\ run'[v] = run[v]
    BY DEF FreshInv, HandlersFresh
  <2> QED
    BY <1>1, <2>1, EntityKept
<1>3. OneAnnouncer'
  BY <1>1 DEF FreshInv, OneAnnouncer, Announced, Saving
<1> QED
  BY <1>1, <1>2, <1>3 DEF FreshInv, PaidIsReached, NothingLost, FullyPaid,
                          AnnouncedStaysPaid, Announced

\* The order is read, and its entity is as fresh as the read.
LEMMA FreshApply ==
  ASSUME TypeInv, FreshInv, NEW w \in Worker, ApplyPayment(w)
  PROVE  FreshInv'
<1> DEFINE r == run[w]
<1>1. UNCHANGED <<orders, outbox, tallies>> /\ fresh' = fresh \cup {w}
      /\ UNCHANGED holds
  BY DEF ApplyPayment, store, tallies
<1>2. r \in Locals /\ r.job \in Payment /\ run \in [Worker -> Locals]
  BY OrderStepFacts DEF OrderStep, TypeInv, TypeOK
<1>3. PICK o \in Data[r.job].applies :
        run' = [run EXCEPT ![w] =
          [r EXCEPT !.pc = "saveSelect", !.order = o,
                    !.paidAmount = ToFixed6(Total(o, r.job)),
                    !.sums = holds[o] \cup {r.job},
                    !.status = StatusFor(o, Total(o, r.job)),
                    !.wasPaid = (orders[o].status = "paid")]]
  BY DEF ApplyPayment
<1>4. /\ run'[w].pc = "saveSelect" /\ run'[w].order = o /\ run'[w].job = r.job
      /\ run'[w].paidAmount = ToFixed6(Total(o, r.job))
      /\ run'[w].sums = holds[o] \cup {r.job}
      /\ run'[w].status = StatusFor(o, Total(o, r.job))
      /\ run'[w].wasPaid = (orders[o].status = "paid")
  BY <1>2, <1>3 DEF Locals
<1>5. EntityFresh(run[w])'
  BY <1>1, <1>4 DEF EntityFresh, Total, StatusFor
<1>6. \A v \in Worker \ {w} : run'[v] = run[v]
  BY <1>2, <1>3
<1> QED
  BY <1>1, <1>4, <1>5, <1>6, FreshReading DEF Saving

\* save finds the row as the handler read it, unless the copy is no longer fresh.
LEMMA FreshSelect ==
  ASSUME TypeInv, FreshInv, NEW w \in Worker, SaveSelect(w)
  PROVE  FreshInv'
<1> DEFINE r == run[w]
           dirty == Differences(r, orders[r.order])
<1>1. UNCHANGED <<orders, outbox, tallies>> /\ fresh' = fresh /\ UNCHANGED holds
  BY DEF SaveSelect, store, history, tallies
<1>2. r \in Locals /\ run \in [Worker -> Locals] /\ r.pc = "saveSelect"
  BY OrderStepFacts DEF OrderStep, TypeInv, TypeOK, SaveSelect
<1>3. run' = [run EXCEPT ![w] = [r EXCEPT !.pc = "saveUpdate", !.dirty = dirty]]
  BY DEF SaveSelect
<1> HIDE DEF dirty
<1>4. run'[w] = [r EXCEPT !.pc = "saveUpdate", !.dirty = dirty]
      /\ \A v \in Worker \ {w} : run'[v] = run[v]
  BY <1>2, <1>3
<1>5. /\ run'[w].pc = "saveUpdate" /\ run'[w].dirty = dirty
      /\ run'[w].order = r.order /\ run'[w].job = r.job
      /\ run'[w].paidAmount = r.paidAmount /\ run'[w].status = r.status
      /\ run'[w].wasPaid = r.wasPaid /\ run'[w].sums = r.sums
  BY <1>2, <1>4 DEF Locals
<1>6. dirty = Differences(r, orders[r.order])
  BY DEF dirty
<1>7. w \in fresh' => EntityFresh(run[w])'
  <2> SUFFICES ASSUME w \in fresh PROVE EntityFresh(run[w])'
    BY <1>1
  <2>1. EntityFresh(r)
    BY <1>2 DEF FreshInv, HandlersFresh, Saving
  <2> QED
    BY <1>1, <1>2, <1>5, <1>6, <2>1 DEF EntityFresh, Total, StatusFor, Differences
<1> QED
  BY <1>1, <1>4, <1>5, <1>7, FreshReading DEF Saving

\* A save makes the copies of its order that other handlers hold stale, and leaves
\* those of other orders as they were.
LEMMA SaveSpares ==
  ASSUME TypeInv, FreshInv, NEW w \in Worker, SaveUpdate(w)
  PROVE  /\ HandlersFresh'
         /\ \A v \in Worker \ {w} : run'[v] = run[v]
         /\ run[w].order \in Order
         /\ \A q \in Order : q # run[w].order =>
              orders'[q] = orders[q] /\ receipts'[q] = receipts[q] /\ holds'[q] = holds[q]
<1> DEFINE o == run[w].order
<1>1. /\ o \in Order /\ run \in [Worker -> Locals]
      /\ fresh' = fresh \ Editors(o)
      /\ \A v \in Worker \ {w} : run'[v] = run[v]
  BY OrderStepFacts DEF OrderStep, TypeInv, TypeOK, SaveUpdate, LocalsOK
<1>2. \A q \in Order : q # o =>
        orders'[q] = orders[q] /\ receipts'[q] = receipts[q] /\ holds'[q] = holds[q]
  BY DEF SaveUpdate, TypeInv, TypeOK
<1>3. run'[w].pc \notin Saving
  BY AfterSave
<1>4. ASSUME NEW v \in Worker, run'[v].pc \in Saving, v \in fresh'
      PROVE  EntityFresh(run[v])'
  <2>1. v # w /\ run'[v] = run[v] /\ v \in fresh
    BY <1>1, <1>3, <1>4
  <2>2. run[v].order # o
    BY <1>1, <1>4, <2>1 DEF Editors, Saving
  <2>3. run[v].order \in Order /\ EntityFresh(run[v])
    BY <1>4, <2>1 DEF FreshInv, HandlersFresh, Saving, TypeInv, LocalsInv, LocalsOK
  <2> QED
    BY <1>2, <2>1, <2>2, <2>3, EntityKept
<1> QED
  BY <1>1, <1>2, <1>4 DEF HandlersFresh, Saving

\* A stale copy is saved: the order is among the clobbered ones from now on.
LEMMA StaleUpdate ==
  ASSUME TypeInv, FreshInv, NEW w \in Worker, SaveUpdate(w), w \notin fresh
  PROVE  FreshInv'
<1> DEFINE o == run[w].order
<1>1. clobbered' = clobbered \cup {o} /\ outbox' = outbox
  BY DEF SaveUpdate
<1>2. \A q \in Order \ clobbered' :
        q \in Order \ clobbered /\ orders'[q] = orders[q] /\ receipts'[q] = receipts[q]
  BY <1>1, SaveSpares
<1>3. \A q \in Order : Announced(q)' <=> Announced(q)
  BY <1>1 DEF Announced
<1>4. OneAnnouncer'
  <2> SUFFICES ASSUME NEW v \in Worker, run'[v].pc = "dispatch", run'[v].order \notin clobbered'
               PROVE  /\ orders'[run'[v].order].status = "paid" /\ ~Announced(run[v].order)'
                      /\ \A u \in Worker : run'[u].pc = "dispatch"
                                             /\ run'[u].order = run'[v].order => u = v
    BY DEF OneAnnouncer
  <2>1. run'[v].order # o /\ run'[v].order \notin clobbered
    BY <1>1
  <2>2. v # w /\ run'[v] = run[v]
    BY <2>1, AfterSave, SaveSpares
  <2>3. run[v].order \in Order
    BY <2>2 DEF TypeInv, LocalsInv, LocalsOK
  <2>4. /\ orders[run[v].order].status = "paid" /\ ~Announced(run[v].order)
        /\ \A u \in Worker : run[u].pc = "dispatch" /\ run[u].order = run[v].order => u = v
    BY <2>1, <2>2 DEF FreshInv, OneAnnouncer
  <2>5. \A u \in Worker : run'[u].pc = "dispatch" /\ run'[u].order = run'[v].order => u = v
    BY <2>1, <2>2, <2>4, AfterSave, SaveSpares
  <2>6. orders'[run'[v].order].status = "paid" /\ ~Announced(run[v].order)'
    BY <1>1, <2>1, <2>2, <2>3, <2>4, SaveSpares DEF Announced
  <2> QED
    BY <2>5, <2>6
<1>5. PaidIsReached' /\ NothingLost' /\ FullyPaid'
  BY <1>2 DEF FreshInv, PaidIsReached, NothingLost, FullyPaid
<1>6. AnnouncedStaysPaid'
  <2> SUFFICES ASSUME NEW q \in Order \ clobbered'
               PROVE  /\ Announced(q) => orders'[q].status = "paid"
                      /\ \A i, j \in DOMAIN outbox :
                           outbox[i].order = q /\ outbox[j].order = q => i = j
    BY <1>1 DEF AnnouncedStaysPaid, Announced
  <2> QED
    BY <1>2 DEF FreshInv, AnnouncedStaysPaid
<1> QED
  BY <1>4, <1>5, <1>6, SaveSpares DEF FreshInv

\* The order is saved: what it misses grows by one rounding at most.
LEMMA FreshUpdate ==
  ASSUME TypeInv, FreshInv, NEW w \in Worker, SaveUpdate(w), w \in fresh
  PROVE  FreshInv'
<1> DEFINE r == run[w]
           o == run[w].order
           total == Total(run[w].order, run[w].job)
           amount == Data[run[w].job].amount
<1>1. /\ o \in Order /\ EntityFresh(r) /\ r.pc = "saveUpdate"
      /\ orders' = [orders EXCEPT ![o] =
           [paidAmount |-> ToFixed6(total), status |-> StatusFor(o, total)]]
      /\ r.status = StatusFor(o, total) /\ r.wasPaid = (orders[o].status = "paid")
  BY SavedWhole DEF FreshInv, HandlersFresh, SaveUpdate, EntityFresh, Saving
<1>2. /\ total \in Nat /\ amount \in Nat /\ total = orders[o].paidAmount + amount
      /\ orders[o].paidAmount \in Nat /\ AssetAmount[o] \in Nat /\ AssetAmount[o] % 10 = 0
      /\ receipts[o].count \in Nat /\ receipts[o].sum \in Nat
  BY <1>1, AmountTypes, OrderStepFacts DEF OrderStep, Total
<1>3. /\ outbox' = outbox /\ clobbered' = clobbered
      /\ receipts' = [receipts EXCEPT ![o] =
           [count |-> receipts[o].count + 1, sum |-> receipts[o].sum + amount]]
  BY DEF SaveUpdate
<1> HIDE DEF total, amount
<1>4. /\ orders'[o].paidAmount = ToFixed6(total) /\ orders'[o].status = StatusFor(o, total)
      /\ receipts'[o].count = receipts[o].count + 1
      /\ receipts'[o].sum = receipts[o].sum + amount
      /\ \A q \in Order \ {o} : orders'[q] = orders[q] /\ receipts'[q] = receipts[q]
  BY <1>1, <1>3 DEF TypeInv, TypeOK
<1>5. /\ orders'[o].status = "paid" <=> total >= AssetAmount[o]
      /\ o \notin clobbered /\ orders[o].status = "paid" => total >= AssetAmount[o]
  BY <1>1, <1>2, <1>4 DEF StatusFor, FreshInv, PaidIsReached
<1>6. PaidIsReached'
  BY <1>2, <1>3, <1>4, <1>5, ToFixed6Reaches DEF FreshInv, PaidIsReached
<1>7. o \notin clobbered => receipts[o].sum <= orders[o].paidAmount + 5 * receipts[o].count
  BY <1>1 DEF FreshInv, NothingLost
<1>8. NothingLost'
  <2>1. o \notin clobbered => receipts'[o].sum <= orders'[o].paidAmount + 5 * receipts'[o].count
    BY <1>2, <1>4, <1>7, ToFixed6Bound
  <2> QED
    BY <1>3, <1>4, <2>1 DEF FreshInv, NothingLost
<1>9. FullyPaid'
  <2>1. o \notin clobbered /\ receipts'[o].sum >= AssetAmount[o] + 5 * (receipts'[o].count - 1)
          => orders'[o].status = "paid"
    BY <1>2, <1>4, <1>5, <1>7
  <2> QED
    BY <1>3, <1>4, <2>1 DEF FreshInv, FullyPaid
<1>10. \A q \in Order : Announced(q)' <=> Announced(q)
  BY <1>3 DEF Announced
<1>11. AnnouncedStaysPaid'
  <2>1. \A q \in Order \ clobbered : Announced(q) => orders'[q].status = "paid"
    BY <1>4, <1>5 DEF FreshInv, AnnouncedStaysPaid
  <2>2. \A q \in Order \ clobbered : \A i, j \in DOMAIN outbox :
          outbox[i].order = q /\ outbox[j].order = q => i = j
    BY DEF FreshInv, AnnouncedStaysPaid
  <2> QED
    BY <1>3, <2>1, <2>2 DEF AnnouncedStaysPaid, Announced
<1>12. ASSUME run'[w].pc = "dispatch", o \notin clobbered
       PROVE  /\ run'[w].order = o /\ orders'[o].status = "paid" /\ ~Announced(o)
              /\ \A v \in Worker : run[v].pc = "dispatch" => run[v].order # o
  <2>1. run'[w].order = o /\ r.status = "paid" /\ ~r.wasPaid
    BY <1>12, AfterSave DEF Announces
  <2>2. orders[o].status # "paid"
    BY <1>1, <2>1
  <2> QED
    BY <1>1, <1>4, <1>12, <2>1, <2>2 DEF FreshInv, AnnouncedStaysPaid, OneAnnouncer
<1>13. OneAnnouncer'
  <2> SUFFICES ASSUME NEW v \in Worker, run'[v].pc = "dispatch", run'[v].order \notin clobbered
               PROVE  /\ orders'[run'[v].order].status = "paid" /\ ~Announced(run'[v].order)
                      /\ \A u \in Worker : run'[u].pc = "dispatch"
                                             /\ run'[u].order = run'[v].order => u = v
    BY <1>3 DEF OneAnnouncer, Announced
  <2>1. CASE v = w
    <3>1. run'[w].order = o
      BY <2>1, AfterSave
    <3>2. \A u \in Worker : run'[u].pc = "dispatch" /\ run'[u].order = o => u = w
      BY <1>12, <2>1, <3>1, SaveSpares
    <3> QED
      BY <1>12, <2>1, <3>1, <3>2
  <2>2. CASE v # w
    <3>1. run'[v] = run[v] /\ run[v].order \in Order
      BY <2>2, SaveSpares DEF TypeInv, LocalsInv, LocalsOK
    <3>2. /\ orders[run[v].order].status = "paid" /\ ~Announced(run[v].order)
          /\ \A u \in Worker : run[u].pc = "dispatch" /\ run[u].order = run[v].order => u = v
      BY <3>1 DEF FreshInv, OneAnnouncer
    <3>3. run'[w].pc = "dispatch" => run'[w].order # run[v].order
      BY <1>12, <3>1, AfterSave
    <3>4. orders'[run[v].order].status = "paid"
      BY <1>4, <1>5, <3>1, <3>2
    <3> QED
      BY <2>2, <3>1, <3>2, <3>3, <3>4, SaveSpares
  <2> QED
    BY <2>1, <2>2
<1> QED
  BY <1>6, <1>8, <1>9, <1>11, <1>13, SaveSpares DEF FreshInv

\* The order is announced.
LEMMA FreshDispatch ==
  ASSUME TypeInv, FreshInv, NEW w \in Worker, Dispatch(w)
  PROVE  FreshInv'
<1> DEFINE o == run[w].order
<1>1. /\ UNCHANGED <<orders, receipts, holds, clobbered, fresh>> /\ run[w].pc = "dispatch"
      /\ \A v \in Worker \ {w} : run'[v] = run[v]
  BY DEF Dispatch, history, tallies, TypeInv, TypeOK
<1>2. o \notin clobbered =>
        /\ orders[o].status = "paid" /\ ~Announced(o)
        /\ \A v \in Worker : run[v].pc = "dispatch" /\ run[v].order = o => v = w
  BY <1>1 DEF FreshInv, OneAnnouncer
<1>3. AnnouncedStaysPaid'
  <2> SUFFICES ASSUME NEW q \in Order \ clobbered
               PROVE  /\ Announced(q)' => orders[q].status = "paid"
                      /\ \A i, j \in DOMAIN outbox' :
                           outbox'[i].order = q /\ outbox'[j].order = q => i = j
    BY <1>1 DEF AnnouncedStaysPaid
  <2>1. Announced(q)' => orders[q].status = "paid"
    BY <1>2, Announcing DEF FreshInv, AnnouncedStaysPaid
  <2>2. /\ \A i, j \in DOMAIN outbox : outbox[i].order = q /\ outbox[j].order = q => i = j
        /\ q = o => ~Announced(q)
    BY <1>2 DEF FreshInv, AnnouncedStaysPaid
  <2> QED
    BY <2>1, <2>2, Announcing
<1>4. run'[w].pc \notin Saving \cup {"dispatch"}
  BY <1>1, OrderStepFacts DEF OrderStep, Follows, Saving
<1>5. HandlersFresh'
  <2> SUFFICES ASSUME NEW v \in Worker, run'[v].pc \in Saving, v \in fresh'
               PROVE  EntityFresh(run[v])'
    BY DEF HandlersFresh, Saving
  <2>1. run'[v] = run[v] /\ EntityFresh(run[v])
    BY <1>1, <1>4 DEF FreshInv, HandlersFresh
  <2> QED
    BY <1>1, <2>1, EntityKept
<1>6. OneAnnouncer'
  <2> SUFFICES ASSUME NEW v \in Worker, run'[v].pc = "dispatch", run'[v].order \notin clobbered
               PROVE  /\ orders[run'[v].order].status = "paid" /\ ~Announced(run[v].order)'
                      /\ \A u \in Worker : run'[u].pc = "dispatch"
                                             /\ run'[u].order = run'[v].order => u = v
    BY <1>1 DEF OneAnnouncer
  <2>1. v # w /\ run'[v] = run[v] /\ run[v].order \in Order
    BY <1>1, <1>4 DEF TypeInv, LocalsInv, LocalsOK
  <2>2. /\ orders[run[v].order].status = "paid" /\ ~Announced(run[v].order)
        /\ \A u \in Worker : run[u].pc = "dispatch" /\ run[u].order = run[v].order => u = v
    BY <2>1 DEF FreshInv, OneAnnouncer
  <2>3. run[v].order # o
    BY <1>1, <2>1, <2>2
  <2>4. ~Announced(run[v].order)'
    <3>1. \A q \in Order : Announced(q)' <=> Announced(q) \/ q = o
      BY Announcing
    <3>2. PICK q \in Order : q = run[v].order
      BY <2>1
    <3>3. ~Announced(q)'
      BY <2>2, <2>3, <3>1, <3>2
    <3>4. run'[v].order = q
      BY <2>1, <3>2
    <3> QED
      BY <3>3, <3>4 DEF Announced
  <2> QED
    BY <1>1, <1>4, <2>1, <2>2, <2>4
<1> QED
  BY <1>1, <1>3, <1>5, <1>6 DEF FreshInv, PaidIsReached, NothingLost, FullyPaid

LEMMA NextFreshInv == TypeInv /\ FreshInv /\ [Next]_vars => FreshInv'
<1> SUFFICES ASSUME TypeInv, FreshInv, [Next]_vars PROVE FreshInv'
  OBVIOUS
<1>1. CASE \E w \in Worker : OrderStep(w)
  BY <1>1, FreshApply, FreshSelect, FreshUpdate, StaleUpdate, FreshDispatch DEF OrderStep
<1>2. CASE \A w \in Worker : ~OrderStep(w)
  BY <1>2, FreshQuiet
<1> QED
  BY <1>1, <1>2

\* Every payment that a handler saved for an order is in its paid_amount, the
\* roundings of toFixed(6) aside, through every crash, rerun and failure, unless the
\* order was saved from a stale copy (applyIncomingPayment).
THEOREM NothingIsLost == Spec => []NothingLost
<1>1. FreshInv => NothingLost
  BY DEF FreshInv
<1> QED
  BY <1>1, InitFreshInv, NextFreshInv, TypeInvHolds, PTL DEF Spec

\* An order whose payments reach its amount is paid, the roundings aside, unless it
\* was saved from a stale copy (the comparison in applyIncomingPayment).
THEOREM OrdersAreFullyPaid == Spec => []FullyPaid
<1>1. FreshInv => FullyPaid
  BY DEF FreshInv
<1> QED
  BY <1>1, InitFreshInv, NextFreshInv, TypeInvHolds, PTL DEF Spec

\* An order that was announced to Laravel stays paid and is announced once, unless it
\* was saved from a stale copy: later payments and reruns are added to a row that
\* says paid, wasAlreadyPaid silences them, and rounding never takes the row back
\* below its amount.
THEOREM AnnouncedOrdersStayPaid == Spec => []AnnouncedStaysPaid
<1>1. FreshInv => AnnouncedStaysPaid
  BY DEF FreshInv
<1> QED
  BY <1>1, InitFreshInv, NextFreshInv, TypeInvHolds, PTL DEF Spec

\* Every payment is of six decimals, as paid_amount is.
SixDecimals == \A p \in Payment : Data[p].amount % 10 = 0

\* The row of an order is the sum of the payments saved for it.
ExactInv ==
  \A o \in Order \ clobbered :
    /\ orders[o].paidAmount = receipts[o].sum /\ receipts[o].sum % 10 = 0
    /\ receipts[o].count > 0 =>
         (orders[o].status = "paid" <=> receipts[o].sum >= AssetAmount[o])

\* Nothing is added at first.
LEMMA InitExactInv == Init => ExactInv
BY DEF Init, ExactInv

\* Every save of a fresh copy keeps the sum.
LEMMA NextExactInv ==
  ASSUME SixDecimals
  PROVE  TypeInv /\ FreshInv /\ ExactInv /\ [Next]_vars => ExactInv'
<1> SUFFICES ASSUME TypeInv, FreshInv, ExactInv, [Next]_vars PROVE ExactInv'
  OBVIOUS
<1>1. ASSUME NEW w \in Worker, SaveUpdate(w), w \in fresh, run[w].order \notin clobbered
      PROVE  ExactInv'
  <2> DEFINE o == run[w].order
             p == run[w].job
             total == Total(run[w].order, run[w].job)
  <2>1. /\ o \in Order /\ p \in Payment /\ clobbered' = clobbered
        /\ orders' = [orders EXCEPT ![o] =
             [paidAmount |-> ToFixed6(total), status |-> StatusFor(o, total)]]
    BY <1>1, SavedWhole, OrderStepFacts DEF FreshInv, OrderStep, SaveUpdate
  <2>2. /\ Data[p].amount \in Nat /\ Data[p].amount % 10 = 0
        /\ receipts[o].sum \in Nat /\ receipts[o].count \in Nat
        /\ AssetAmount[o] \in Nat
        /\ total = receipts[o].sum + Data[p].amount
    <3>1. Data[p].amount \in Nat /\ Data[p].amount % 10 = 0
      BY <2>1, DataAssumption DEF SixDecimals, DataType
    <3>2. /\ receipts[o].sum \in Nat /\ receipts[o].count \in Nat
          /\ AssetAmount[o] \in Nat
      BY <2>1, AmountTypes
    <3>3. orders[o].paidAmount = receipts[o].sum
      BY <1>1, <2>1 DEF ExactInv
    <3> QED
      BY <3>1, <3>2, <3>3 DEF Total
  <2>3. receipts' = [receipts EXCEPT ![o] =
          [count |-> receipts[o].count + 1, sum |-> receipts[o].sum + Data[p].amount]]
    BY <1>1 DEF SaveUpdate
  <2>4. receipts[o].sum % 10 = 0
    BY <1>1, <2>1 DEF ExactInv
  <2> HIDE DEF o, p, total
  <2>5. total \in Nat /\ total % 10 = 0 /\ ToFixed6(total) = total
    BY <2>2, <2>4 DEF ToFixed6
  <2>6. /\ orders'[o].paidAmount = total /\ orders'[o].status = StatusFor(o, total)
        /\ receipts'[o].sum = total
        /\ \A q \in Order \ {o} : orders'[q] = orders[q] /\ receipts'[q] = receipts[q]
    BY <2>1, <2>2, <2>3, <2>5 DEF TypeInv, TypeOK
  <2>7. StatusFor(o, total) = "paid" <=> total >= AssetAmount[o]
    BY <2>2, <2>5 DEF StatusFor
  <2> QED
    BY <2>1, <2>5, <2>6, <2>7 DEF ExactInv
<1>2. ASSUME NEW w \in Worker, SaveUpdate(w), w \notin fresh \/ run[w].order \in clobbered
      PROVE  ExactInv'
  <2>1. clobbered \subseteq clobbered' /\ run[w].order \in clobbered'
    BY <1>2 DEF SaveUpdate
  <2>2. \A q \in Order \ clobbered' :
          q \in Order \ clobbered /\ orders'[q] = orders[q] /\ receipts'[q] = receipts[q]
    BY <1>2, <2>1, SaveSpares
  <2> QED
    BY <2>2 DEF ExactInv
<1>3. ASSUME \A w \in Worker : ~SaveUpdate(w) PROVE UNCHANGED <<orders, receipts, clobbered>>
  BY <1>3, CoreStutter DEF Next, Work, Deliver, RecoverStalled, Crash, Take, Skip, Inspect,
         Unmatched, Mismatch, ApplyPayment, SaveSelect, Dispatch, FindMovement,
         SaveMovement, DuplicateMovement, FetchBalances, SaveBalances, StoreBalances,
         Complete, Fail, core, store, history, tallies
<1> QED
  BY <1>1, <1>2, <1>3 DEF ExactInv

\* With payments of six decimals applyIncomingPayment keeps exact accounts: unless
\* an order was saved from a stale copy, its paid_amount is the sum of the payments
\* saved for it, and as soon as there is one, it is paid if and only if that sum
\* reaches its amount. So it takes a stale copy or a seventh decimal to go wrong.
THEOREM LedgerIsExact ==
  ASSUME SixDecimals
  PROVE  Spec => [](\A o \in Order \ clobbered :
                      /\ orders[o].paidAmount = receipts[o].sum
                      /\ receipts[o].count > 0 =>
                           (orders[o].status = "paid" <=>
                              receipts[o].sum >= AssetAmount[o]))
<1>1. ExactInv => \A o \in Order \ clobbered :
                    /\ orders[o].paidAmount = receipts[o].sum
                    /\ receipts[o].count > 0 =>
                         (orders[o].status = "paid" <=>
                            receipts[o].sum >= AssetAmount[o])
  BY DEF ExactInv
<1> QED
  BY <1>1, InitExactInv, NextExactInv, InitFreshInv, NextFreshInv, TypeInvHolds,
     PTL DEF Spec

-----------------------------------------------------------------------------
(* One handler at a time. *)

\* The copy that a handler is about to save is fresh, and each one before was.
NoStaleCopy ==
  /\ \A w \in Worker : run[w].pc \in Saving => w \in fresh
  /\ clobbered = {}

LEMMA InitNoStaleCopy == Init => NoStaleCopy
BY DEF Init, NoStaleCopy, Saving, Idle

LEMMA NextNoStaleCopy ==
  ASSUME OneWorker
  PROVE  TypeInv /\ NoStaleCopy /\ [Next]_vars => NoStaleCopy'
<1> SUFFICES ASSUME TypeInv, NoStaleCopy, [Next]_vars PROVE NoStaleCopy'
  OBVIOUS
<1>1. CASE \A w \in Worker : ~OrderStep(w)
  <2>1. clobbered' = clobbered /\ \A w \in Worker : run'[w].pc \in Saving => run'[w] = run[w]
    BY <1>1, QuietSteps DEF tallies
  <2> QED
    BY <1>1, <2>1, FreshnessKept DEF NoStaleCopy
<1>2. ASSUME NEW w \in Worker, ApplyPayment(w) PROVE NoStaleCopy'
  BY <1>2 DEF ApplyPayment, tallies, NoStaleCopy, OneWorker
<1>3. ASSUME NEW w \in Worker, SaveSelect(w) PROVE NoStaleCopy'
  BY <1>3 DEF SaveSelect, history, tallies, NoStaleCopy, OneWorker, Saving
<1>4. ASSUME NEW w \in Worker, SaveUpdate(w) PROVE NoStaleCopy'
  <2>1. clobbered' = clobbered
    BY <1>4 DEF SaveUpdate, NoStaleCopy, Saving
  <2> QED
    BY <1>4, <2>1, AfterSave DEF NoStaleCopy, OneWorker
<1>5. ASSUME NEW w \in Worker, Dispatch(w) PROVE NoStaleCopy'
  <2>1. run'[w].pc \notin Saving /\ clobbered' = clobbered
    BY <1>5, OrderStepFacts DEF OrderStep, Dispatch, Follows, Saving, history, tallies
  <2> QED
    BY <2>1 DEF NoStaleCopy, OneWorker
<1> QED
  BY <1>1, <1>2, <1>3, <1>4, <1>5 DEF OrderStep

\* With BULL_INCOMING_CONCURRENCY = 1 no order is ever saved from a stale copy, not
\* even across crashes and reruns: what is promised of orders that were not saved
\* from a stale copy is promised of all of them.
THEOREM OneWorkerSavesNoStaleCopy ==
  ASSUME OneWorker
  PROVE  Spec => [](clobbered = {})
<1>1. NoStaleCopy => clobbered = {}
  BY DEF NoStaleCopy
<1> QED
  BY <1>1, InitNoStaleCopy, NextNoStaleCopy, TypeInvHolds, PTL DEF Spec

-----------------------------------------------------------------------------
(* The money of a completed job is in its order. *)

\* paid_amount, and what a handler is about to store there, has six decimals.
StoredInv ==
  /\ \A o \in Order : orders[o].paidAmount % 10 = 0
  /\ \A w \in Worker : run[w].pc \in Saving => run[w].paidAmount % 10 = 0

\* A payment that was saved for an order is kept there.
KeptInv ==
  \A p \in Payment : Reconcilable(p) /\ Data[p].amount >= 5 /\ credits[p] > 0
    => \E o \in Data[p].applies : Keeps(o, p)

LEMMA InitKeptInv == Init => StoredInv /\ KeptInv
BY DEF Init, StoredInv, KeptInv, Saving, Idle

\* toFixed(6) has six decimals, and half of the sixth decimal is not rounded away.
LEMMA ToFixed6Adds ==
  ASSUME NEW x \in Nat
  PROVE  /\ ToFixed6(x) % 10 = 0
         /\ \A y, a \in Nat : x = y + a /\ y % 10 = 0 /\ a >= 5 => ToFixed6(x) # y
<1>1. ToFixed6(x) % 10 = 0
  BY DEF ToFixed6
<1>2. ASSUME NEW y \in Nat, NEW a \in Nat, x = y + a, y % 10 = 0, a >= 5
      PROVE  ToFixed6(x) # y
  <2>1. y = 10 * (y \div 10) /\ y \div 10 \in Nat
    BY <1>2
  <2>2. (x + 5) \div 10 >= y \div 10 + 1
    BY <1>2
  <2> QED
    BY <2>1, <2>2 DEF ToFixed6
<1> QED
  BY <1>1, <1>2

\* Every amount that is stored has been through toFixed(6).
LEMMA NextStoredInv == TypeInv /\ StoredInv /\ [Next]_vars => StoredInv'
<1> SUFFICES ASSUME TypeInv, StoredInv, [Next]_vars PROVE StoredInv'
  OBVIOUS
<1>1. CASE \A w \in Worker : ~OrderStep(w)
  BY <1>1, QuietSteps DEF StoredInv
<1>2. ASSUME NEW w \in Worker, OrderStep(w) PROVE StoredInv'
  <2> DEFINE r == run[w]
  <2>1. /\ r \in Locals /\ r.job \in Payment /\ Data[r.job].amount \in Nat
        /\ Data[r.job].applies \subseteq Order
        /\ run \in [Worker -> Locals]
    BY <1>2, OrderStepFacts DEF TypeInv, TypeOK
  <2>2. ASSUME NEW n, run' = [run EXCEPT ![w] = n], n.pc \in Saving => n.paidAmount % 10 = 0,
               \A o \in Order : orders'[o].paidAmount % 10 = 0
        PROVE  StoredInv'
    BY <2>1, <2>2 DEF StoredInv
  <2>3. CASE ApplyPayment(w)
    <3>1. PICK o \in Data[r.job].applies :
            run' = [run EXCEPT ![w] =
              [r EXCEPT !.pc = "saveSelect", !.order = o,
                        !.paidAmount = ToFixed6(Total(o, r.job)),
                        !.sums = holds[o] \cup {r.job},
                        !.status = StatusFor(o, Total(o, r.job)),
                        !.wasPaid = (orders[o].status = "paid")]]
      BY <2>3 DEF ApplyPayment
    <3>2. ToFixed6(Total(o, r.job)) % 10 = 0
      BY <2>1, AmountTypes, ToFixed6Adds
    <3>3. orders' = orders
      BY <2>3 DEF ApplyPayment, store
    <3> QED
      BY <2>1, <2>2, <3>1, <3>2, <3>3 DEF StoredInv, Locals
  <2>4. CASE SaveSelect(w)
    <3>1. /\ run' = [run EXCEPT ![w] = [r EXCEPT !.pc = "saveUpdate",
                                           !.dirty = Differences(r, orders[r.order])]]
          /\ orders' = orders /\ r.pc = "saveSelect"
      BY <2>4 DEF SaveSelect, store
    <3> QED
      BY <2>1, <2>2, <3>1 DEF StoredInv, Locals, Saving
  <2>5. CASE SaveUpdate(w)
    <3>1. /\ r.pc = "saveUpdate" /\ r.paidAmount % 10 = 0
          /\ \A v \in Worker \ {w} : run'[v] = run[v]
      BY <2>1, <2>5 DEF SaveUpdate, StoredInv, Saving
    <3>2. \A o \in Order : \/ orders'[o].paidAmount = orders[o].paidAmount
                           \/ orders'[o].paidAmount = r.paidAmount
      BY <2>5 DEF SaveUpdate, TypeInv, TypeOK
    <3> QED
      BY <2>5, <3>1, <3>2, AfterSave DEF StoredInv
  <2>6. CASE Dispatch(w)
    <3>1. /\ \A v \in Worker \ {w} : run'[v] = run[v]
          /\ orders' = orders /\ run'[w].pc \notin Saving
      BY <2>1, <2>6, OrderStepFacts DEF OrderStep, Dispatch, Follows, Saving
    <3> QED
      BY <3>1 DEF StoredInv
  <2> QED
    BY <1>2, <2>3, <2>4, <2>5, <2>6 DEF OrderStep
<1> QED
  BY <1>1, <1>2

\* A save keeps what the row holds, adds its own payment, or is one of a stale copy.
LEMMA SaveKeeps ==
  ASSUME TypeInv, FreshInv, StoredInv, NEW w \in Worker, SaveUpdate(w)
  PROVE  /\ \A o \in Order : \A p \in Payment : Keeps(o, p) => Keeps(o, p)'
         /\ Data[run[w].job].amount >= 5 =>
              run[w].job \in holds'[run[w].order] \/ run[w].order \in clobbered'
<1> DEFINE r == run[w]
           o == run[w].order
           total == Total(run[w].order, run[w].job)
<1>1. /\ o \in Order /\ r.pc = "saveUpdate"
      /\ holds' = [holds EXCEPT ![o] = IF "paidAmount" \in r.dirty THEN r.sums ELSE @]
      /\ clobbered' = IF w \in fresh THEN clobbered ELSE clobbered \cup {o}
  BY OrderStepFacts DEF OrderStep, SaveUpdate, LocalsOK
<1>2. /\ holds'[o] = IF "paidAmount" \in r.dirty THEN r.sums ELSE holds[o]
      /\ \A q \in Order \ {o} : holds'[q] = holds[q]
  BY <1>1 DEF TypeInv, TypeOK
<1>3. CASE w \notin fresh
  BY <1>1, <1>2, <1>3 DEF Keeps
<1>4. CASE w \in fresh
  <2>1. /\ EntityFresh(r) /\ r.sums = holds[o] \cup {r.job}
        /\ r.paidAmount = ToFixed6(total) /\ r.dirty = Differences(r, orders[o])
    BY <1>1, <1>4 DEF FreshInv, HandlersFresh, EntityFresh, Saving
  <2>2. \A q \in Order : \A p \in Payment : Keeps(q, p) => Keeps(q, p)'
    BY <1>1, <1>2, <1>4, <2>1 DEF Keeps
  <2>3. ASSUME Data[r.job].amount >= 5 PROVE r.job \in holds'[o]
    <3>1. /\ total \in Nat /\ orders[o].paidAmount \in Nat
          /\ Data[r.job].amount \in Nat /\ total = orders[o].paidAmount + Data[r.job].amount
          /\ orders[o].paidAmount % 10 = 0
      BY <1>1, AmountTypes, OrderStepFacts DEF OrderStep, Total, StoredInv
    <3> HIDE DEF total
    <3>2. r.paidAmount # orders[o].paidAmount
      BY <2>1, <2>3, <3>1, ToFixed6Adds
    <3>3. "paidAmount" \in r.dirty
      BY <2>1, <3>2 DEF Differences, Columns
    <3> QED
      BY <1>2, <2>1, <3>3
  <2> QED
    BY <2>2, <2>3
<1> QED
  BY <1>3, <1>4

LEMMA NextKeptInv ==
  TypeInv /\ FreshInv /\ StoredInv /\ KeptInv /\ [Next]_vars => KeptInv'
<1> SUFFICES ASSUME TypeInv, FreshInv, StoredInv, KeptInv, [Next]_vars PROVE KeptInv'
  OBVIOUS
<1>1. ASSUME NEW w \in Worker, SaveUpdate(w), NEW p \in Payment, Reconcilable(p),
             Data[p].amount >= 5, credits'[p] > 0
      PROVE  \E o \in Data[p].applies : Keeps(o, p)'
  <2>1. Data[p].applies \subseteq Order /\ Data[p].found = Data[p].applies
    BY <1>1, ReconcilableFacts
  <2>2. CASE run[w].job = p
    <3>1. run[w].order \in Data[p].applies
      BY <1>1, <2>1, <2>2, OrderStepFacts DEF OrderStep, SaveUpdate, LocalsOK
    <3> QED
      BY <1>1, <2>1, <2>2, <3>1, SaveKeeps DEF Keeps
  <2>3. CASE run[w].job # p
    <3>1. credits'[p] = credits[p]
      BY <1>1, <2>3 DEF SaveUpdate, TypeInv, TypeOK
    <3>2. PICK o \in Data[p].applies : Keeps(o, p)
      BY <1>1, <3>1 DEF KeptInv
    <3> QED
      BY <1>1, <2>1, <3>2, SaveKeeps
  <2> QED
    BY <2>2, <2>3
<1>2. ASSUME \A w \in Worker : ~SaveUpdate(w) PROVE UNCHANGED <<credits, holds, clobbered>>
  BY <1>2, CoreStutter DEF Next, Work, Deliver, RecoverStalled, Crash, Take, Skip, Inspect,
         Unmatched, Mismatch, ApplyPayment, SaveSelect, Dispatch, FindMovement,
         SaveMovement, DuplicateMovement, FetchBalances, SaveBalances, StoreBalances,
         Complete, Fail, core, store, history, tallies
<1> QED
  BY <1>1, <1>2 DEF KeptInv, Keeps, Reconcilable

\* The money of a completed job is in the paid_amount of an order that it applies to,
\* unless a stale copy of that order was saved: no crash, rerun, failing await or
\* earlier status lets a job end as done without it (process rethrows its errors).
THEOREM CompletedJobsAreCredited == Spec => []CompletedIsCredited
<1>1. CreditedInv /\ KeptInv => CompletedIsCredited
  BY DEF CreditedInv, KeptInv, CompletedIsCredited
<1> QED
  BY <1>1, InitCreditedInv, NextCreditedInv, InitFreshInv, NextFreshInv, InitKeptInv,
     NextStoredInv, NextKeptInv, TypeInvHolds, PTL DEF Spec

-----------------------------------------------------------------------------
(* The stored balances of a wallet. *)

WalletLegs(p) == Due(p) \cap {SenderWallet, ReceiverWallet}

\* Handler r has stored the balances for movement k of payment p.
Stored(r, p, k) == r.job = p /\ r.pc \in Recording /\ k < r.leg

Past(p, k) == jobs[p] = "completed" \/ \E w \in Worker : Stored(run[w], p, k)

\* A snapshot of wallet a has each payment whose balances were stored for a.
Covers(a, snapshot) ==
  \A p \in Payment : \A k \in WalletLegs(p) :
    Past(p, k) /\ LegAddress(p, k) = a => p \in snapshot

ReflectedInv ==
  /\ \A w \in Worker : run[w].pc = "finish" => run[w].leg = NoMore
  /\ \A w \in Worker : run[w].pc = "saveBalances" =>
       /\ run[w].job \in run[w].snapshot
       /\ w \in fresh => Covers(LegAddress(run[w].job, run[w].leg), run[w].snapshot)
  /\ \A r \in Request : r \in fresh /\ syncs[r] # NoSync =>
       Covers(syncs[r].address, syncs[r].snapshot)
  /\ \A a \in Wallet : a \in overtaken \/ Covers(a, balances[a])

LEMMA InitReflectedInv == Init => ReflectedInv
BY DEF Init, ReflectedInv, Idle, Recording, Covers, Past, Stored

\* A movement of a wallet belongs to a wallet, which its payment moves.
LEMMA WalletLegFacts ==
  ASSUME NEW p \in Payment, NEW k \in WalletLegs(p)
  PROVE  /\ k \in Due(p) /\ k \in 1..2
         /\ LegAddress(p, k) \in Wallet
         /\ jobs[p] # "absent" => p \in OnLedger(LegAddress(p, k))
<1>1. k \in Due(p) /\ k \in {1, 2}
  BY DEF WalletLegs
<1>2. (k = 1 /\ Data[p].from \in Wallet) \/ (k = 2 /\ Data[p].to \in Wallet)
  BY <1>1 DEF Due
<1>3. LegAddress(p, k) \in Wallet /\ LegAddress(p, k) \in {Data[p].from, Data[p].to}
  BY <1>2 DEF LegAddress
<1> QED
  BY <1>1, <1>3 DEF OnLedger

\* Before its first movement a handler owes no wallet anything.
LEMMA BeforeRecording ==
  ASSUME TypeInv, NEW w \in Worker, Move(w), run[w].pc \notin Recording,
         run'[w].pc \in Recording
  PROVE  \E o \in Order \cup {None} : run'[w] = AfterLeg(run[w], o, 0)
<1> DEFINE r == run[w]
<1>1. /\ r \in Locals /\ r.job \in Payment /\ run \in [Worker -> Locals] /\ LocalsOK(r)
      /\ Data[r.job].found \subseteq Order
  BY MoveFacts, DataAssumption DEF TypeInv, TypeOK, LocalsInv, DataType
<1>2. CASE Inspect(w) \/ Unmatched(w)
  <2>1. run' = [run EXCEPT ![w] = [r EXCEPT !.pc = "match"]]
        \/ run' = [run EXCEPT ![w] = AfterLeg(r, None, 0)]
    BY <1>2 DEF Inspect, Unmatched
  <2>2. run'[w] = [r EXCEPT !.pc = "match"] \/ run'[w] = AfterLeg(r, None, 0)
    BY <1>1, <2>1
  <2>3. [r EXCEPT !.pc = "match"].pc = "match"
    BY <1>1 DEF Locals
  <2> QED
    BY <2>2, <2>3 DEF Recording
<1>3. CASE Mismatch(w)
  <2>1. PICK o \in Data[r.job].found : run' = [run EXCEPT ![w] = AfterLeg(r, o, 0)]
    BY <1>3 DEF Mismatch
  <2> QED
    BY <1>1, <2>1
<1>4. CASE SaveUpdate(w)
  <2>1. ~Announces(r)
    BY <1>4, AfterSave DEF Recording
  <2> QED
    BY <1>1, <1>4, <2>1 DEF SaveUpdate, LocalsOK
<1>5. CASE Dispatch(w)
  BY <1>1, <1>5 DEF Dispatch, LocalsOK
<1>6. CASE ApplyPayment(w)
  <2>1. r.pc = "match" /\ <<r.pc, run'[w].pc>> \in Follows
    BY <1>6, MoveFacts DEF ApplyPayment
  <2>2. PICK o \in Data[r.job].applies :
          run' = [run EXCEPT ![w] =
            [r EXCEPT !.pc = "saveSelect", !.order = o,
                      !.paidAmount = ToFixed6(Total(o, r.job)),
                      !.sums = holds[o] \cup {r.job},
                      !.status = StatusFor(o, Total(o, r.job)),
                      !.wasPaid = (orders[o].status = "paid")]]
    BY <1>6 DEF ApplyPayment
  <2>3. run'[w].pc = "saveSelect"
    BY <1>1, <2>2 DEF Locals
  <2> QED
    BY <2>3 DEF Recording
<1>7. CASE SaveSelect(w)
  BY <1>7, MoveFacts DEF SaveSelect, Follows, Recording
<1> QED
  BY <1>2, <1>3, <1>4, <1>5, <1>6, <1>7
     DEF Move, FindMovement, SaveMovement, FetchBalances, SaveBalances, StoreBalances, Recording

\* A handler that goes on after movement k has stored no later ones.
LEMMA AfterLegStored ==
  ASSUME NEW r, r.job \in Payment, NEW o \in Order \cup {None}, NEW k \in 0..4
  PROVE  /\ AfterLeg(r, o, k).pc = "finish" => AfterLeg(r, o, k).leg = NoMore
         /\ AfterLeg(r, o, k).pc # "saveBalances"
         /\ \A p \in Payment : \A l \in WalletLegs(p) :
              Stored(AfterLeg(r, o, k), p, l) => r.job = p /\ l <= k
<1> DEFINE a == AfterLeg(r, o, k)
<1>1. /\ a.job = r.job /\ a.pc \in {"findMovement", "finish"} /\ a.leg \in 0..5
      /\ a.pc = "finish" => a.leg = NoMore
      /\ \A l \in Due(r.job) : l > k => a.leg <= l
  BY AfterLegFacts DEF Locals
<1> HIDE DEF a
<1>2. ASSUME NEW p \in Payment, NEW l \in WalletLegs(p), Stored(a, p, l)
      PROVE  r.job = p /\ l <= k
  <2>1. l \in Due(p) /\ l \in 1..2 /\ a.job = p /\ l < a.leg
    BY <1>2, WalletLegFacts DEF Stored
  <2> QED
    BY <1>1, <2>1
<1> QED
  BY <1>1, <1>2 DEF a

\* A step inside process stores the balances of one movement at most.
LEMMA MoveStores ==
  ASSUME TypeInv, NEW w \in Worker, Move(w)
  PROVE  /\ run'[w].pc = "finish" => run'[w].leg = NoMore
         /\ run'[w].pc = "saveBalances" => FetchBalances(w)
         /\ \A p \in Payment : \A k \in WalletLegs(p) :
              Stored(run'[w], p, k) =>
                \/ Stored(run[w], p, k)
                \/ SaveBalances(w) /\ p = run[w].job /\ k = run[w].leg
<1> DEFINE r == run[w]
           n == run'[w]
           Good == /\ n.pc = "finish" => n.leg = NoMore
                   /\ n.pc = "saveBalances" => FetchBalances(w)
                   /\ \A p \in Payment : \A k \in WalletLegs(p) :
                        Stored(n, p, k) =>
                          \/ Stored(r, p, k)
                          \/ SaveBalances(w) /\ p = r.job /\ k = r.leg
<1>1. /\ r \in Locals /\ run \in [Worker -> Locals] /\ LocalsOK(r)
      /\ r.job \in Payment /\ n.job = r.job
      /\ r.order \in Order \cup {None} /\ r.leg \in 0..5
      /\ <<r.pc, n.pc>> \in Follows
  BY MoveFacts DEF TypeInv, TypeOK, LocalsInv, Locals
<1>2. \A p \in Payment : \A k \in WalletLegs(p) : k \in 1..2
  BY WalletLegFacts
<1>3. CASE n.pc \notin Recording
  BY <1>3 DEF Stored, Recording
<1>4. CASE r.pc \notin Recording /\ n.pc \in Recording
  <2>1. PICK o \in Order \cup {None} : n = AfterLeg(r, o, 0)
    BY <1>4, BeforeRecording
  <2>2. /\ n.pc = "finish" => n.leg = NoMore
        /\ n.pc # "saveBalances"
        /\ \A p \in Payment : \A k \in WalletLegs(p) : Stored(n, p, k) => k <= 0
    BY <1>1, <2>1, AfterLegStored
  <2> QED
    BY <1>2, <2>2
<1>5. CASE FindMovement(w)
  <2>1. n.pc = "saveMovement" /\ n.leg = r.leg /\ r.pc = "findMovement"
    BY <1>1, <1>5 DEF FindMovement, Locals
  <2> QED
    BY <1>1, <2>1 DEF Stored, Recording
<1>6. CASE SaveMovement(w)
  <2>1. r.pc = "saveMovement" /\ r.leg \in 1..4
    BY <1>1, <1>6 DEF SaveMovement, LocalsOK, Due
  <2>2. CASE r.leg \in {SenderWallet, ReceiverWallet}
    <3>1. n = [r EXCEPT !.pc = "fetchBalances"]
      BY <1>1, <1>6, <2>2 DEF SaveMovement
    <3>2. n.pc = "fetchBalances" /\ n.leg = r.leg
      BY <1>1, <3>1 DEF Locals
    <3> QED
      BY <1>1, <2>1, <3>2 DEF Stored, Recording
  <2>3. CASE r.leg \notin {SenderWallet, ReceiverWallet}
    <3>1. n = AfterLeg(r, r.order, r.leg) /\ r.leg \in 3..4
      BY <1>1, <1>6, <2>1, <2>3 DEF SaveMovement
    <3>2. /\ n.pc = "finish" => n.leg = NoMore
          /\ n.pc # "saveBalances"
          /\ \A p \in Payment : \A k \in WalletLegs(p) : Stored(n, p, k) => r.job = p
      BY <1>1, <2>1, <3>1, AfterLegStored
    <3>3. \A p \in Payment : \A k \in WalletLegs(p) : r.job = p => Stored(r, p, k)
      BY <1>2, <2>1, <3>1 DEF Stored, Recording
    <3> QED
      BY <3>2, <3>3
  <2> QED
    BY <2>2, <2>3
<1>7. CASE FetchBalances(w)
  <2>1. r.pc = "fetchBalances" /\ n.pc = "saveBalances" /\ n.leg = r.leg
    BY <1>1, <1>7 DEF FetchBalances, Locals
  <2> QED
    BY <1>1, <1>7, <2>1 DEF Stored, Recording
<1>8. CASE SaveBalances(w)
  <2>1. r.pc = "saveBalances" /\ r.leg \in 1..4 /\ n = AfterLeg(r, r.order, r.leg)
    BY <1>1, <1>8 DEF SaveBalances, LocalsOK, Due
  <2>2. /\ n.pc = "finish" => n.leg = NoMore
        /\ n.pc # "saveBalances"
        /\ \A p \in Payment : \A k \in WalletLegs(p) :
             Stored(n, p, k) => r.job = p /\ k <= r.leg
    BY <1>1, <2>1, AfterLegStored
  <2>3. \A p \in Payment : \A k \in WalletLegs(p) :
          r.job = p /\ k <= r.leg => Stored(r, p, k) \/ k = r.leg
    BY <1>2, <2>1 DEF Stored, Recording
  <2> QED
    BY <1>8, <2>2, <2>3
<1> QED
  BY <1>3, <1>4, <1>5, <1>6, <1>7, <1>8
     DEF Move, Inspect, Unmatched, Mismatch, ApplyPayment, SaveSelect, SaveUpdate, Dispatch,
         Recording

\* A movement is past only after its handler stored the balances.
LEMMA PastGrows ==
  ASSUME TypeInv, ReflectedInv, [Next]_vars, NEW p \in Payment, NEW k \in WalletLegs(p),
         Past(p, k)'
  PROVE  \/ Past(p, k)
         \/ \E w \in Worker : SaveBalances(w) /\ p = run[w].job /\ k = run[w].leg
<1> USE DEF TypeInv
<1>0. jobs'[p] = "completed" \/ \E w \in Worker : Stored(run'[w], p, k)
  BY DEF Past, Stored
<1>1. ASSUME NEW q \in Payment, Deliver(q) \/ RecoverStalled(q) PROVE Past(p, k)
  <2>1. run' = run /\ (jobs'[p] = "completed" => jobs[p] = "completed")
    BY <1>1 DEF Deliver, RecoverStalled, TypeOK
  <2> QED
    BY <1>0, <2>1 DEF Past
<1>2. CASE Crash
  BY <1>0, <1>2 DEF Crash, Idle, Past, Stored, Recording
<1>3. ASSUME NEW w \in Worker, Take(w) PROVE Past(p, k)
  <2>1. PICK q \in Payment :
          /\ run' = [run EXCEPT ![w] = [Idle EXCEPT !.pc = "start", !.job = q]]
          /\ jobs' = [jobs EXCEPT ![q] = "active"]
    BY <1>3 DEF Take
  <2>2. run'[w].pc = "start" /\ \A v \in Worker \ {w} : run'[v] = run[v]
    BY <2>1 DEF TypeOK, Idle
  <2>3. jobs'[p] = "completed" => jobs[p] = "completed"
    BY <2>1 DEF TypeOK
  <2> QED
    BY <1>0, <2>2, <2>3 DEF Past, Stored, Recording
<1>4. ASSUME NEW w \in Worker,
             Skip(w) \/ DuplicateMovement(w) \/ Complete(w) \/ Fail(w)
      PROVE  Past(p, k)
  <2>1. PICK outcome \in {"completed", "failed"} :
          EndJob(w, outcome) /\ run[w].pc # "idle"
    BY <1>4 DEF Skip, DuplicateMovement, Complete, Fail
  <2>2. /\ run'[w].pc = "idle" /\ jobs'[run[w].job] = outcome
        /\ \A q \in Payment : q # run[w].job => jobs'[q] = jobs[q]
        /\ \A v \in Worker : v # w => run'[v] = run[v]
    BY <2>1, HandlerEnds DEF Idle
  <2>3. CASE \E v \in Worker : Stored(run'[v], p, k)
    <3>1. PICK v \in Worker : Stored(run'[v], p, k)
      BY <2>3
    <3>2. run'[v] = run[v]
      BY <2>2, <3>1 DEF Stored, Recording
    <3> QED
      BY <3>1, <3>2 DEF Past
  <2>4. CASE jobs'[p] = "completed" /\ jobs[p] # "completed"
    <3>1. p = run[w].job /\ outcome = "completed"
      BY <2>2, <2>4
    <3>2. Skip(w) \/ Complete(w)
      BY <1>4, <2>2, <3>1 DEF DuplicateMovement, Fail, EndJob, TypeOK
    <3>3. Complete(w)
      BY <3>1, <3>2 DEF Skip, Involved, WalletLegs
    <3>4. run[w].pc = "finish" /\ run[w].leg = NoMore
      BY <3>3 DEF Complete, ReflectedInv
    <3>5. Stored(run[w], p, k)
      BY <3>1, <3>4, WalletLegFacts DEF Stored, Recording
    <3> QED
      BY <3>5 DEF Past
  <2> QED
    BY <1>0, <2>3, <2>4 DEF Past
<1>5. ASSUME NEW w \in Worker, Move(w)
      PROVE  Past(p, k) \/ (SaveBalances(w) /\ p = run[w].job /\ k = run[w].leg)
  <2>1. jobs' = jobs /\ \A v \in Worker : v # w => run'[v] = run[v]
    BY <1>5, MoveFacts
  <2>2. Stored(run'[w], p, k) =>
          \/ Stored(run[w], p, k)
          \/ SaveBalances(w) /\ p = run[w].job /\ k = run[w].leg
    BY <1>5, MoveStores
  <2> QED
    BY <1>0, <2>1, <2>2 DEF Past
<1>6. CASE UNCHANGED core
  BY <1>0, <1>6 DEF core, Past
<1> QED
  BY <1>1, <1>2, <1>3, <1>4, <1>5, <1>6, CoreStutter DEF Next, Work, Move

\* A handler reaches the end only after its last movement.
LEMMA NextFinish ==
  ASSUME TypeInv, ReflectedInv, [Next]_vars
  PROVE  \A w \in Worker : run'[w].pc = "finish" => run'[w].leg = NoMore
<1> USE DEF TypeInv
<1>0. \A w \in Worker : run[w].pc = "finish" => run[w].leg = NoMore
  BY DEF ReflectedInv
<1>1. ASSUME NEW p \in Payment, Deliver(p) \/ RecoverStalled(p) PROVE run' = run
  BY <1>1 DEF Deliver, RecoverStalled
<1>2. CASE Crash
  BY <1>2 DEF Crash, Idle
<1>3. ASSUME NEW w \in Worker, Take(w)
      PROVE  run'[w].pc # "finish" /\ \A v \in Worker \ {w} : run'[v] = run[v]
  <2>1. PICK p \in Payment : run' = [run EXCEPT ![w] = [Idle EXCEPT !.pc = "start", !.job = p]]
    BY <1>3 DEF Take
  <2> QED
    BY <2>1 DEF TypeOK, Idle
<1>4. ASSUME NEW w \in Worker,
             Skip(w) \/ DuplicateMovement(w) \/ Complete(w) \/ Fail(w)
      PROVE  run'[w].pc # "finish" /\ \A v \in Worker \ {w} : run'[v] = run[v]
  <2>1. PICK outcome \in {"completed", "failed"} :
          EndJob(w, outcome) /\ run[w].pc # "idle"
    BY <1>4 DEF Skip, DuplicateMovement, Complete, Fail
  <2> QED
    BY <2>1, HandlerEnds DEF Idle
<1>5. ASSUME NEW w \in Worker, Move(w)
      PROVE  /\ run'[w].pc = "finish" => run'[w].leg = NoMore
             /\ \A v \in Worker \ {w} : run'[v] = run[v]
  BY <1>5, MoveFacts, MoveStores
<1>6. CASE UNCHANGED core
  BY <1>0, <1>6 DEF core
<1> QED
  BY <1>0, <1>1, <1>2, <1>3, <1>4, <1>5, <1>6, CoreStutter DEF Next, Work, Move

\* The steps around the balances of a wallet.
BalanceStep ==
  \/ \E w \in Worker : FetchBalances(w) \/ SaveBalances(w)
  \/ \E r \in Request : SyncFetch(r) \/ SyncSave(r)

\* Every other step leaves the balances alone, and every snapshot or its holder.
LEMMA QuietBalances ==
  ASSUME TypeInv, [Next]_vars, ~BalanceStep
  PROVE  /\ UNCHANGED <<balances, overtaken>>
         /\ \A w \in Worker : run'[w].pc = "saveBalances" =>
              run'[w] = run[w] /\ (w \in fresh' => w \in fresh)
         /\ \A r \in Request : r \in fresh' /\ syncs'[r] # NoSync =>
              syncs'[r] = syncs[r] /\ r \in fresh
<1> USE DEF TypeInv
<1> DEFINE Quiet == /\ UNCHANGED <<balances, overtaken>>
                    /\ \A w \in Worker : run'[w].pc = "saveBalances" =>
                         run'[w] = run[w] /\ (w \in fresh' => w \in fresh)
                    /\ \A r \in Request : r \in fresh' /\ syncs'[r] # NoSync =>
                         syncs'[r] = syncs[r] /\ r \in fresh
<1>1. ASSUME NEW p \in Payment, Deliver(p) \/ RecoverStalled(p) PROVE Quiet
  BY <1>1 DEF Deliver, RecoverStalled, store, history
<1>2. CASE Crash
  BY <1>2 DEF Crash, Idle
<1>3. ASSUME NEW w \in Worker, Take(w) PROVE Quiet
  <2>1. PICK p \in Payment : run' = [run EXCEPT ![w] = [Idle EXCEPT !.pc = "start", !.job = p]]
    BY <1>3 DEF Take
  <2>2. run'[w].pc = "start" /\ \A v \in Worker \ {w} : run'[v] = run[v]
    BY <2>1 DEF TypeOK, Idle
  <2> QED
    BY <1>3, <2>2 DEF Take, store, history
<1>4. ASSUME NEW w \in Worker,
             Skip(w) \/ DuplicateMovement(w) \/ Complete(w) \/ Fail(w)
      PROVE  Quiet
  <2>1. PICK outcome \in {"completed", "failed"} :
          EndJob(w, outcome) /\ run[w].pc # "idle"
    BY <1>4 DEF Skip, DuplicateMovement, Complete, Fail
  <2>2. run'[w].pc = "idle" /\ \A v \in Worker \ {w} : run'[v] = run[v]
    BY <2>1, HandlerEnds DEF Idle
  <2> QED
    BY <1>4, <2>2 DEF Skip, DuplicateMovement, Complete, Fail, store, history
<1>5. ASSUME NEW w \in Worker, Move(w) PROVE Quiet
  <2>1. ~FetchBalances(w) /\ ~SaveBalances(w)
    BY DEF BalanceStep
  <2>2. /\ \A v \in Worker \ {w} : run'[v] = run[v]
        /\ run'[w].pc # "saveBalances"
    BY <1>5, <2>1, MoveFacts, MoveStores
  <2>3. UNCHANGED <<balances, overtaken, syncs>> /\ fresh' \subseteq fresh \cup {w}
    BY <1>5, <2>1 DEF Move, Inspect, Unmatched, Mismatch, ApplyPayment, SaveSelect,
         SaveUpdate, Dispatch, FindMovement, SaveMovement, store, history
  <2>4. w \notin Request
    BY ConstantsAssumption
  <2> QED
    BY <2>2, <2>3, <2>4
<1>6. ASSUME NEW r \in Request, SyncFail(r) PROVE Quiet
  BY <1>6 DEF SyncFail, history, TypeOK
<1>7. CASE UNCHANGED vars
  BY <1>7 DEF vars
<1> QED
  BY <1>1, <1>2, <1>3, <1>4, <1>5, <1>6, <1>7 DEF Next, Work, Move, Sync, BalanceStep

\* Nothing that is past is unknown to Horizon.
LEMMA LedgerCovers ==
  ASSUME TypeInv, NEW a
  PROVE  Covers(a, OnLedger(a))
<1> SUFFICES ASSUME NEW p \in Payment, NEW k \in WalletLegs(p), Past(p, k), LegAddress(p, k) = a
             PROVE  p \in OnLedger(a)
  BY DEF Covers
<1>1. jobs[p] # "absent"
  BY DEF Past, Stored, Recording, TypeInv, Ownership
<1> QED
  BY <1>1, WalletLegFacts

\* The balances of wallet a are stored, with the payment that now gets past them.
LEMMA StoringCovers ==
  ASSUME TypeInv, ReflectedInv, NEW h, NEW a \in Wallet, NEW snapshot,
         StoreBalances(h, a, snapshot), h \in fresh => Covers(a, snapshot),
         \A p \in Payment : \A k \in WalletLegs(p) :
           Past(p, k)' => Past(p, k) \/ (LegAddress(p, k) = a /\ p \in snapshot)
  PROVE  /\ \A b \in Wallet : b \in overtaken' \/ Covers(b, balances[b])'
         /\ \A b, s : b # a /\ Covers(b, s) =>
              \A p \in Payment : \A k \in WalletLegs(p) :
                Past(p, k)' /\ LegAddress(p, k) = b => p \in s
         /\ \A v : v \in fresh' => v \in fresh /\ v \notin Holders(a)
<1>1. /\ balances' = [balances EXCEPT ![a] = snapshot]
      /\ overtaken' = IF h \in fresh THEN overtaken \ {a} ELSE overtaken \cup {a}
      /\ fresh' = fresh \ Holders(a)
  BY DEF StoreBalances
<1>2. balances'[a] = snapshot /\ \A b \in Wallet \ {a} : balances'[b] = balances[b]
  BY <1>1 DEF TypeInv, TypeOK
<1>3. a \in overtaken' \/ Covers(a, balances[a])'
  BY <1>1, <1>2 DEF Covers
<1>4. ASSUME NEW b \in Wallet \ {a} PROVE b \in overtaken' \/ Covers(b, balances[b])'
  BY <1>1, <1>2 DEF ReflectedInv, Covers
<1>5. \A b, s : b # a /\ Covers(b, s) =>
        \A p \in Payment : \A k \in WalletLegs(p) :
          Past(p, k)' /\ LegAddress(p, k) = b => p \in s
  BY DEF Covers
<1> QED
  BY <1>1, <1>3, <1>4, <1>5

\* A handler stores the balances of its movement.
LEMMA SaveBalancesReflects ==
  ASSUME TypeInv, ReflectedInv, [Next]_vars, NEW w \in Worker, SaveBalances(w)
  PROVE  ReflectedInv'
<1> DEFINE r == run[w]
           a == LegAddress(run[w].job, run[w].leg)
<1>1. /\ r.pc = "saveBalances" /\ r.leg \in WalletLegs(r.job) /\ r.job \in Payment
      /\ StoreBalances(w, a, r.snapshot) /\ syncs' = syncs
      /\ \A v \in Worker \ {w} : run'[v] = run[v]
      /\ run'[w].pc # "saveBalances"
  BY MoveFacts DEF Move, SaveBalances, TypeInv, LocalsInv, LocalsOK, WalletLegs, Follows
<1>2. a \in Wallet /\ r.job \in r.snapshot /\ (w \in fresh => Covers(a, r.snapshot))
  BY <1>1, WalletLegFacts DEF ReflectedInv
<1>3. \A p \in Payment : \A k \in WalletLegs(p) :
        Past(p, k)' => Past(p, k) \/ (LegAddress(p, k) = a /\ p \in r.snapshot)
  <2> SUFFICES ASSUME NEW p \in Payment, NEW k \in WalletLegs(p), Past(p, k)', ~Past(p, k)
               PROVE  LegAddress(p, k) = a /\ p \in r.snapshot
    OBVIOUS
  <2>1. PICK v \in Worker : SaveBalances(v) /\ p = run[v].job /\ k = run[v].leg
    BY PastGrows
  <2>2. v = w
    BY <1>1, <2>1, MoveFacts DEF Move, SaveBalances, Follows
  <2> QED
    BY <1>2, <2>1, <2>2
<1>4. PICK b \in Wallet, snapshot \in {r.snapshot} : b = a /\ snapshot = r.snapshot
  BY <1>2
<1>5. /\ \A c \in Wallet : c \in overtaken' \/ Covers(c, balances[c])'
      /\ \A c, s : c # a /\ Covers(c, s) =>
           \A p \in Payment : \A k \in WalletLegs(p) :
             Past(p, k)' /\ LegAddress(p, k) = c => p \in s
      /\ \A v : v \in fresh' => v \in fresh /\ v \notin Holders(a)
  <2>1. StoreBalances(w, b, snapshot)
    BY <1>1, <1>4
  <2>2. w \in fresh => Covers(b, snapshot)
    BY <1>2, <1>4
  <2>3. \A p \in Payment : \A k \in WalletLegs(p) :
          Past(p, k)' => Past(p, k) \/ (LegAddress(p, k) = b /\ p \in snapshot)
    BY <1>3, <1>4
  <2> HIDE DEF a, r
  <2> QED
    BY <1>4, <2>1, <2>2, <2>3, StoringCovers
<1>6. ASSUME NEW v \in Worker, run'[v].pc = "saveBalances"
      PROVE  /\ run'[v].job \in run'[v].snapshot
             /\ v \in fresh' => Covers(LegAddress(run[v].job, run[v].leg), run[v].snapshot)'
  <2>1. v # w /\ run'[v] = run[v]
    BY <1>1, <1>6
  <2>2. v \in fresh' => v \in fresh /\ LegAddress(run[v].job, run[v].leg) # a
    BY <1>5, <1>6, <2>1 DEF Holders
  <2> QED
    BY <1>5, <1>6, <2>1, <2>2 DEF ReflectedInv, Covers
<1>7. ASSUME NEW q \in Request, q \in fresh', syncs'[q] # NoSync
      PROVE  Covers(syncs[q].address, syncs[q].snapshot)'
  <2>1. q \in fresh /\ syncs'[q] = syncs[q] /\ syncs[q].address # a
    BY <1>1, <1>5, <1>7 DEF Holders
  <2> QED
    BY <1>5, <1>7, <2>1 DEF ReflectedInv, Covers
<1> QED
  BY <1>5, <1>6, <1>7, NextFinish DEF ReflectedInv

\* A request stores the balances it fetched.
LEMMA SyncSaveReflects ==
  ASSUME TypeInv, ReflectedInv, [Next]_vars, NEW r \in Request, SyncSave(r)
  PROVE  ReflectedInv'
<1>1. PICK a \in Wallet, snapshot \in SUBSET Payment :
        syncs[r] = [address |-> a, snapshot |-> snapshot]
  BY DEF SyncSave, TypeInv, TypeOK
<1>2. /\ StoreBalances(r, a, snapshot) /\ syncs' = [syncs EXCEPT ![r] = NoSync]
      /\ run' = run /\ jobs' = jobs /\ syncs[r] # NoSync
  BY <1>1 DEF SyncSave
<1>3. r \in fresh => Covers(a, snapshot)
  BY <1>1, <1>2 DEF ReflectedInv
<1>4. \A p \in Payment : \A k \in WalletLegs(p) : Past(p, k)' <=> Past(p, k)
  BY <1>2 DEF Past
<1>5. /\ \A c \in Wallet : c \in overtaken' \/ Covers(c, balances[c])'
      /\ \A v : v \in fresh' => v \in fresh
  BY <1>2, <1>3, <1>4, StoringCovers
<1>6. \A c, s : Covers(c, s) => \A p \in Payment : \A k \in WalletLegs(p) :
        Past(p, k)' /\ LegAddress(p, k) = c => p \in s
  BY <1>4 DEF Covers
<1>7. \A v \in Worker : run'[v].pc = "saveBalances" =>
        /\ run'[v].job \in run'[v].snapshot
        /\ v \in fresh' => Covers(LegAddress(run[v].job, run[v].leg), run[v].snapshot)'
  BY <1>2, <1>5, <1>6 DEF ReflectedInv, Covers
<1>8. ASSUME NEW q \in Request, q \in fresh', syncs'[q] # NoSync
      PROVE  Covers(syncs[q].address, syncs[q].snapshot)'
  <2>1. q \in fresh /\ syncs'[q] = syncs[q]
    BY <1>2, <1>5, <1>8 DEF TypeInv, TypeOK
  <2> QED
    BY <1>6, <1>8, <2>1 DEF ReflectedInv, Covers
<1> QED
  BY <1>5, <1>7, <1>8, NextFinish DEF ReflectedInv

\* What Horizon says has everything that is past.
LEMMA FetchReflects ==
  ASSUME TypeInv, ReflectedInv, [Next]_vars,
         (\E w \in Worker : FetchBalances(w)) \/ (\E r \in Request : SyncFetch(r))
  PROVE  ReflectedInv'
<1>1. UNCHANGED <<jobs, balances, overtaken>>
  BY DEF FetchBalances, SyncFetch, store
<1>2. ASSUME NEW w \in Worker, FetchBalances(w)
      PROVE  /\ fresh' = fresh \cup {w} /\ syncs' = syncs
             /\ \A v \in Worker \ {w} : run'[v] = run[v]
             /\ run[w].job \in Payment /\ run[w].leg \in WalletLegs(run[w].job)
             /\ run[w].pc = "fetchBalances"
             /\ run'[w] = [run[w] EXCEPT !.pc = "saveBalances",
                             !.snapshot = OnLedger(LegAddress(run[w].job, run[w].leg))]
  <2>1. fresh' = fresh \cup {w} /\ syncs' = syncs
    BY <1>2 DEF FetchBalances, store
  <2>2. /\ \A v \in Worker \ {w} : run'[v] = run[v]
        /\ run[w].job \in Payment /\ run[w].leg \in WalletLegs(run[w].job)
        /\ run[w].pc = "fetchBalances"
    BY <1>2, MoveFacts DEF Move, FetchBalances, TypeInv, LocalsInv, LocalsOK, WalletLegs
  <2>3. run'[w] = [run[w] EXCEPT !.pc = "saveBalances",
                             !.snapshot = OnLedger(LegAddress(run[w].job, run[w].leg))]
    BY <1>2 DEF FetchBalances, TypeInv, TypeOK
  <2> QED
    BY <2>1, <2>2, <2>3
<1>3. ASSUME NEW r \in Request, SyncFetch(r)
      PROVE  /\ fresh' = fresh \cup {r} /\ run' = run
             /\ \A q \in Request \ {r} : syncs'[q] = syncs[q]
             /\ \E a \in Wallet : syncs'[r] = [address |-> a, snapshot |-> OnLedger(a)]
  BY <1>3 DEF SyncFetch, TypeInv, TypeOK
<1>4. ASSUME NEW p \in Payment, NEW k \in WalletLegs(p), Past(p, k)' PROVE Past(p, k)
  <2>1. \A v \in Worker : ~SaveBalances(v)
    <3>1. CASE \E w \in Worker : FetchBalances(w)
      <4>1. PICK w \in Worker : FetchBalances(w)
        BY <3>1
      <4>2. ASSUME NEW v \in Worker, SaveBalances(v) PROVE FALSE
        <5>1. run[w].pc = "fetchBalances" /\ run'[w].pc = "saveBalances"
              /\ run[v].pc = "saveBalances" /\ run'[v].pc # "saveBalances"
          BY <4>1, <4>2, <1>2, MoveFacts
             DEF Move, SaveBalances, Follows, TypeInv, TypeOK, Locals
        <5>2. run'[v] = run[v]
          BY <1>2, <4>1, <5>1
        <5> QED
          BY <5>1, <5>2
      <4> QED
        BY <4>2
    <3>2. CASE \E r \in Request : SyncFetch(r)
      <4>1. run' = run
        BY <1>3, <3>2
      <4> QED
        BY <4>1, MoveFacts DEF Move, SaveBalances, Follows
    <3> QED
      BY <3>1, <3>2
  <2> QED
    BY <1>4, <2>1, PastGrows
<1>5. \A c, s : Covers(c, s) => \A p \in Payment : \A k \in WalletLegs(p) :
        Past(p, k)' /\ LegAddress(p, k) = c => p \in s
  BY <1>4 DEF Covers
<1>6. \A c \in Wallet : c \in overtaken' \/ Covers(c, balances[c])'
  BY <1>1, <1>5 DEF ReflectedInv, Covers
<1>7. ASSUME NEW v \in Worker, run'[v].pc = "saveBalances"
      PROVE  /\ run'[v].job \in run'[v].snapshot
             /\ v \in fresh' => Covers(LegAddress(run[v].job, run[v].leg), run[v].snapshot)'
  <2>1. CASE run'[v] = run[v] /\ (v \in fresh' => v \in fresh)
    BY <1>5, <1>7, <2>1 DEF ReflectedInv, Covers
  <2>2. CASE FetchBalances(v)
    <3>1. /\ run'[v].job = run[v].job /\ run'[v].leg = run[v].leg
          /\ run'[v].snapshot = OnLedger(LegAddress(run[v].job, run[v].leg))
      <4>1. run[v] \in Locals
        BY DEF TypeInv, TypeOK
      <4>2. run'[v] = [run[v] EXCEPT !.pc = "saveBalances",
                         !.snapshot = OnLedger(LegAddress(run[v].job, run[v].leg))]
        BY <1>2, <2>2
      <4> QED
        BY <4>1, <4>2 DEF Locals
    <3>2. jobs[run[v].job] # "absent"
      BY <1>2, <2>2 DEF TypeInv, Ownership
    <3>3. run[v].job \in OnLedger(LegAddress(run[v].job, run[v].leg))
      BY <1>2, <2>2, <3>2, WalletLegFacts
    <3>4. Covers(LegAddress(run[v].job, run[v].leg),
                 OnLedger(LegAddress(run[v].job, run[v].leg)))
      BY LedgerCovers
    <3> QED
      BY <1>5, <3>1, <3>3, <3>4 DEF Covers
  <2>3. \/ run'[v] = run[v] /\ (v \in fresh' => v \in fresh)
        \/ FetchBalances(v)
    BY <1>2, <1>3, ConstantsAssumption
  <2> QED
    BY <2>1, <2>2, <2>3
<1>8. ASSUME NEW q \in Request, q \in fresh', syncs'[q] # NoSync
      PROVE  Covers(syncs[q].address, syncs[q].snapshot)'
  <2>1. CASE q \in fresh /\ syncs'[q] = syncs[q]
    BY <1>5, <1>8, <2>1 DEF ReflectedInv, Covers
  <2>2. ASSUME NEW a \in Wallet, syncs'[q] = [address |-> a, snapshot |-> OnLedger(a)]
        PROVE  Covers(syncs[q].address, syncs[q].snapshot)'
    <3>1. Covers(a, OnLedger(a))
      BY LedgerCovers
    <3>2. syncs'[q].address = a /\ syncs'[q].snapshot = OnLedger(a)
      BY <2>2
    <3> QED
      BY <1>5, <3>1, <3>2 DEF Covers
  <2>3. \/ q \in fresh /\ syncs'[q] = syncs[q]
        \/ \E a \in Wallet : syncs'[q] = [address |-> a, snapshot |-> OnLedger(a)]
    <3>1. ASSUME NEW w \in Worker, FetchBalances(w)
          PROVE  q \in fresh /\ syncs'[q] = syncs[q]
      BY <1>2, <1>8, <3>1, ConstantsAssumption
    <3>2. ASSUME NEW r \in Request, SyncFetch(r)
          PROVE  \/ q \in fresh /\ syncs'[q] = syncs[q]
                 \/ \E a \in Wallet : syncs'[q] = [address |-> a, snapshot |-> OnLedger(a)]
      BY <1>3, <1>8, <3>2
    <3> QED
      BY <3>1, <3>2
  <2> QED
    BY <2>1, <2>2, <2>3
<1> QED
  BY <1>6, <1>7, <1>8, NextFinish DEF ReflectedInv

LEMMA NextReflectedInv == TypeInv /\ ReflectedInv /\ [Next]_vars => ReflectedInv'
<1> SUFFICES ASSUME TypeInv, ReflectedInv, [Next]_vars PROVE ReflectedInv'
  OBVIOUS
<1>1. ASSUME ~BalanceStep PROVE ReflectedInv'
  <2>1. /\ UNCHANGED <<balances, overtaken>>
        /\ \A w \in Worker : run'[w].pc = "saveBalances" =>
             run'[w] = run[w] /\ (w \in fresh' => w \in fresh)
        /\ \A r \in Request : r \in fresh' /\ syncs'[r] # NoSync =>
             syncs'[r] = syncs[r] /\ r \in fresh
    BY <1>1, QuietBalances
  <2>2. \A c, s : Covers(c, s) => \A p \in Payment : \A k \in WalletLegs(p) :
          Past(p, k)' /\ LegAddress(p, k) = c => p \in s
    BY <1>1, PastGrows DEF Covers, BalanceStep
  <2>3. \A w \in Worker : run'[w].pc = "saveBalances" =>
          /\ run'[w].job \in run'[w].snapshot
          /\ w \in fresh' => Covers(LegAddress(run[w].job, run[w].leg), run[w].snapshot)'
    BY <2>1, <2>2 DEF ReflectedInv, Covers
  <2>4. \A r \in Request : r \in fresh' /\ syncs'[r] # NoSync =>
          Covers(syncs[r].address, syncs[r].snapshot)'
    BY <2>1, <2>2 DEF ReflectedInv, Covers
  <2>5. \A a \in Wallet : a \in overtaken' \/ Covers(a, balances[a])'
    BY <2>1, <2>2 DEF ReflectedInv, Covers
  <2> QED
    BY <2>3, <2>4, <2>5, NextFinish DEF ReflectedInv
<1> QED
  BY <1>1, SaveBalancesReflects, SyncSaveReflects, FetchReflects DEF BalanceStep

\* The stored balances of a wallet reflect each completed payment that moved them,
\* unless they were last stored from what Horizon said before a sync that another
\* handler or an HTTP request stored meanwhile (syncWalletBalances).
THEOREM CompletedJobsAreReflected == Spec => []CompletedIsReflected
<1>1. ReflectedInv => CompletedIsReflected
  <2> SUFFICES ASSUME ReflectedInv, NEW p \in Payment, jobs[p] = "completed",
                      NEW k \in WalletLegs(p)
               PROVE  p \in balances[LegAddress(p, k)] \/ LegAddress(p, k) \in overtaken
    BY DEF CompletedIsReflected, WalletLegs
  <2>1. LegAddress(p, k) \in Wallet /\ Past(p, k)
    BY WalletLegFacts DEF Past
  <2> QED
    BY <2>1 DEF ReflectedInv, Covers
<1> QED
  BY <1>1, InitReflectedInv, NextReflectedInv, TypeInvHolds, PTL DEF Spec

=============================================================================
