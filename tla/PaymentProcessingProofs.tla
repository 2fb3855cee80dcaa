---------------------- MODULE PaymentProcessingProofs ----------------------
(***************************************************************************)
(* Theorems about PaymentProcessing, for every set of payments, orders and *)
(* workers and every bound.  The invariants are proved in layers: the      *)
(* types and the ownership of jobs first, then one layer per property,     *)
(* each resting on the first.                                              *)
(***************************************************************************)
EXTENDS PaymentProcessing, TLAPS

USE DEF SenderWallet, ReceiverWallet, PlatformDebit, PlatformCredit, NoMore

-----------------------------------------------------------------------------
(* The operators the handlers are built from. *)

\* The sixth decimal is half a unit off at most: toFixed(6) in
\* applyIncomingPayment.
LEMMA ToFixed6Bound ==
  ASSUME NEW x \in Nat
  PROVE  /\ ToFixed6(x) \in Nat
         /\ ToFixed6(x) <= x + 5
         /\ x <= ToFixed6(x) + 5
BY DEF ToFixed6

\* NextLeg is the next of the movements that process still owes.
LEMMA NextLegFacts ==
  ASSUME NEW p \in Payment, NEW k \in 0..4
  PROVE  /\ NextLeg(p, k) \in 1..5
         /\ NextLeg(p, k) > k
         /\ NextLeg(p, k) # NoMore => NextLeg(p, k) \in Due(p)
         /\ \A l \in Due(p) : l > k => NextLeg(p, k) <= l
<1> DEFINE later == {l \in Due(p) : l > k}
<1>1. later \subseteq 1..4
  BY DEF Due
<1>2. CASE later = {}
  BY <1>1, <1>2 DEF NextLeg, Due
<1>3. CASE later # {}
  <2>1. \E l \in later : \A m \in later : l <= m
    <3>1. CASE 1 \in later
      BY <1>1, <3>1
    <3>2. CASE 1 \notin later /\ 2 \in later
      BY <1>1, <3>2
    <3>3. CASE 1 \notin later /\ 2 \notin later /\ 3 \in later
      BY <1>1, <3>3
    <3>4. CASE 1 \notin later /\ 2 \notin later /\ 3 \notin later
      BY <1>1, <1>3, <3>4
    <3> QED
      BY <3>1, <3>2, <3>3, <3>4
  <2>2. NextLeg(p, k) = CHOOSE l \in later : \A m \in later : l <= m
    BY <1>3 DEF NextLeg
  <2>3. NextLeg(p, k) \in later /\ \A m \in later : NextLeg(p, k) <= m
    BY <2>1, <2>2
  <2> QED
    BY <1>1, <2>3
<1> QED
  BY <1>2, <1>3

\* The unique index of a movement that is due has the right columns.
LEMMA KeyType ==
  ASSUME NEW p \in Payment, NEW k \in 1..4
  PROVE  Key(p, k) \in MovementKey
BY DataAssumption DEF Key, MovementKey, LegAddress, LegType, DataType

\* A row to write has the right columns.
LEMMA RowType ==
  ASSUME NEW p \in Payment, NEW k \in 1..4, NEW o \in Order \cup {None}
  PROVE  /\ Row(p, k, o) \in [order : Order \cup {None}, amount : Nat]
         /\ Row(p, k, o).order = LegOrder(p, k, o)
         /\ Row(p, k, o).amount = ToFixed6(Data[p].amount)
<1>1. Data[p].amount \in Nat
  BY DataAssumption DEF DataType
<1>2. ToFixed6(Data[p].amount) \in Nat
  BY <1>1, ToFixed6Bound
<1> QED
  BY <1>2 DEF Row, LegOrder

\* Where a handler goes on once a movement is behind it.
LEMMA AfterLegFacts ==
  ASSUME NEW r, r.job \in Payment, NEW o \in Order \cup {None}, NEW k \in 0..4
  PROVE  LET a == AfterLeg(r, o, k) IN
         /\ a \in Locals
         /\ a.job = r.job
         /\ a.order = o
         /\ a.pc \in {"findMovement", "finish"}
         /\ a.pc = "findMovement" => a.leg \in Due(r.job)
         /\ a.pc = "finish" => a.leg = NoMore
         /\ \A l \in Due(r.job) : l > k => a.leg <= l
<1> DEFINE l == NextLeg(r.job, k)
           pc == IF l = NoMore THEN "finish" ELSE "findMovement"
<1>1. Idle \in Locals
  BY DEF Idle, Locals, Pc, OrderStatus
<1>2. l \in 0..5 /\ pc \in Pc
  BY NextLegFacts DEF Pc
<1>3. AfterLeg(r, o, k) =
        [Idle EXCEPT !.pc = pc, !.job = r.job, !.order = o, !.leg = l]
  BY DEF AfterLeg
<1> HIDE DEF l, pc
<1>4. /\ AfterLeg(r, o, k) \in Locals
      /\ AfterLeg(r, o, k).pc = pc
      /\ AfterLeg(r, o, k).job = r.job
      /\ AfterLeg(r, o, k).order = o
      /\ AfterLeg(r, o, k).leg = l
  BY <1>1, <1>2, <1>3 DEF Locals
<1> QED
  BY <1>4, NextLegFacts DEF l, pc

-----------------------------------------------------------------------------
(* Types, and who works on which job. *)

\* What a handler's locals hold at each of its awaits.
LocalsOK(r) ==
  /\ r.pc = "idle" <=> r.job = None
  /\ r.pc \in {"saveSelect", "saveUpdate", "dispatch"} =>
       r.order \in Order /\ r.order \in Data[r.job].found
  /\ r.pc \in {"findMovement", "saveMovement", "fetchBalances", "saveBalances"}
       => r.leg \in Due(r.job)
  /\ r.pc \in {"fetchBalances", "saveBalances"}
       => r.leg \in {SenderWallet, ReceiverWallet}

LocalsInv == \A w \in Worker : LocalsOK(run[w])

\* A job in a handler's hands is active, and in no other handler's.
Ownership ==
  /\ \A w \in Worker : run[w].pc # "idle" => jobs[run[w].job] = "active"
  /\ \A v, w \in Worker :
       run[v].pc # "idle" /\ run[v].job = run[w].job => v = w

TypeInv == TypeOK /\ LocalsInv /\ Ownership

\* A worker without a job is well typed.
LEMMA IdleType == Idle \in Locals /\ LocalsOK(Idle)
BY DEF Idle, Locals, LocalsOK, Pc, OrderStatus

\* The types hold before the first payment is seen.
LEMMA InitTypeInv == Init => TypeInv
<1> SUFFICES ASSUME Init PROVE TypeInv
  OBVIOUS
<1>1. TypeOK
  BY IdleType, ConstantsAssumption
  DEF Init, TypeOK, JobState, OrderStatus
<1>2. LocalsInv
  BY IdleType DEF Init, LocalsInv
<1>3. Ownership
  BY DEF Init, Ownership, Idle
<1> QED
  BY <1>1, <1>2, <1>3 DEF TypeInv

\* A handler goes on with its job.
LEMMA HandlerStep ==
  ASSUME TypeInv, NEW w \in Worker, NEW n \in Locals,
         run[w].pc # "idle",
         n.pc # "idle", n.job = run[w].job, LocalsOK(n),
         run' = [run EXCEPT ![w] = n], jobs' = jobs
  PROVE  run' \in [Worker -> Locals] /\ LocalsInv' /\ Ownership'
<1>1. run \in [Worker -> Locals]
  BY DEF TypeInv, TypeOK
<1>2. run' \in [Worker -> Locals]
  BY <1>1
<1>3. run'[w] = n /\ \A v \in Worker : v # w => run'[v] = run[v]
  BY <1>1
<1>4. LocalsInv'
  <2> SUFFICES ASSUME NEW v \in Worker PROVE LocalsOK(run'[v])
    BY DEF LocalsInv, LocalsOK
  <2> QED
    BY <1>3 DEF TypeInv, LocalsInv
<1>5. Ownership'
  BY <1>3 DEF TypeInv, Ownership
<1> QED
  BY <1>2, <1>4, <1>5

\* A handler's job ends.
LEMMA HandlerEnds ==
  ASSUME TypeInv, NEW w \in Worker, NEW outcome \in {"completed", "failed"},
         run[w].pc # "idle", EndJob(w, outcome)
  PROVE  /\ run' \in [Worker -> Locals] /\ jobs' \in [Payment -> JobState]
         /\ LocalsInv' /\ Ownership'
         /\ run[w].job \in Payment
         /\ jobs'[run[w].job] = outcome
         /\ \A p \in Payment : p # run[w].job => jobs'[p] = jobs[p]
         /\ run'[w] = Idle
         /\ \A v \in Worker : v # w => run'[v] = run[v]
<1>1. /\ run \in [Worker -> Locals] /\ jobs \in [Payment -> JobState]
      /\ run' = [run EXCEPT ![w] = Idle]
      /\ jobs' = [jobs EXCEPT ![run[w].job] = outcome]
  BY DEF TypeInv, TypeOK, EndJob
<1>2. run[w].job \in Payment
  BY <1>1 DEF TypeInv, LocalsInv, LocalsOK, Locals
<1>3. /\ run' \in [Worker -> Locals] /\ jobs' \in [Payment -> JobState]
      /\ jobs'[run[w].job] = outcome
      /\ \A p \in Payment : p # run[w].job => jobs'[p] = jobs[p]
      /\ run'[w] = Idle
      /\ \A v \in Worker : v # w => run'[v] = run[v]
  BY <1>1, <1>2, IdleType DEF JobState
<1>4. LocalsInv'
  <2> SUFFICES ASSUME NEW v \in Worker PROVE LocalsOK(run'[v])
    BY DEF LocalsInv, LocalsOK
  <2> QED
    BY <1>3, IdleType DEF TypeInv, LocalsInv
<1>5. Ownership'
  <2>1. Idle.pc = "idle" /\ Idle.job = None
    BY DEF Idle
  <2>2. \A v \in Worker : v # w /\ run[v].pc # "idle" =>
          run[v].job \in Payment /\ run[v].job # run[w].job
    BY <1>1 DEF TypeInv, LocalsInv, LocalsOK, Locals, Ownership
  <2>3. \A v \in Worker : run'[v].pc # "idle" => jobs'[run'[v].job] = "active"
    BY <1>3, <2>1, <2>2 DEF TypeInv, Ownership
  <2>4. \A u, v \in Worker :
          run'[u].pc # "idle" /\ run'[u].job = run'[v].job => u = v
    BY <1>2, <1>3, <2>1, <2>2, ConstantsAssumption DEF TypeInv, Ownership
  <2> QED
    BY <2>3, <2>4 DEF Ownership
<1> QED
  BY <1>2, <1>3, <1>4, <1>5

\* The awaits a handler can go on to from each of its awaits.
Follows ==
  {<<"start", "match">>, <<"start", "findMovement">>, <<"start", "finish">>,
   <<"match", "saveSelect">>, <<"match", "findMovement">>, <<"match", "finish">>,
   <<"saveSelect", "saveUpdate">>, <<"saveUpdate", "dispatch">>,
   <<"saveUpdate", "findMovement">>, <<"saveUpdate", "finish">>,
   <<"dispatch", "findMovement">>, <<"dispatch", "finish">>,
   <<"findMovement", "saveMovement">>, <<"saveMovement", "fetchBalances">>,
   <<"saveMovement", "findMovement">>, <<"saveMovement", "finish">>,
   <<"fetchBalances", "saveBalances">>,
   <<"saveBalances", "findMovement">>, <<"saveBalances", "finish">>}

\* A step of process that neither starts nor ends a job.
Move(w) ==
  \/ Inspect(w) \/ Unmatched(w) \/ Mismatch(w) \/ ApplyPayment(w)
  \/ SaveSelect(w) \/ SaveUpdate(w) \/ Dispatch(w)
  \/ FindMovement(w) \/ SaveMovement(w) \/ FetchBalances(w) \/ SaveBalances(w)

\* All but the balances and the requests that sync them, which no handler reads.
core == <<jobs, stalls, run, orders, outbox, movement, crashes, failures, tallies>>

LEMMA CoreStutter ==
  UNCHANGED vars \/ (\E r \in Request : Sync(r)) => UNCHANGED core
BY DEF vars, core, tallies, history, bounds, Sync, SyncFetch, SyncSave, SyncFail

\* The types of what a sync of balances leaves behind.
LEMMA StoreBalancesType ==
  ASSUME TypeOK, NEW h, NEW a \in Wallet, NEW snapshot \in SUBSET Payment,
         StoreBalances(h, a, snapshot)
  PROVE  /\ balances' \in [Wallet -> SUBSET Payment]
         /\ fresh' \subseteq Worker \cup Request /\ overtaken' \subseteq Wallet
BY DEF TypeOK, StoreBalances

\* A request works on a wallet, or not at all.
LEMMA SyncFacts ==
  ASSUME TypeOK, NEW r \in Request, Sync(r)
  PROVE  TypeOK'
<1>1. UNCHANGED core
  BY CoreStutter
<1>2. \A a : OnLedger(a) \in SUBSET Payment
  BY DEF OnLedger
<1>3. CASE SyncFetch(r)
  <2>1. PICK a \in Wallet :
          syncs' = [syncs EXCEPT ![r] = [address |-> a, snapshot |-> OnLedger(a)]]
    BY <1>3 DEF SyncFetch
  <2>2. [address |-> a, snapshot |-> OnLedger(a)]
          \in [address : Wallet, snapshot : SUBSET Payment]
    BY <1>2
  <2>3. syncs' \in [Request -> [address : Wallet, snapshot : SUBSET Payment] \cup {NoSync}]
    BY <2>1, <2>2 DEF TypeOK
  <2>4. fresh' \subseteq Worker \cup Request
    BY <1>3 DEF SyncFetch, TypeOK
  <2> QED
    BY <1>1, <1>3, <2>3, <2>4 DEF SyncFetch, TypeOK, core, tallies
<1>4. CASE SyncSave(r) \/ SyncFail(r)
  <2>1. syncs[r] # NoSync /\ syncs' = [syncs EXCEPT ![r] = NoSync]
    BY <1>4 DEF SyncSave, SyncFail
  <2>2. syncs[r].address \in Wallet /\ syncs[r].snapshot \in SUBSET Payment
    BY <2>1 DEF TypeOK
  <2>3. syncs' \in [Request -> [address : Wallet, snapshot : SUBSET Payment] \cup {NoSync}]
    BY <2>1 DEF TypeOK
  <2>4. /\ balances' \in [Wallet -> SUBSET Payment]
        /\ fresh' \subseteq Worker \cup Request /\ overtaken' \subseteq Wallet
    <3>1. CASE SyncSave(r)
      BY <2>2, <3>1, StoreBalancesType DEF SyncSave
    <3>2. CASE SyncFail(r)
      BY <3>2 DEF SyncFail, history, TypeOK
    <3> QED
      BY <1>4, <3>1, <3>2
  <2> QED
    BY <1>1, <2>3, <2>4 DEF TypeOK, core, tallies
<1> QED
  BY <1>3, <1>4 DEF Sync

\* What each step inside process does to its locals.
LEMMA MoveFacts ==
  ASSUME TypeInv, NEW w \in Worker, Move(w)
  PROVE  /\ TypeInv'
         /\ jobs' = jobs /\ stalls' = stalls
         /\ run[w].pc # "idle" /\ run[w].job \in Payment
         /\ run'[w].job = run[w].job
         /\ <<run[w].pc, run'[w].pc>> \in Follows
         /\ \A v \in Worker : v # w => run'[v] = run[v]
<1> USE DEF TypeInv
<1> DEFINE r == run[w]
           d == Data[r.job]
<1>1. r \in Locals /\ LocalsOK(r) /\ r.pc # "idle"
  BY DEF Move, TypeOK, LocalsInv, Inspect, Unmatched, Mismatch, ApplyPayment,
              SaveSelect, SaveUpdate, Dispatch, FindMovement, SaveMovement,
              FetchBalances, SaveBalances, StoreBalances
<1>2. r.job \in Payment /\ d \in DataType /\ d.applies \subseteq d.found
  BY <1>1, DataAssumption DEF Locals, LocalsOK
<1>3. \A o \in Order \cup {None}, k \in 0..4 :
        /\ AfterLeg(r, o, k) \in Locals
        /\ AfterLeg(r, o, k).job = r.job
        /\ AfterLeg(r, o, k).pc \in {"findMovement", "finish"}
        /\ LocalsOK(AfterLeg(r, o, k))
  BY <1>2, AfterLegFacts, ConstantsAssumption DEF LocalsOK
<1> DEFINE Goes(n) == /\ n \in Locals /\ n.pc # "idle" /\ n.job = r.job
                      /\ LocalsOK(n) /\ run' = [run EXCEPT ![w] = n]
                      /\ <<r.pc, n.pc>> \in Follows
<1>0. ASSUME NEW n, Goes(n), jobs' = jobs
      PROVE  /\ run' \in [Worker -> Locals] /\ LocalsInv' /\ Ownership'
             /\ run'[w].job = r.job
             /\ <<r.pc, run'[w].pc>> \in Follows
             /\ \A v \in Worker : v # w => run'[v] = run[v]
  <2>1. /\ run' \in [Worker -> Locals] /\ LocalsInv' /\ Ownership'
    BY <1>0, <1>1, HandlerStep
  <2>2. run'[w] = n /\ \A v \in Worker : v # w => run'[v] = run[v]
    BY <1>0 DEF TypeOK
  <2> QED
    BY <1>0, <2>1, <2>2
<1>4. CASE Inspect(w)
  <2>1. PICK n : Goes(n)
    <3>1. CASE d.to = Platform
      <4> DEFINE n == [r EXCEPT !.pc = "match"]
      <4>1. run' = [run EXCEPT ![w] = n]
        BY <1>4, <3>1 DEF Inspect
      <4>2. n \in Locals /\ n.pc = "match" /\ n.job = r.job
        BY <1>1 DEF Locals, Pc
      <4> QED
        BY <1>1, <4>1, <4>2, <1>4 DEF LocalsOK, Follows, Inspect
    <3>2. CASE d.to # Platform
      <4>1. run' = [run EXCEPT ![w] = AfterLeg(r, None, 0)]
        BY <1>4, <3>2 DEF Inspect
      <4>2. Goes(AfterLeg(r, None, 0))
        BY <1>3, <4>1, <1>4 DEF Inspect, Follows
      <4> QED
        BY <4>2
    <3> QED
      BY <3>1, <3>2
  <2>2. TypeOK'
    BY <1>4, <1>0, <2>1 DEF Inspect, TypeOK, store, bounds, history, tallies
  <2> QED
    BY <1>1, <1>2, <1>4, <1>0, <2>1, <2>2 DEF Inspect, history, tallies
<1>5. CASE Unmatched(w)
  <2>1. PICK n : Goes(n)
    <3>1. run' = [run EXCEPT ![w] = AfterLeg(r, None, 0)]
      BY <1>5 DEF Unmatched
    <3>2. Goes(AfterLeg(r, None, 0))
      BY <1>3, <3>1, <1>5 DEF Unmatched, Follows
    <3> QED
      BY <3>2
  <2>2. TypeOK'
    BY <1>5, <1>0, <2>1 DEF Unmatched, TypeOK, store, bounds, history, tallies
  <2> QED
    BY <1>1, <1>2, <1>5, <1>0, <2>1, <2>2 DEF Unmatched, history, tallies
<1>6. CASE Mismatch(w)
  <2>1. PICK n : Goes(n)
    <3>1. PICK o \in d.found : run' = [run EXCEPT ![w] = AfterLeg(r, o, 0)]
      BY <1>6 DEF Mismatch
    <3>2. o \in Order
      BY <1>2 DEF DataType
    <3>3. Goes(AfterLeg(r, o, 0))
      BY <1>3, <3>1, <3>2, <1>6 DEF Mismatch, Follows
    <3> QED
      BY <3>3
  <2>2. TypeOK'
    BY <1>6, <1>0, <2>1 DEF Mismatch, TypeOK, store, bounds, history, tallies
  <2> QED
    BY <1>1, <1>2, <1>6, <1>0, <2>1, <2>2 DEF Mismatch, history, tallies
<1>7. CASE ApplyPayment(w)
  <2>1. PICK n : Goes(n)
    <3>1. PICK o \in d.applies :
            run' = [run EXCEPT ![w] =
              [r EXCEPT !.pc = "saveSelect", !.order = o,
                        !.paidAmount = ToFixed6(Total(o, r.job)),
                        !.sums = holds[o] \cup {r.job},
                        !.status = StatusFor(o, Total(o, r.job)),
                        !.wasPaid = (orders[o].status = "paid")]]
      BY <1>7 DEF ApplyPayment
    <3> DEFINE n == [r EXCEPT !.pc = "saveSelect", !.order = o,
                              !.paidAmount = ToFixed6(Total(o, r.job)),
                              !.sums = holds[o] \cup {r.job},
                              !.status = StatusFor(o, Total(o, r.job)),
                              !.wasPaid = (orders[o].status = "paid")]
    <3>2. o \in Order /\ o \in d.found
      BY <1>2, <3>1 DEF DataType
    <3>3. Total(o, r.job) \in Nat
      BY <1>2, <3>2 DEF Total, TypeOK, DataType
    <3>4. ToFixed6(Total(o, r.job)) \in Nat
      BY <3>3, ToFixed6Bound
    <3>5. StatusFor(o, Total(o, r.job)) \in OrderStatus
      BY DEF StatusFor, OrderStatus
    <3>7. holds[o] \cup {r.job} \in SUBSET Payment
      BY <1>2, <3>2 DEF TypeOK
    <3>6. n \in Locals /\ n.pc = "saveSelect" /\ n.job = r.job /\ n.order = o
      BY <1>1, <3>2, <3>4, <3>5, <3>7 DEF Locals, Pc
    <3> QED
      BY <1>1, <3>1, <3>2, <3>6, <1>7 DEF LocalsOK, Follows, ApplyPayment
  <2>2. TypeOK'
    BY <1>7, <1>0, <2>1 DEF ApplyPayment, TypeOK, store, bounds, history, tallies
  <2> QED
    BY <1>1, <1>2, <1>7, <1>0, <2>1, <2>2 DEF ApplyPayment, history, tallies
<1>8. CASE SaveSelect(w)
  <2>1. PICK n : Goes(n)
    <3> DEFINE n == [r EXCEPT !.pc = "saveUpdate",
                              !.dirty = Differences(r, orders[r.order])]
    <3>1. run' = [run EXCEPT ![w] = n]
      BY <1>8 DEF SaveSelect
    <3>2. n \in Locals /\ n.pc = "saveUpdate" /\ n.job = r.job
                      /\ n.order = r.order
      BY <1>1 DEF Locals, Pc, Differences
    <3> QED
      BY <1>1, <1>8, <3>1, <3>2 DEF LocalsOK, Follows, SaveSelect
  <2>2. TypeOK'
    BY <1>8, <1>0, <2>1 DEF SaveSelect, TypeOK, store, bounds, history, tallies
  <2> QED
    BY <1>1, <1>2, <1>8, <1>0, <2>1, <2>2 DEF SaveSelect, history, tallies
<1>9. CASE SaveUpdate(w)
  <2>1. r.pc = "saveUpdate" /\ r.order \in Order /\ r.order \in d.found
    BY <1>1, <1>9 DEF SaveUpdate, LocalsOK
  <2>2. PICK n : Goes(n)
    <3>1. CASE Announces(r)
      <4> DEFINE n == [Idle EXCEPT !.pc = "dispatch", !.job = r.job,
                                   !.order = r.order]
      <4>1. run' = [run EXCEPT ![w] = n]
        BY <1>9, <3>1 DEF SaveUpdate
      <4>2. n \in Locals /\ n.pc = "dispatch" /\ n.job = r.job
                        /\ n.order = r.order
        BY <1>2, <2>1, IdleType DEF Locals, Pc
      <4> QED
        BY <1>1, <2>1, <4>1, <4>2, <1>9 DEF LocalsOK, Follows, SaveUpdate
    <3>2. CASE ~Announces(r)
      <4>1. run' = [run EXCEPT ![w] = AfterLeg(r, r.order, 0)]
        BY <1>9, <3>2 DEF SaveUpdate
      <4>2. Goes(AfterLeg(r, r.order, 0))
        BY <1>3, <2>1, <4>1, <1>9 DEF SaveUpdate, Follows
      <4> QED
        BY <4>2
    <3> QED
      BY <3>1, <3>2
  <2>3. orders' \in [Order -> [paidAmount : Nat, status : OrderStatus]]
    BY <1>1, <1>9, <2>1 DEF SaveUpdate, TypeOK, Locals
  <2>4. credits' \in [Payment -> Nat]
    BY <1>2, <1>9 DEF SaveUpdate, TypeOK
  <2>5. receipts' \in [Order -> [count : Nat, sum : Nat]]
    <3> DEFINE new == [count |-> receipts[r.order].count + 1,
                       sum |-> receipts[r.order].sum + d.amount]
    <3>1. receipts' = [receipts EXCEPT ![r.order] = new]
      BY <1>9 DEF SaveUpdate
    <3>2. receipts \in [Order -> [count : Nat, sum : Nat]] /\ d.amount \in Nat
      BY <1>2 DEF TypeOK, DataType
    <3>3. receipts[r.order].count \in Nat /\ receipts[r.order].sum \in Nat
      BY <2>1, <3>2
    <3>4. new \in [count : Nat, sum : Nat]
      BY <3>2, <3>3
    <3> HIDE DEF new
    <3> QED
      BY <3>1, <3>2, <3>4
  <2>6. TypeOK'
    <3>1. UNCHANGED <<jobs, stalls, outbox, movement, balances, syncs, crashes,
                      failures, overtaken>>
      BY <1>9 DEF SaveUpdate, bounds
    <3>2. holds' \in [Order -> SUBSET Payment]
      BY <1>1, <1>9, <2>1 DEF SaveUpdate, TypeOK, Locals
    <3>3. clobbered' \subseteq Order /\ fresh' \subseteq Worker \cup Request
      BY <1>9, <2>1 DEF SaveUpdate, TypeOK
    <3> QED
      BY <1>0, <2>2, <2>3, <2>4, <2>5, <3>1, <3>2, <3>3 DEF TypeOK
  <2> QED
    BY <1>1, <1>2, <1>9, <1>0, <2>2, <2>6 DEF SaveUpdate, history, tallies
<1>10. CASE Dispatch(w)
  <2>1. r.order \in Order
    BY <1>1, <1>10 DEF Dispatch, LocalsOK
  <2>2. PICK n : Goes(n)
    <3>1. run' = [run EXCEPT ![w] = AfterLeg(r, r.order, 0)]
      BY <1>10 DEF Dispatch
    <3>2. Goes(AfterLeg(r, r.order, 0))
      BY <1>3, <2>1, <3>1, <1>10 DEF Dispatch, Follows
    <3> QED
      BY <3>2
  <2>3. outbox' \in Seq([order : Order, payment : Payment])
    BY <1>2, <1>10, <2>1 DEF Dispatch, TypeOK
  <2>4. TypeOK'
    BY <1>10, <1>0, <2>2, <2>3 DEF Dispatch, TypeOK, bounds, history, tallies
  <2> QED
    BY <1>1, <1>2, <1>10, <1>0, <2>2, <2>4 DEF Dispatch, history, tallies
<1>11. CASE FindMovement(w)
  <2>1. PICK n : Goes(n)
    <3> DEFINE n == [r EXCEPT !.pc = "saveMovement",
                              !.exists = (movement[Key(r.job, r.leg)] # None)]
    <3>1. run' = [run EXCEPT ![w] = n]
      BY <1>11 DEF FindMovement
    <3>2. n \in Locals /\ n.pc = "saveMovement" /\ n.job = r.job
                      /\ n.leg = r.leg
      BY <1>1 DEF Locals, Pc
    <3> QED
      BY <1>1, <1>11, <3>1, <3>2 DEF LocalsOK, Follows, FindMovement
  <2>2. TypeOK'
    BY <1>11, <1>0, <2>1 DEF FindMovement, TypeOK, store, bounds, history, tallies
  <2> QED
    BY <1>1, <1>2, <1>11, <1>0, <2>1, <2>2 DEF FindMovement, history, tallies
<1>12. CASE SaveMovement(w)
  <2>1. r.leg \in Due(r.job) /\ r.leg \in 1..4 /\ r.order \in Order \cup {None}
    BY <1>1, <1>12 DEF SaveMovement, LocalsOK, Due, Locals
  <2>2. PICK n : Goes(n)
    <3>1. CASE r.leg \in {SenderWallet, ReceiverWallet}
      <4> DEFINE n == [r EXCEPT !.pc = "fetchBalances"]
      <4>1. run' = [run EXCEPT ![w] = n]
        BY <1>12, <3>1 DEF SaveMovement
      <4>2. n \in Locals /\ n.pc = "fetchBalances" /\ n.job = r.job
                        /\ n.leg = r.leg
        BY <1>1 DEF Locals, Pc
      <4> QED
        BY <1>1, <2>1, <3>1, <4>1, <4>2, <1>12 DEF LocalsOK, Follows, SaveMovement
    <3>2. CASE r.leg \notin {SenderWallet, ReceiverWallet}
      <4>1. run' = [run EXCEPT ![w] = AfterLeg(r, r.order, r.leg)]
        BY <1>12, <3>2 DEF SaveMovement
      <4>2. Goes(AfterLeg(r, r.order, r.leg))
        BY <1>3, <2>1, <4>1, <1>12 DEF SaveMovement, Follows
      <4> QED
        BY <4>2
    <3> QED
      BY <3>1, <3>2
  <2>3. movement' \in [MovementKey ->
          [order : Order \cup {None}, amount : Nat] \cup {None}]
    BY <1>2, <1>12, <2>1, KeyType, RowType DEF SaveMovement, TypeOK
  <2>4. TypeOK'
    BY <1>12, <1>0, <2>2, <2>3 DEF SaveMovement, TypeOK, bounds, history, tallies
  <2> QED
    BY <1>1, <1>2, <1>12, <1>0, <2>2, <2>4 DEF SaveMovement, history, tallies
<1>13. CASE FetchBalances(w)
  <2>1. PICK n : Goes(n)
    <3> DEFINE n == [r EXCEPT !.pc = "saveBalances",
                              !.snapshot = OnLedger(LegAddress(r.job, r.leg))]
    <3>1. run' = [run EXCEPT ![w] = n]
      BY <1>13 DEF FetchBalances
    <3>2. n \in Locals /\ n.pc = "saveBalances" /\ n.job = r.job
                      /\ n.leg = r.leg
      BY <1>1 DEF Locals, Pc, OnLedger
    <3> QED
      BY <1>1, <1>13, <3>1, <3>2 DEF LocalsOK, Follows, FetchBalances
  <2>2. TypeOK'
    BY <1>13, <1>0, <2>1 DEF FetchBalances, TypeOK, store, bounds, history, tallies
  <2> QED
    BY <1>1, <1>2, <1>13, <1>0, <2>1, <2>2 DEF FetchBalances, history, tallies
<1>14. CASE SaveBalances(w)
  <2>1. r.leg \in 1..4 /\ r.order \in Order \cup {None} /\ r.snapshot \subseteq Payment
    BY <1>1, <1>14 DEF SaveBalances, StoreBalances, LocalsOK, Due, Locals
  <2>2. PICK n : Goes(n)
    <3>1. run' = [run EXCEPT ![w] = AfterLeg(r, r.order, r.leg)]
      BY <1>14 DEF SaveBalances, StoreBalances
    <3>2. Goes(AfterLeg(r, r.order, r.leg))
      BY <1>3, <2>1, <3>1, <1>14 DEF SaveBalances, StoreBalances, Follows
    <3> QED
      BY <3>2
  <2>3. LegAddress(r.job, r.leg) \in Wallet
    BY <1>1, <1>14 DEF SaveBalances, LocalsOK, Due, LegAddress
  <2>5. /\ balances' \in [Wallet -> SUBSET Payment]
        /\ fresh' \subseteq Worker \cup Request /\ overtaken' \subseteq Wallet
    BY <1>14, <2>1, <2>3, StoreBalancesType DEF SaveBalances
  <2>4. TypeOK'
    BY <1>14, <1>0, <2>2, <2>5 DEF SaveBalances, TypeOK, bounds, tallies
  <2> QED
    BY <1>1, <1>2, <1>14, <1>0, <2>2, <2>4 DEF SaveBalances, StoreBalances, history, tallies
<1> QED
  BY <1>4, <1>5, <1>6, <1>7, <1>8, <1>9, <1>10, <1>11, <1>12, <1>13, <1>14 DEF Move

\* Types, locals and ownership survive every step.
LEMMA NextTypeInv == TypeInv /\ [Next]_vars => TypeInv'
<1> SUFFICES ASSUME TypeInv, [Next]_vars PROVE TypeInv'
  OBVIOUS
<1> USE DEF TypeInv
<1>1. ASSUME NEW p \in Payment, Deliver(p) PROVE TypeInv'
  <2>1. TypeOK'
    BY <1>1 DEF Deliver, TypeOK, JobState, store, bounds, history, tallies
  <2>2. LocalsInv'
    BY <1>1 DEF Deliver, LocalsInv, LocalsOK
  <2>3. Ownership'
    BY <1>1 DEF Deliver, Ownership, TypeOK, LocalsInv, LocalsOK, Locals
  <2> QED
    BY <2>1, <2>2, <2>3
<1>2. ASSUME NEW p \in Payment, RecoverStalled(p) PROVE TypeInv'
  <2>1. PICK state \in {"waiting", "failed"} :
          jobs' = [jobs EXCEPT ![p] = state]
    BY <1>2 DEF RecoverStalled
  <2>2. stalls' \in [Payment -> 0..MaxStalled]
    <3>1. CASE stalls[p] < MaxStalled
      <4>1. stalls' = [stalls EXCEPT ![p] = stalls[p] + 1]
        BY <1>2, <3>1 DEF RecoverStalled
      <4>2. stalls[p] + 1 \in 0..MaxStalled
        BY <3>1, ConstantsAssumption DEF TypeOK
      <4> QED
        BY <4>1, <4>2 DEF TypeOK
    <3>2. CASE ~(stalls[p] < MaxStalled)
      BY <1>2, <3>2 DEF RecoverStalled, TypeOK
    <3> QED
      BY <3>1, <3>2
  <2>3. TypeOK'
    BY <1>2, <2>1, <2>2
    DEF RecoverStalled, TypeOK, JobState, store, bounds, history, tallies
  <2>4. run' = run
    BY <1>2 DEF RecoverStalled
  <2>5. LocalsInv'
    BY <2>4 DEF LocalsInv, LocalsOK
  <2>6. Ownership'
    <3>1. \A w \in Worker : run[w].job # p
      BY <1>2 DEF RecoverStalled
    <3>2. \A w \in Worker : jobs'[run[w].job] = jobs[run[w].job]
      BY <2>1, <3>1 DEF TypeOK
    <3> QED
      BY <2>4, <3>2 DEF Ownership
  <2> QED
    BY <2>3, <2>5, <2>6
<1>3. ASSUME Crash PROVE TypeInv'
  <2>4. run' \in [Worker -> Locals] /\ crashes' \in 0..MaxCrashes
    BY <1>3, IdleType, ConstantsAssumption DEF Crash, TypeOK
  <2>5. /\ syncs' \in [Request -> [address : Wallet, snapshot : SUBSET Payment] \cup {NoSync}]
        /\ fresh' \subseteq Worker \cup Request
    BY <1>3 DEF Crash
  <2>1. TypeOK'
    BY <1>3, <2>4, <2>5 DEF Crash, TypeOK, tallies
  <2>2. LocalsInv'
    BY <1>3, IdleType DEF Crash, LocalsInv, LocalsOK
  <2>3. Ownership'
    BY <1>3 DEF Crash, Ownership, Idle
  <2> QED
    BY <2>1, <2>2, <2>3
<1>4. ASSUME NEW w \in Worker, Take(w) PROVE TypeInv'
  <2>1. PICK p \in Payment :
          /\ jobs[p] = "waiting"
          /\ jobs' = [jobs EXCEPT ![p] = "active"]
          /\ run' = [run EXCEPT ![w] = [Idle EXCEPT !.pc = "start", !.job = p]]
    BY <1>4 DEF Take
  <2> DEFINE n == [Idle EXCEPT !.pc = "start", !.job = p]
  <2>2. n \in Locals /\ n.pc = "start" /\ n.job = p
    BY IdleType DEF Locals, Pc
  <2>3. LocalsOK(n)
    BY <2>2, ConstantsAssumption DEF LocalsOK
  <2> HIDE DEF n
  <2>4. /\ run' = [run EXCEPT ![w] = n]
        /\ run'[w] = n /\ \A v \in Worker : v # w => run'[v] = run[v]
    BY <2>1 DEF n, TypeOK
  <2>5. TypeOK'
    BY <1>4, <2>1, <2>2, <2>4
    DEF Take, TypeOK, JobState, store, bounds, history, tallies
  <2>6. LocalsInv'
    <3> SUFFICES ASSUME NEW v \in Worker PROVE LocalsOK(run'[v])
      BY DEF LocalsInv, LocalsOK
    <3> QED
      BY <2>3, <2>4 DEF LocalsInv
  <2>7. Ownership'
    <3>1. \A v \in Worker : run[v].pc # "idle" => run[v].job # p
      BY <2>1 DEF Ownership
    <3>2. \A v \in Worker : run[v].pc = "idle" => run[v].job = None
      BY DEF LocalsInv, LocalsOK
    <3>3. \A v \in Worker : run'[v].pc # "idle" => jobs'[run'[v].job] = "active"
      BY <2>1, <2>2, <2>4, <3>1 DEF Ownership, TypeOK, LocalsInv, LocalsOK, Locals
    <3>4. \A u, v \in Worker :
            run'[u].pc # "idle" /\ run'[u].job = run'[v].job => u = v
      BY <2>2, <2>4, <3>1, <3>2, ConstantsAssumption DEF Ownership
    <3> QED
      BY <3>3, <3>4 DEF Ownership
  <2> QED
    BY <2>5, <2>6, <2>7
<1>5. ASSUME NEW w \in Worker, Skip(w) \/ DuplicateMovement(w) \/ Complete(w)
      PROVE TypeInv'
  <2>1. PICK outcome \in {"completed", "failed"} :
          EndJob(w, outcome) /\ run[w].pc # "idle"
    BY <1>5 DEF Skip, DuplicateMovement, Complete
  <2>2. TypeOK'
    BY <1>5, <2>1, HandlerEnds
    DEF Skip, DuplicateMovement, Complete, TypeOK, store, bounds, history, tallies
  <2> QED
    BY <2>1, <2>2, HandlerEnds
<1>6. ASSUME NEW w \in Worker, Fail(w) PROVE TypeInv'
  <2>1. EndJob(w, "failed") /\ run[w].pc # "idle"
    BY <1>6 DEF Fail
  <2>3. failures' \in 0..MaxFailures
    BY <1>6, ConstantsAssumption DEF Fail, TypeOK
  <2>2. TypeOK'
    BY <1>6, <2>1, <2>3, HandlerEnds DEF Fail, TypeOK, store, history, tallies
  <2> QED
    BY <2>1, <2>2, HandlerEnds
<1>7. ASSUME NEW w \in Worker, Move(w) PROVE TypeInv'
  BY <1>7, MoveFacts
<1>8. CASE UNCHANGED vars
  BY <1>8 DEF vars, TypeOK, LocalsInv, LocalsOK, Ownership
<1>9. ASSUME NEW r \in Request, Sync(r) PROVE TypeInv'
  <2>1. UNCHANGED core
    BY <1>9, CoreStutter
  <2> QED
    BY <1>9, <2>1, SyncFacts DEF core, tallies, LocalsInv, LocalsOK, Ownership
<1> QED
  BY <1>1, <1>2, <1>3, <1>4, <1>5, <1>6, <1>7, <1>8, <1>9 DEF Next, Work, Move

\* The types and the ownership of jobs hold in every state.
LEMMA TypeInvHolds == Spec => []TypeInv
<1> QED
  BY InitTypeInv, NextTypeInv, PTL DEF Spec

\* Every variable stays in its range, for any number of workers and crashes.
THEOREM TypeCorrect == Spec => []TypeOK
<1>1. TypeInv => TypeOK
  BY DEF TypeInv
<1> QED
  BY <1>1, TypeInvHolds, PTL

-----------------------------------------------------------------------------
(* How often a payment is added to an order. *)

\* While its job is still to add it, a payment was added at most as often as
\* its job was found stalled.
BeforeSaving == {"start", "match", "saveSelect", "saveUpdate"}

CreditsInv ==
  /\ CreditsBounded
  /\ \A p \in Payment :
       jobs[p] \in {"absent", "waiting"} => credits[p] <= stalls[p]
  /\ \A w \in Worker : run[w].pc \in BeforeSaving =>
       credits[run[w].job] <= stalls[run[w].job]

\* Nothing is credited at first.
LEMMA InitCreditsInv == Init => CreditsInv
BY DEF Init, CreditsInv, CreditsBounded, Idle, BeforeSaving

\* Every step preserves the bound on credits.
LEMMA NextCreditsInv == TypeInv /\ CreditsInv /\ [Next]_vars => CreditsInv'
<1> SUFFICES ASSUME TypeInv, CreditsInv, [Next]_vars PROVE CreditsInv'
  OBVIOUS
<1> USE DEF TypeInv, CreditsInv, CreditsBounded, BeforeSaving, history, tallies
<1>1. \A w \in Worker : run[w].pc # "idle" => run[w].job \in Payment
  BY DEF TypeOK, LocalsInv, LocalsOK, Locals
<1>2. \A p \in Payment : credits[p] \in Nat /\ stalls[p] \in Nat
  BY ConstantsAssumption DEF TypeOK
<1>3. ASSUME NEW p \in Payment, Deliver(p) PROVE CreditsInv'
  BY <1>1, <1>2, <1>3 DEF Deliver, TypeOK
<1>4. ASSUME NEW p \in Payment, RecoverStalled(p) PROVE CreditsInv'
  <2>1. \A w \in Worker : run[w].job # p
    BY <1>4 DEF RecoverStalled
  <2>2. run' = run /\ credits' = credits
    BY <1>4 DEF RecoverStalled
  <2>3. \A q \in Payment : q # p => stalls'[q] = stalls[q] /\ jobs'[q] = jobs[q]
    BY <1>4 DEF RecoverStalled, TypeOK
  <2>4. \/ stalls'[p] = stalls[p] + 1 /\ jobs'[p] = "waiting"
        \/ stalls'[p] = stalls[p] /\ jobs'[p] = "failed"
    BY <1>4 DEF RecoverStalled, TypeOK
  <2> QED
    BY <1>1, <1>2, <2>1, <2>2, <2>3, <2>4
<1>5. ASSUME Crash PROVE CreditsInv'
  BY <1>5 DEF Crash, Idle
<1>6. ASSUME NEW w \in Worker, Take(w) PROVE CreditsInv'
  <2>1. PICK p \in Payment :
          /\ jobs[p] = "waiting"
          /\ jobs' = [jobs EXCEPT ![p] = "active"]
          /\ run' = [run EXCEPT ![w] = [Idle EXCEPT !.pc = "start", !.job = p]]
    BY <1>6 DEF Take
  <2>2. run'[w].job = p /\ \A v \in Worker : v # w => run'[v] = run[v]
    BY <2>1 DEF TypeOK, Idle
  <2>3. UNCHANGED <<stalls, credits>>
    BY <1>6 DEF Take
  <2> QED
    BY <1>1, <1>2, <2>1, <2>2, <2>3 DEF TypeOK
<1>7. ASSUME NEW w \in Worker,
             Skip(w) \/ DuplicateMovement(w) \/ Complete(w) \/ Fail(w)
      PROVE CreditsInv'
  <2>1. PICK outcome \in {"completed", "failed"} :
          EndJob(w, outcome) /\ run[w].pc # "idle"
    BY <1>7 DEF Skip, DuplicateMovement, Complete, Fail
  <2>2. UNCHANGED <<stalls, credits>>
    BY <1>7 DEF Skip, DuplicateMovement, Complete, Fail
  <2>3. Idle.pc = "idle"
    BY DEF Idle
  <2> QED
    BY <1>1, <1>2, <2>1, <2>2, <2>3, HandlerEnds
<1>8. ASSUME NEW w \in Worker, Move(w) PROVE CreditsInv'
  <2> DEFINE p == run[w].job
  <2>1. /\ p \in Payment /\ run'[w].job = p /\ jobs' = jobs /\ stalls' = stalls
        /\ <<run[w].pc, run'[w].pc>> \in Follows
        /\ \A v \in Worker : v # w => run'[v] = run[v]
    BY <1>8, MoveFacts
  <2>2. CASE SaveUpdate(w)
    <3>1. jobs[p] = "active" /\ credits[p] <= stalls[p] /\ run[w].pc = "saveUpdate"
      BY <2>2 DEF SaveUpdate, Ownership
    <3>2. credits' = [credits EXCEPT ![p] = credits[p] + 1]
      BY <2>2 DEF SaveUpdate
    <3>3. \A v \in Worker : v # w /\ run[v].pc # "idle" => run[v].job # p
      BY DEF Ownership
    <3>4. run'[w].pc \notin BeforeSaving
      BY <2>1, <3>1 DEF Follows
    <3>5. /\ credits'[p] = credits[p] + 1
          /\ \A q \in Payment : q # p => credits'[q] = credits[q]
      BY <2>1, <3>2 DEF TypeOK
    <3>6. CreditsBounded'
      BY <1>2, <2>1, <3>1, <3>5
    <3>7. \A q \in Payment :
            jobs'[q] \in {"absent", "waiting"} => credits'[q] <= stalls'[q]
      BY <2>1, <3>1, <3>5
    <3>8. \A v \in Worker : run'[v].pc \in BeforeSaving =>
            credits'[run'[v].job] <= stalls'[run'[v].job]
      <4> SUFFICES ASSUME NEW v \in Worker, run'[v].pc \in BeforeSaving
                   PROVE  credits'[run'[v].job] <= stalls'[run'[v].job]
        OBVIOUS
      <4>1. v # w /\ run'[v] = run[v]
        BY <2>1, <3>4
      <4> QED
        BY <1>1, <2>1, <3>3, <3>5, <4>1
    <3> QED
      BY <3>6, <3>7, <3>8
  <2>3. CASE ~SaveUpdate(w)
    <3>1. credits' = credits
      BY <1>8, <2>3
      DEF Move, Inspect, Unmatched, Mismatch, ApplyPayment, SaveSelect,
          Dispatch, FindMovement, SaveMovement, FetchBalances, SaveBalances, StoreBalances
    <3>2. run[w].pc # "saveUpdate"
      BY <1>8, <2>3
      DEF Move, Inspect, Unmatched, Mismatch, ApplyPayment, SaveSelect,
          Dispatch, FindMovement, SaveMovement, FetchBalances, SaveBalances, StoreBalances
    <3>3. run'[w].pc \in BeforeSaving => run[w].pc \in BeforeSaving
      BY <2>1, <3>2 DEF Follows
    <3> QED
      BY <2>1, <3>1, <3>3
  <2> QED
    BY <2>2, <2>3
<1>9. CASE UNCHANGED core
  BY <1>9 DEF core, tallies
<1> QED
  BY <1>3, <1>4, <1>5, <1>6, <1>7, <1>8, <1>9, CoreStutter DEF Next, Work, Move

\* A payment is added to an order at most once more than its job was found
\* stalled, however many handlers run and however often the process crashes.
THEOREM CreditsAreBounded == Spec => []CreditsBounded
<1>1. CreditsInv => CreditsBounded
  BY DEF CreditsInv
<1> QED
  BY <1>1, InitCreditsInv, NextCreditsInv, TypeInvHolds, PTL DEF Spec

-----------------------------------------------------------------------------
(* A paid order has received its amount. *)

\* What a handler is about to write does not exceed what the payments added
\* so far, its own included, come to; and it announces a backed order only.
EntityBacked(r) ==
  /\ r.pc \in {"saveSelect", "saveUpdate"} =>
       LET in == receipts[r.order] IN
       /\ r.paidAmount <= in.sum + Data[r.job].amount + 5 * (in.count + 1)
       /\ r.status = "paid" =>
            AssetAmount[r.order] <= in.sum + Data[r.job].amount + 5 * in.count
  /\ r.pc = "dispatch" => Backed(r.order)

AmountsInv ==
  /\ \A o \in Order :
       orders[o].paidAmount <= receipts[o].sum + 5 * receipts[o].count
  /\ PaidIsBacked
  /\ \A w \in Worker : EntityBacked(run[w])

\* No order is paid at first.
LEMMA InitAmountsInv == Init => AmountsInv
BY DEF Init, AmountsInv, PaidIsBacked, Announced, EntityBacked, Idle

\* Steps that write neither orders nor the outbox, and bring no handler into
\* the part of process that saves an order, keep the amounts as they are.
LEMMA AmountsFrame ==
  ASSUME AmountsInv, UNCHANGED <<orders, outbox, receipts>>,
         \A w \in Worker :
           \/ run'[w].pc \notin {"saveSelect", "saveUpdate", "dispatch"}
           \/ /\ run[w].pc \in {"saveSelect", "saveUpdate"}
              /\ run'[w].pc \in {"saveSelect", "saveUpdate"}
              /\ run'[w].order = run[w].order /\ run'[w].job = run[w].job
              /\ run'[w].paidAmount = run[w].paidAmount
              /\ run'[w].status = run[w].status
           \/ run'[w] = run[w]
  PROVE  AmountsInv'
<1>1. PaidIsBacked'
  BY DEF AmountsInv, PaidIsBacked, Announced, Backed
<1>2. \A w \in Worker : EntityBacked(run[w])'
  BY DEF AmountsInv, EntityBacked, Backed
<1> QED
  BY <1>1, <1>2 DEF AmountsInv

\* Outside the four steps around an order's save, process touches no order.
LEMMA OtherMoves ==
  ASSUME TypeInv, NEW w \in Worker, Move(w),
         ~(ApplyPayment(w) \/ SaveSelect(w) \/ SaveUpdate(w))
  PROVE  /\ UNCHANGED <<orders, receipts>>
         /\ run'[w].pc \notin {"saveSelect", "saveUpdate", "dispatch"}
<1>1. /\ run[w].job \in Payment /\ run \in [Worker -> Locals]
      /\ <<run[w].pc, run'[w].pc>> \in Follows
  BY MoveFacts DEF TypeInv, TypeOK
<1>2. UNCHANGED <<orders, receipts>>
  BY DEF Move, Inspect, Unmatched, Mismatch, Dispatch, FindMovement,
         SaveMovement, FetchBalances, SaveBalances, StoreBalances, store, history, tallies
<1>3. CASE Unmatched(w) \/ Mismatch(w)
  <2>1. PICK o \in Order \cup {None} :
          run' = [run EXCEPT ![w] = AfterLeg(run[w], o, 0)]
    BY <1>1, <1>3, DataAssumption DEF Unmatched, Mismatch, DataType
  <2>2. run'[w] = AfterLeg(run[w], o, 0)
    BY <1>1, <2>1
  <2> QED
    BY <1>1, <1>2, <2>2, AfterLegFacts
<1>4. CASE ~(Unmatched(w) \/ Mismatch(w))
  BY <1>1, <1>2, <1>4
  DEF Move, Inspect, Dispatch, FindMovement, SaveMovement, FetchBalances,
      SaveBalances, StoreBalances, Follows
<1> QED
  BY <1>3, <1>4

\* Every step keeps paid orders backed.
LEMMA NextAmountsInv == TypeInv /\ AmountsInv /\ [Next]_vars => AmountsInv'
<1> SUFFICES ASSUME TypeInv, AmountsInv, [Next]_vars PROVE AmountsInv'
  OBVIOUS
<1> USE DEF TypeInv
<1>1. ASSUME NEW p \in Payment, Deliver(p) \/ RecoverStalled(p) PROVE AmountsInv'
  BY <1>1, AmountsFrame DEF Deliver, RecoverStalled, store, history, tallies
<1>2. ASSUME Crash PROVE AmountsInv'
  BY <1>2, AmountsFrame DEF Crash, Idle, store, history, tallies
<1>3. ASSUME NEW w \in Worker, Take(w) PROVE AmountsInv'
  <2>1. PICK p \in Payment : run' = [run EXCEPT ![w] = [Idle EXCEPT !.pc = "start", !.job = p]]
    BY <1>3 DEF Take
  <2>2. run'[w].pc = "start" /\ \A v \in Worker : v # w => run'[v] = run[v]
    BY <2>1 DEF TypeOK, Idle
  <2>3. UNCHANGED <<orders, outbox, receipts>>
    BY <1>3 DEF Take, store, history, tallies
  <2> QED
    BY <2>2, <2>3, AmountsFrame
<1>4. ASSUME NEW w \in Worker,
             Skip(w) \/ DuplicateMovement(w) \/ Complete(w) \/ Fail(w)
      PROVE AmountsInv'
  <2>1. PICK outcome \in {"completed", "failed"} :
          EndJob(w, outcome) /\ run[w].pc # "idle"
    BY <1>4 DEF Skip, DuplicateMovement, Complete, Fail
  <2>2. UNCHANGED <<orders, outbox, receipts>>
    BY <1>4 DEF Skip, DuplicateMovement, Complete, Fail, store, history, tallies
  <2>3. run'[w].pc = "idle" /\ \A v \in Worker : v # w => run'[v] = run[v]
    BY <2>1, HandlerEnds DEF Idle
  <2> QED
    BY <2>2, <2>3, AmountsFrame
<1>5. ASSUME NEW w \in Worker, Move(w) PROVE AmountsInv'
  <2> DEFINE r == run[w]
             p == r.job
  <2>1. /\ p \in Payment /\ run'[w].job = p /\ TypeInv'
        /\ <<r.pc, run'[w].pc>> \in Follows
        /\ \A v \in Worker : v # w => run'[v] = run[v]
    BY <1>5, MoveFacts
  <2>2. r \in Locals /\ LocalsOK(r) /\ run'[w] \in Locals
    BY <2>1 DEF TypeOK, LocalsInv
  <2>3. Data[p].amount \in Nat /\ Data[p].applies \subseteq Order
    BY <2>1, DataAssumption DEF DataType
  <2>4. \A o \in Order :
          /\ orders[o].paidAmount \in Nat /\ AssetAmount[o] \in Nat
          /\ receipts[o].sum \in Nat /\ receipts[o].count \in Nat
    BY ConstantsAssumption DEF TypeOK
  <2>5. CASE ApplyPayment(w)
    <3>1. PICK o \in Data[p].applies :
            run' = [run EXCEPT ![w] =
              [r EXCEPT !.pc = "saveSelect", !.order = o,
                        !.paidAmount = ToFixed6(Total(o, p)),
                        !.sums = holds[o] \cup {p},
                        !.status = StatusFor(o, Total(o, p)),
                        !.wasPaid = (orders[o].status = "paid")]]
      BY <2>5 DEF ApplyPayment
    <3>2. o \in Order
      BY <2>3, <3>1
    <3> DEFINE n == run'[w]
    <3>3. /\ n.pc = "saveSelect" /\ n.order = o
          /\ n.paidAmount = ToFixed6(Total(o, p))
          /\ n.status = StatusFor(o, Total(o, p))
      BY <2>2, <3>1 DEF Locals, TypeOK
    <3>4. Total(o, p) \in Nat /\ Total(o, p) = orders[o].paidAmount + Data[p].amount
      BY <2>3, <2>4, <3>2 DEF Total
    <3>5. orders[o].paidAmount <= receipts[o].sum + 5 * receipts[o].count
      BY <3>2 DEF AmountsInv
    <3>6. ToFixed6(Total(o, p)) <= receipts[o].sum + Data[p].amount + 5 * (receipts[o].count + 1)
      BY <2>3, <2>4, <3>2, <3>4, <3>5, ToFixed6Bound
    <3>7. StatusFor(o, Total(o, p)) = "paid" =>
            AssetAmount[o] <= receipts[o].sum + Data[p].amount + 5 * receipts[o].count
      BY <2>3, <2>4, <3>2, <3>4, <3>5 DEF StatusFor
    <3>8. UNCHANGED <<orders, outbox, receipts>>
      BY <2>5 DEF ApplyPayment, store, history, tallies
    <3>9. EntityBacked(run[w])'
      BY <2>1, <3>3, <3>6, <3>7, <3>8 DEF EntityBacked
    <3>10. \A v \in Worker : v # w => EntityBacked(run[v])'
      BY <2>1, <3>8 DEF AmountsInv, EntityBacked, Backed
    <3>11. PaidIsBacked'
      BY <3>8 DEF AmountsInv, PaidIsBacked, Announced, Backed
    <3> QED
      BY <3>8, <3>9, <3>10, <3>11 DEF AmountsInv
  <2>6. CASE SaveSelect(w)
    <3>1. run' = [run EXCEPT ![w] =
            [r EXCEPT !.pc = "saveUpdate", !.dirty = Differences(r, orders[r.order])]]
      BY <2>6 DEF SaveSelect
    <3>2. /\ run'[w].pc = "saveUpdate" /\ run'[w].order = r.order
          /\ run'[w].paidAmount = r.paidAmount /\ run'[w].status = r.status
      BY <2>2, <3>1 DEF Locals, TypeOK
    <3>3. UNCHANGED <<orders, outbox, receipts>> /\ r.pc = "saveSelect"
      BY <2>6 DEF SaveSelect, store, history, tallies
    <3> QED
      BY <2>1, <3>2, <3>3, AmountsFrame
  <2>7. CASE SaveUpdate(w)
    <3> DEFINE o == r.order
    <3>1. r.pc = "saveUpdate" /\ o \in Order
      BY <2>2, <2>7 DEF SaveUpdate, LocalsOK
    <3>2. /\ receipts'[o].count = receipts[o].count + 1
          /\ receipts'[o].sum = receipts[o].sum + Data[p].amount
          /\ \A q \in Order : q # o => receipts'[q] = receipts[q]
      BY <2>7, <3>1 DEF SaveUpdate, TypeOK
    <3>3. /\ orders'[o].paidAmount \in {r.paidAmount, orders[o].paidAmount}
          /\ orders'[o].status \in {r.status, orders[o].status}
          /\ \A q \in Order : q # o => orders'[q] = orders[q]
      BY <2>7, <3>1 DEF SaveUpdate, TypeOK
    <3>4. outbox' = outbox
      BY <2>7 DEF SaveUpdate
    <3>5. r.paidAmount \in Nat /\ EntityBacked(r)
      BY <2>2 DEF Locals, AmountsInv
    <3>6. \A q \in Order : Backed(q) => Backed(q)'
      BY <2>3, <2>4, <3>2 DEF Backed
    <3>7. r.status = "paid" => \A q \in Order : q = o => Backed(q)'
      <4>1. r.status = "paid" =>
              AssetAmount[o] <= receipts[o].sum + Data[p].amount + 5 * receipts[o].count
        BY <3>1, <3>5 DEF EntityBacked
      <4>2. receipts'[o].count - 1 = receipts[o].count /\ receipts'[o].count > 0
        BY <2>4, <3>1, <3>2
      <4> QED
        BY <2>3, <2>4, <3>1, <3>2, <4>1, <4>2 DEF Backed
    <3>8. \A q \in Order :
            orders'[q].paidAmount <= receipts'[q].sum + 5 * receipts'[q].count
      BY <2>3, <2>4, <3>1, <3>2, <3>3, <3>5 DEF EntityBacked, AmountsInv
    <3>9. PaidIsBacked'
      <4> SUFFICES ASSUME NEW q \in Order, orders'[q].status = "paid" \/ Announced(q)'
                   PROVE  Backed(q)'
        BY DEF PaidIsBacked
      <4>1. CASE Announced(q)'
        BY <3>4, <3>6, <4>1 DEF AmountsInv, PaidIsBacked, Announced
      <4>2. CASE orders[q].status = "paid"
        BY <3>6, <4>2 DEF AmountsInv, PaidIsBacked
      <4>3. CASE orders'[q].status = "paid" /\ orders[q].status # "paid"
        BY <3>3, <3>7, <4>3, <3>1
      <4> QED
        BY <4>1, <4>2, <4>3
    <3>10. run'[w].pc \notin {"saveSelect", "saveUpdate"}
      BY <2>1, <3>1 DEF Follows
    <3>11. run'[w].pc = "dispatch" => run'[w].order = o /\ r.status = "paid"
      <4>1. CASE Announces(r)
        BY <2>7, <4>1 DEF SaveUpdate, Announces, TypeOK, Idle
      <4>2. CASE ~Announces(r)
        <5>1. run'[w] = AfterLeg(r, o, 0)
          BY <2>7, <4>2 DEF SaveUpdate, TypeOK
        <5> QED
          BY <2>1, <3>1, <5>1, AfterLegFacts
      <4> QED
        BY <4>1, <4>2
    <3>12. EntityBacked(run[w])'
      <4>1. run'[w].pc = "dispatch" => Backed(run[w].order)'
        BY <3>1, <3>7, <3>11
      <4> QED
        BY <3>10, <4>1 DEF EntityBacked
    <3>13. ASSUME NEW v \in Worker, v # w PROVE EntityBacked(run[v])'
      <4>1. run'[v] = run[v] /\ LocalsOK(run[v]) /\ EntityBacked(run[v])
        BY <2>1, <3>13 DEF LocalsInv, AmountsInv
      <4>2. run[v] \in Locals /\ (run[v].pc # "idle" => Data[run[v].job].amount \in Nat)
        BY <4>1, DataAssumption DEF TypeOK, LocalsOK, Locals, DataType
      <4> QED
        BY <2>3, <2>4, <3>2, <3>6, <4>1, <4>2 DEF EntityBacked, LocalsOK, Locals
    <3> QED
      BY <3>8, <3>9, <3>12, <3>13 DEF AmountsInv
  <2>8. CASE Dispatch(w)
    <3>1. r.pc = "dispatch" /\ r.order \in Order /\ Backed(r.order)
      BY <2>2, <2>8 DEF Dispatch, LocalsOK, AmountsInv, EntityBacked
    <3>2. UNCHANGED <<orders, receipts>>
      BY <2>8 DEF Dispatch, history, tallies
    <3>3. outbox' = Append(outbox, [order |-> r.order, payment |-> p])
      BY <2>8 DEF Dispatch
    <3>4. \A o \in Order : Announced(o)' => Announced(o) \/ o = r.order
      <4> DEFINE entry == [order |-> r.order, payment |-> p]
                 Entry == [order : Order, payment : Payment]
      <4>1. outbox \in Seq(Entry) /\ entry \in Entry /\ entry.order = r.order
        BY <2>1, <3>1 DEF TypeOK
      <4>2. outbox' = Append(outbox, entry)
        BY <3>3
      <4> HIDE DEF entry, Entry
      <4>3. \A i \in DOMAIN outbox' :
              (i \in DOMAIN outbox /\ outbox'[i] = outbox[i]) \/ outbox'[i] = entry
        BY <4>1, <4>2
      <4> QED
        BY <4>1, <4>3 DEF Announced
    <3>5. PaidIsBacked'
      BY <3>1, <3>2, <3>4 DEF AmountsInv, PaidIsBacked, Backed
    <3>6. run'[w].pc \notin {"saveSelect", "saveUpdate", "dispatch"}
      BY <2>1, <3>1 DEF Follows
    <3>7. \A v \in Worker : EntityBacked(run[v])'
      BY <2>1, <3>2, <3>6 DEF AmountsInv, EntityBacked, Backed
    <3> QED
      BY <3>2, <3>5, <3>7 DEF AmountsInv
  <2>9. CASE ~(ApplyPayment(w) \/ SaveSelect(w) \/ SaveUpdate(w) \/ Dispatch(w))
    <3>1. UNCHANGED <<orders, outbox, receipts>>
      BY <1>5, <2>9, OtherMoves
      DEF Move, Inspect, Unmatched, Mismatch, FindMovement, SaveMovement,
          FetchBalances, SaveBalances, StoreBalances, store
    <3>2. run'[w].pc \notin {"saveSelect", "saveUpdate", "dispatch"}
      BY <1>5, <2>9, OtherMoves
    <3> QED
      BY <2>1, <3>1, <3>2, AmountsFrame
  <2> QED
    BY <2>5, <2>6, <2>7, <2>8, <2>9
<1>6. CASE UNCHANGED core
  BY <1>6, AmountsFrame DEF core, tallies
<1> QED
  BY <1>1, <1>2, <1>3, <1>4, <1>5, <1>6, CoreStutter DEF Next, Work, Move

\* An order is paid, and announced, only when the payments added to it reach
\* its amount, whatever the handlers overwrite and however often jobs rerun.
THEOREM PaidOrdersAreBacked == Spec => []PaidIsBacked
<1>1. AmountsInv => PaidIsBacked
  BY DEF AmountsInv
<1> QED
  BY <1>1, InitAmountsInv, NextAmountsInv, TypeInvHolds, PTL DEF Spec

-----------------------------------------------------------------------------
(* A paid order is announced. *)

InDispatch(o) == \E w \in Worker : run[w].pc = "dispatch" /\ run[w].order = o

\* The announcement of order o is made or being made, or there is an excuse.
Covered(o) == crashes # 0 \/ ~NoFailure(o) \/ Announced(o) \/ InDispatch(o)

\* wasAlreadyPaid, once true in a handler's locals, silences that handler:
\* somebody else must have taken care of the announcement.
AnnounceInv ==
  /\ \A o \in Order : orders[o].status = "paid" => Covered(o)
  /\ \A w \in Worker :
       run[w].pc \in {"saveSelect", "saveUpdate"} /\ run[w].wasPaid
         => Covered(run[w].order)

\* A failed job is never touched again.
LEMMA FailedStays ==
  ASSUME TypeInv, [Next]_vars, NEW p \in Payment, jobs[p] = "failed"
  PROVE  jobs'[p] = "failed"
<1> USE DEF TypeInv
<1>1. ASSUME NEW q \in Payment, Deliver(q) \/ RecoverStalled(q) PROVE jobs'[p] = "failed"
  BY <1>1 DEF Deliver, RecoverStalled, TypeOK
<1>2. ASSUME NEW w \in Worker, Take(w) PROVE jobs'[p] = "failed"
  BY <1>2 DEF Take, TypeOK
<1>3. ASSUME NEW w \in Worker,
             Skip(w) \/ DuplicateMovement(w) \/ Complete(w) \/ Fail(w)
      PROVE jobs'[p] = "failed"
  <2>1. PICK outcome \in {"completed", "failed"} :
          EndJob(w, outcome) /\ run[w].pc # "idle"
    BY <1>3 DEF Skip, DuplicateMovement, Complete, Fail
  <2>2. run[w].job # p
    BY <2>1 DEF Ownership
  <2> QED
    BY <2>1, <2>2, HandlerEnds
<1>4. ASSUME NEW w \in Worker, Move(w) PROVE jobs'[p] = "failed"
  BY <1>4, MoveFacts
<1>5. CASE Crash \/ UNCHANGED core
  BY <1>5 DEF Crash, core, tallies
<1> QED
  BY <1>1, <1>2, <1>3, <1>4, <1>5, CoreStutter DEF Next, Work, Move

\* A webhook that was added stays added (sending it is another component).
LEMMA AnnouncedStays ==
  ASSUME TypeInv, [Next]_vars, NEW o \in Order, Announced(o)
  PROVE  Announced(o)'
<1>1. ASSUME NEW w \in Worker, Dispatch(w) PROVE Announced(o)'
  <2> DEFINE entry == [order |-> run[w].order, payment |-> run[w].job]
             Entry == [order : Order, payment : Payment]
  <2>1. outbox \in Seq(Entry) /\ entry \in Entry
    BY <1>1 DEF TypeInv, TypeOK, Dispatch, LocalsInv, LocalsOK, Locals
  <2>2. outbox' = Append(outbox, entry)
    BY <1>1 DEF Dispatch
  <2> HIDE DEF entry, Entry
  <2>3. \A i \in DOMAIN outbox : i \in DOMAIN outbox' /\ outbox'[i] = outbox[i]
    BY <2>1, <2>2
  <2> QED
    BY <2>3 DEF Announced
<1>2. CASE outbox' = outbox
  BY <1>2 DEF Announced
<1>3. outbox' = outbox \/ \E w \in Worker : Dispatch(w)
  BY CoreStutter DEF Next, Work, Deliver, RecoverStalled, Crash, Take, Skip, Inspect,
         Unmatched, Mismatch, ApplyPayment, SaveSelect, SaveUpdate,
         FindMovement, SaveMovement, DuplicateMovement, FetchBalances,
         SaveBalances, StoreBalances, Complete, Fail, core, store
<1> QED
  BY <1>1, <1>2, <1>3

\* Dispatch announces the handler's order.
LEMMA DispatchAnnounces ==
  ASSUME TypeInv, NEW w \in Worker, Dispatch(w)
  PROVE  \A o \in Order : o = run[w].order => Announced(o)'
<1> DEFINE entry == [order |-> run[w].order, payment |-> run[w].job]
           Entry == [order : Order, payment : Payment]
<1>1. outbox \in Seq(Entry) /\ entry \in Entry /\ entry.order = run[w].order
  BY DEF TypeInv, TypeOK, Dispatch, LocalsInv, LocalsOK, Locals
<1>2. outbox' = Append(outbox, entry)
  BY DEF Dispatch
<1> HIDE DEF entry, Entry
<1>3. Len(outbox) + 1 \in DOMAIN outbox' /\ outbox'[Len(outbox) + 1] = entry
  BY <1>1, <1>2
<1> QED
  BY <1>1, <1>3 DEF Announced

\* A covered order stays covered by the steps that leave its row alone.
LEMMA CoveredStays ==
  ASSUME TypeInv, [Next]_vars, NEW o \in Order, Covered(o)
  PROVE  Covered(o)'
<1> USE DEF TypeInv
<1>1. CASE crashes # 0
  <2>1. crashes \in Nat
    BY ConstantsAssumption DEF TypeOK
  <2>2. crashes' = crashes \/ crashes' = crashes + 1
    BY CoreStutter DEF Next, Work, Deliver, RecoverStalled, Crash, Take, Skip,
        Inspect, Unmatched, Mismatch, ApplyPayment, SaveSelect, SaveUpdate,
        Dispatch, FindMovement, SaveMovement, DuplicateMovement,
        FetchBalances, SaveBalances, StoreBalances, Complete, Fail, core, bounds
  <2> QED
    BY <1>1, <2>1, <2>2 DEF Covered
<1>2. CASE ~NoFailure(o)
  BY <1>2, FailedStays DEF Covered, NoFailure
<1>3. CASE Announced(o)
  BY <1>3, AnnouncedStays DEF Covered
<1>4. CASE InDispatch(o)
  <2>1. PICK w \in Worker : run[w].pc = "dispatch" /\ run[w].order = o
    BY <1>4 DEF InDispatch
  <2>2. run[w].job \in Payment /\ o \in Data[run[w].job].found
    BY <2>1 DEF LocalsInv, LocalsOK, TypeOK, Locals
  <2>3. CASE run'[w] = run[w]
    BY <2>1, <2>3 DEF Covered, InDispatch
  <2>4. CASE Dispatch(w)
    BY <2>1, <2>4, DispatchAnnounces DEF Covered
  <2>5. CASE Fail(w)
    <3>1. jobs'[run[w].job] = "failed"
      BY <2>1, <2>5, HandlerEnds DEF Fail
    <3> QED
      BY <2>2, <3>1 DEF Covered, NoFailure
  <2>6. CASE Crash
    BY <2>6, ConstantsAssumption DEF Crash, Covered, TypeOK
  <2>7. ASSUME NEW v \in Worker, v # w, Work(v) \/ Fail(v) PROVE run'[w] = run[w]
    BY <2>7
    DEF TypeOK, Work, Take, Skip, Inspect, Unmatched, Mismatch, ApplyPayment,
        SaveSelect, SaveUpdate, Dispatch, FindMovement, SaveMovement,
        DuplicateMovement, FetchBalances, SaveBalances, StoreBalances, Complete, Fail, EndJob
  <2>8. ASSUME Work(w) PROVE Dispatch(w)
    BY <2>1, <2>8
    DEF Work, Take, Skip, Inspect, Unmatched, Mismatch, ApplyPayment,
        SaveSelect, SaveUpdate, FindMovement, SaveMovement,
        DuplicateMovement, FetchBalances, SaveBalances, StoreBalances, Complete
  <2>9. ASSUME NEW p \in Payment, Deliver(p) \/ RecoverStalled(p) PROVE run'[w] = run[w]
    BY <2>9 DEF Deliver, RecoverStalled
  <2> QED
    BY <2>3, <2>4, <2>5, <2>6, <2>7, <2>8, <2>9, CoreStutter DEF Next, core, tallies
<1> QED
  BY <1>1, <1>2, <1>3, <1>4 DEF Covered

\* No order waits for its announcement at first.
LEMMA InitAnnounceInv == Init => AnnounceInv
BY DEF Init, AnnounceInv, Idle

\* Every step keeps paid orders covered.
LEMMA NextAnnounceInv == TypeInv /\ AnnounceInv /\ [Next]_vars => AnnounceInv'
<1> SUFFICES ASSUME TypeInv, AnnounceInv, [Next]_vars PROVE AnnounceInv'
  OBVIOUS
<1> USE DEF TypeInv
<1>0. ASSUME NEW v \in Worker, run'[v] = run[v],
             run[v].pc \in {"saveSelect", "saveUpdate"}, run[v].wasPaid
      PROVE  Covered(run[v].order)'
  <2>1. PICK o \in Order : o = run[v].order
    BY <1>0 DEF LocalsInv, LocalsOK
  <2>2. Covered(o)'
    BY <1>0, <2>1, CoveredStays DEF AnnounceInv
  <2> QED
    BY <1>0, <2>1, <2>2
\* Most steps neither write an order nor read one for a handler.
<1>1. ASSUME orders' = orders,
             \A w \in Worker :
               \/ run'[w].pc \notin {"saveSelect", "saveUpdate"}
               \/ /\ run[w].pc \in {"saveSelect", "saveUpdate"}
                  /\ run'[w].order = run[w].order /\ run'[w].wasPaid = run[w].wasPaid
               \/ run'[w] = run[w]
      PROVE  AnnounceInv'
  <2>1. \A o \in Order : orders'[o].status = "paid" => Covered(o)'
    BY <1>1, CoveredStays DEF AnnounceInv
  <2>2. ASSUME NEW w \in Worker, run'[w].pc \in {"saveSelect", "saveUpdate"},
               run'[w].wasPaid
        PROVE  Covered(run[w].order)'
    <3>1. /\ run[w].pc \in {"saveSelect", "saveUpdate"} /\ run[w].wasPaid
          /\ run'[w].order = run[w].order /\ run[w].order \in Order
      BY <1>1, <2>2 DEF LocalsInv, LocalsOK
    <3>2. PICK o \in Order : o = run[w].order
      BY <3>1
    <3>3. Covered(o)'
      BY <3>1, <3>2, CoveredStays DEF AnnounceInv
    <3>4. o = run'[w].order
      BY <3>1, <3>2
    <3> QED
      BY <3>3, <3>4
  <2> QED
    BY <2>1, <2>2 DEF AnnounceInv
<1>2. ASSUME NEW p \in Payment, Deliver(p) \/ RecoverStalled(p) PROVE AnnounceInv'
  BY <1>1, <1>2 DEF Deliver, RecoverStalled, store
<1>3. ASSUME Crash PROVE AnnounceInv'
  BY <1>1, <1>3 DEF Crash, Idle, store
<1>4. ASSUME NEW w \in Worker, Take(w) PROVE AnnounceInv'
  <2>1. PICK p \in Payment :
          run' = [run EXCEPT ![w] = [Idle EXCEPT !.pc = "start", !.job = p]]
    BY <1>4 DEF Take
  <2>2. run'[w].pc = "start" /\ \A v \in Worker : v # w => run'[v] = run[v]
    BY <2>1 DEF TypeOK, Idle
  <2> QED
    BY <1>1, <1>4, <2>2 DEF Take, store
<1>5. ASSUME NEW w \in Worker,
             Skip(w) \/ DuplicateMovement(w) \/ Complete(w) \/ Fail(w)
      PROVE AnnounceInv'
  <2>1. PICK outcome \in {"completed", "failed"} :
          EndJob(w, outcome) /\ run[w].pc # "idle"
    BY <1>5 DEF Skip, DuplicateMovement, Complete, Fail
  <2>2. run'[w].pc = "idle" /\ \A v \in Worker : v # w => run'[v] = run[v]
    BY <2>1, HandlerEnds DEF Idle
  <2>3. orders' = orders
    BY <1>5 DEF Skip, DuplicateMovement, Complete, Fail, store
  <2> QED
    BY <1>1, <2>2, <2>3
<1>6. ASSUME NEW w \in Worker, Move(w) PROVE AnnounceInv'
  <2> DEFINE r == run[w]
             p == r.job
  <2>1. /\ p \in Payment /\ run'[w].job = p /\ TypeInv'
        /\ <<r.pc, run'[w].pc>> \in Follows
        /\ \A v \in Worker : v # w => run'[v] = run[v]
    BY <1>6, MoveFacts
  <2>2. r \in Locals /\ LocalsOK(r)
    BY <2>1 DEF TypeOK, LocalsInv
  <2>3. CASE ApplyPayment(w)
    <3>1. PICK o \in Data[p].applies :
            run' = [run EXCEPT ![w] =
              [r EXCEPT !.pc = "saveSelect", !.order = o,
                        !.paidAmount = ToFixed6(Total(o, p)),
                        !.sums = holds[o] \cup {p},
                        !.status = StatusFor(o, Total(o, p)),
                        !.wasPaid = (orders[o].status = "paid")]]
      BY <2>3 DEF ApplyPayment
    <3>2. o \in Order
      BY <2>1, <3>1, DataAssumption DEF DataType
    <3>3. run'[w].order = o /\ run'[w].wasPaid = (orders[o].status = "paid")
      BY <2>2, <3>1 DEF Locals, TypeOK
    <3>4. orders' = orders
      BY <2>3 DEF ApplyPayment, store
    <3>5. \A q \in Order : orders'[q].status = "paid" => Covered(q)'
      BY <3>4, CoveredStays DEF AnnounceInv
    <3>6. run'[w].wasPaid => Covered(run[w].order)'
      <4>1. run'[w].wasPaid => Covered(o)'
        BY <3>2, <3>3, <3>4, <3>5
      <4> QED
        BY <3>3, <4>1
    <3> QED
      BY <1>0, <2>1, <3>5, <3>6 DEF AnnounceInv
  <2>4. CASE SaveUpdate(w)
    <3>1. r.pc = "saveUpdate" /\ r.order \in Order
      BY <2>2, <2>4 DEF SaveUpdate, LocalsOK
    <3>2. /\ orders'[r.order].status \in {r.status, orders[r.order].status}
          /\ \A q \in Order : q # r.order => orders'[q] = orders[q]
      BY <2>4, <3>1 DEF SaveUpdate, TypeOK
    <3>3. ASSUME NEW q \in Order, orders'[q].status = "paid" PROVE Covered(q)'
      <4>1. CASE orders[q].status = "paid"
        BY <4>1, CoveredStays DEF AnnounceInv
      <4>2. CASE orders[q].status # "paid"
        <5>1. q = r.order /\ r.status = "paid"
          BY <3>2, <3>3, <4>2
        <5>2. CASE r.wasPaid
          BY <3>1, <5>1, <5>2, CoveredStays DEF AnnounceInv
        <5>3. CASE ~r.wasPaid
          <6>1. run'[w] = [Idle EXCEPT !.pc = "dispatch", !.job = p, !.order = r.order]
            BY <2>4, <5>1, <5>3 DEF SaveUpdate, Announces, TypeOK
          <6>2. run'[w].pc = "dispatch" /\ run'[w].order = q
            BY <5>1, <6>1 DEF Idle
          <6> QED
            BY <6>2 DEF Covered, InDispatch
        <5> QED
          BY <5>2, <5>3
      <4> QED
        BY <4>1, <4>2
    <3>4. run'[w].pc \notin {"saveSelect", "saveUpdate"}
      BY <2>1, <3>1 DEF Follows
    <3> QED
      BY <1>0, <2>1, <3>3, <3>4 DEF AnnounceInv
  <2>5. CASE SaveSelect(w)
    <3>1. run' = [run EXCEPT ![w] =
            [r EXCEPT !.pc = "saveUpdate", !.dirty = Differences(r, orders[r.order])]]
      BY <2>5 DEF SaveSelect
    <3>2. /\ run'[w].order = r.order /\ run'[w].wasPaid = r.wasPaid
          /\ r.pc = "saveSelect"
      BY <2>2, <2>5, <3>1 DEF Locals, TypeOK, SaveSelect
    <3> QED
      BY <1>1, <2>1, <2>5, <3>2 DEF SaveSelect, store
  <2>6. CASE ~(ApplyPayment(w) \/ SaveSelect(w) \/ SaveUpdate(w))
    BY <1>1, <1>6, <2>1, <2>6, OtherMoves
  <2> QED
    BY <2>3, <2>4, <2>5, <2>6
<1>7. CASE UNCHANGED core
  BY <1>1, <1>7 DEF core, tallies
<1> QED
  BY <1>2, <1>3, <1>4, <1>5, <1>6, <1>7, CoreStutter DEF Next, Work, Move

\* Unless the process crashed or a job of the order failed, a paid order is
\* announced or a handler is about to announce it.
THEOREM PaidOrdersAreAnnounced == Spec => []PaidIsAnnounced
<1>1. AnnounceInv => PaidIsAnnounced
  BY DEF AnnounceInv, PaidIsAnnounced, Covered, InDispatch
<1> QED
  BY <1>1, InitAnnounceInv, NextAnnounceInv, TypeInvHolds, PTL DEF Spec

-----------------------------------------------------------------------------
(* A completed job has recorded its movements. *)

Recording == {"findMovement", "saveMovement", "fetchBalances", "saveBalances", "finish"}

\* What a handler has recorded so far, and for which order it will record more.
HandlerRecorded(r) ==
  /\ /\ r.pc \in Recording \cup {"dispatch"}
     /\ Data[r.job].to = Platform /\ Data[r.job].found # {}
     => r.order \in Data[r.job].found
  /\ r.pc = "finish" => r.leg = NoMore
  /\ r.pc \in Recording =>
       \A k \in Due(r.job) :
         k < r.leg \/ (k = r.leg /\ r.pc \in {"fetchBalances", "saveBalances"})
           => Recorded(r.job, k)

RecordedInv ==
  /\ CompletedIsRecorded
  /\ \A w \in Worker : HandlerRecorded(run[w])

\* Writing a movement records every payment whose movement has that key.
LEMMA SaveMovementRecords ==
  ASSUME TypeInv, RecordedInv, NEW w \in Worker, SaveMovement(w),
         NEW p \in Payment, NEW k \in Due(p),
         Key(p, k) = Key(run[w].job, run[w].leg)
  PROVE  Recorded(p, k)'
<1> DEFINE j == run[w].job
           l == run[w].leg
           o == run[w].order
<1>1. /\ j \in Payment /\ l \in Due(j) /\ o \in Order \cup {None}
      /\ run[w].pc = "saveMovement" /\ HandlerRecorded(run[w])
  BY DEF TypeInv, TypeOK, LocalsInv, LocalsOK, Locals, SaveMovement, RecordedInv
<1>2. l \in 1..4 /\ k \in 1..4
  BY <1>1 DEF Due
<1>3. movement' = [movement EXCEPT ![Key(j, l)] = Row(j, l, o)]
  BY DEF SaveMovement
<1>4. movement'[Key(p, k)] = Row(j, l, o)
  BY <1>1, <1>2, <1>3, KeyType DEF TypeInv, TypeOK
<1>5. /\ Data[p].hash = Data[j].hash /\ LegType(k) = LegType(l)
      /\ LegAddress(p, k) = LegAddress(j, l)
  BY DEF Key
<1>6. Row(j, l, o) # None /\ Row(j, l, o).order = LegOrder(j, l, o)
      /\ Row(j, l, o).amount = ToFixed6(Data[j].amount)
  BY <1>1, <1>2, RowType, ConstantsAssumption
<1>7. ASSUME LegType(k) = "credit", Data[p].to = Platform, Data[p].found # {}
      PROVE  LegOrder(j, l, o) \in Data[p].found
  <2>1. Data[j].to = Platform
    BY <1>2, <1>5, <1>7 DEF LegType, LegAddress
  <2>2. Data[j].found = Data[p].found
    BY <1>1, <1>5, DataAssumption
  <2>3. o \in Data[j].found
    BY <1>1, <1>7, <2>1, <2>2 DEF HandlerRecorded, Recording
  <2> QED
    BY <1>5, <1>7, <2>1, <2>2, <2>3 DEF LegOrder
<1>8. ASSUME \A q \in Payment \ {p} : Data[q].hash # Data[p].hash
      PROVE  Data[j] = Data[p]
  BY <1>1, <1>5, <1>8
<1> QED
  BY <1>4, <1>6, <1>7, <1>8 DEF Recorded

\* A row, once there, is only ever replaced by one that serves as well.
LEMMA RecordedStays ==
  ASSUME TypeInv, RecordedInv, [Next]_vars,
         NEW p \in Payment, NEW k \in Due(p), Recorded(p, k)
  PROVE  Recorded(p, k)'
<1>1. ASSUME NEW w \in Worker, SaveMovement(w) PROVE Recorded(p, k)'
  <2>1. CASE Key(p, k) = Key(run[w].job, run[w].leg)
    BY <1>1, <2>1, SaveMovementRecords
  <2>2. CASE Key(p, k) # Key(run[w].job, run[w].leg)
    <3>1. movement'[Key(p, k)] = movement[Key(p, k)]
      BY <1>1, <2>2, KeyType DEF SaveMovement, TypeInv, TypeOK, Due
    <3> QED
      BY <3>1 DEF Recorded
  <2> QED
    BY <2>1, <2>2
<1>2. CASE movement' = movement
  BY <1>2 DEF Recorded
<1>3. movement' = movement \/ \E w \in Worker : SaveMovement(w)
  BY CoreStutter DEF Next, Work, Deliver, RecoverStalled, Crash, Take, Skip, Inspect,
         Unmatched, Mismatch, ApplyPayment, SaveSelect, SaveUpdate, Dispatch,
         FindMovement, DuplicateMovement, FetchBalances, SaveBalances, StoreBalances,
         Complete, Fail, core, store
<1> QED
  BY <1>1, <1>2, <1>3

\* A handler that has recorded its movements up to k may go on after k.
LEMMA AfterLegRecorded ==
  ASSUME NEW w \in Worker, NEW r, r.job \in Payment, NEW k \in 0..4,
         NEW o \in Order \cup {None},
         run'[w] = AfterLeg(r, o, k),
         Data[r.job].to = Platform /\ Data[r.job].found # {} => o \in Data[r.job].found,
         \A l \in Due(r.job) : l <= k => Recorded(r.job, l)'
  PROVE  HandlerRecorded(run[w])'
<1> DEFINE a == run'[w]
<1>1. /\ a.job = r.job /\ a.order = o /\ a.pc \in {"findMovement", "finish"}
      /\ a.pc = "finish" => a.leg = NoMore
      /\ \A l \in Due(r.job) : l > k => a.leg <= l
      /\ a.leg \in 0..5
  BY AfterLegFacts DEF Locals
<1>2. ASSUME NEW l \in Due(r.job), l < a.leg PROVE Recorded(r.job, l)'
  <2>1. l \in 1..4
    BY DEF Due
  <2> QED
    BY <1>1, <1>2, <2>1
<1> QED
  BY <1>1, <1>2 DEF HandlerRecorded, Recording

\* No job is complete at first.
LEMMA InitRecordedInv == Init => RecordedInv
BY DEF Init, RecordedInv, CompletedIsRecorded, HandlerRecorded, Idle, Recording

\* Every step keeps the movements of completed jobs.
LEMMA NextRecordedInv == TypeInv /\ RecordedInv /\ [Next]_vars => RecordedInv'
<1> SUFFICES ASSUME TypeInv, RecordedInv, [Next]_vars PROVE RecordedInv'
  OBVIOUS
<1> USE DEF TypeInv
<1>1. ASSUME NEW w \in Worker,
             \/ run'[w] = run[w]
             \/ run'[w].pc \notin Recording \cup {"dispatch"}
      PROVE  HandlerRecorded(run[w])'
  <2>1. CASE run'[w].pc \notin Recording \cup {"dispatch"}
    BY <2>1 DEF HandlerRecorded, Recording
  <2>2. CASE run'[w] = run[w] /\ run[w].pc \in Recording \cup {"dispatch"}
    <3>1. run[w].job \in Payment /\ HandlerRecorded(run[w])
      BY <2>2 DEF RecordedInv, LocalsInv, LocalsOK, TypeOK, Locals, Recording
    <3> QED
      BY <2>2, <3>1, RecordedStays DEF HandlerRecorded
  <2> QED
    BY <1>1, <2>1, <2>2
<1>2. ASSUME \A p \in Payment : jobs'[p] = "completed" => jobs[p] = "completed"
      PROVE  CompletedIsRecorded'
  BY <1>2, RecordedStays DEF RecordedInv, CompletedIsRecorded
<1>3. ASSUME NEW p \in Payment, Deliver(p) \/ RecoverStalled(p) PROVE RecordedInv'
  <2>1. run' = run
    BY <1>3 DEF Deliver, RecoverStalled
  <2>2. \A q \in Payment : jobs'[q] = "completed" => jobs[q] = "completed"
    BY <1>3 DEF Deliver, RecoverStalled, TypeOK
  <2> QED
    BY <1>1, <1>2, <2>1, <2>2 DEF RecordedInv
<1>4. ASSUME Crash PROVE RecordedInv'
  BY <1>1, <1>2, <1>4 DEF Crash, Idle, RecordedInv, Recording
<1>5. ASSUME NEW w \in Worker, Take(w) PROVE RecordedInv'
  <2>1. PICK p \in Payment :
          /\ run' = [run EXCEPT ![w] = [Idle EXCEPT !.pc = "start", !.job = p]]
          /\ jobs' = [jobs EXCEPT ![p] = "active"]
    BY <1>5 DEF Take
  <2>2. run'[w].pc = "start" /\ \A v \in Worker : v # w => run'[v] = run[v]
    BY <2>1 DEF TypeOK, Idle
  <2>3. \A q \in Payment : jobs'[q] = "completed" => jobs[q] = "completed"
    BY <2>1 DEF TypeOK
  <2> QED
    BY <1>1, <1>2, <2>2, <2>3 DEF RecordedInv, Recording
<1>6. ASSUME NEW w \in Worker,
             Skip(w) \/ DuplicateMovement(w) \/ Complete(w) \/ Fail(w)
      PROVE RecordedInv'
  <2> DEFINE p == run[w].job
  <2>1. PICK outcome \in {"completed", "failed"} :
          EndJob(w, outcome) /\ run[w].pc # "idle"
    BY <1>6 DEF Skip, DuplicateMovement, Complete, Fail
  <2>2. /\ run'[w].pc = "idle" /\ \A v \in Worker : v # w => run'[v] = run[v]
        /\ p \in Payment /\ jobs'[p] = outcome
        /\ \A q \in Payment : q # p => jobs'[q] = jobs[q]
    BY <2>1, HandlerEnds DEF Idle
  <2>3. ASSUME NEW q \in Payment, jobs'[q] = "completed", NEW k \in Due(q)
        PROVE  Recorded(q, k)'
    <3>1. CASE jobs[q] = "completed"
      BY <3>1, RecordedStays DEF RecordedInv, CompletedIsRecorded
    <3>2. CASE jobs[q] # "completed"
      <4>1. q = p /\ outcome = "completed"
        BY <2>2, <2>3, <3>2
      <4>2. Skip(w) \/ Complete(w)
        BY <1>6, <2>2, <4>1 DEF DuplicateMovement, Fail, EndJob, TypeOK
      <4>3. Complete(w)
        BY <2>3, <4>1, <4>2 DEF Skip, Involved
      <4>4. run[w].pc = "finish" /\ HandlerRecorded(run[w])
        BY <4>3 DEF Complete, RecordedInv
      <4>5. Recorded(p, k)
        BY <2>3, <4>1, <4>4 DEF HandlerRecorded, Recording, Due
      <4> QED
        BY <4>1, <4>5, RecordedStays
    <3> QED
      BY <3>1, <3>2
  <2>4. CompletedIsRecorded'
    BY <2>3 DEF CompletedIsRecorded
  <2> QED
    BY <1>1, <2>2, <2>4 DEF RecordedInv, Recording
<1>7. ASSUME NEW w \in Worker, Move(w) PROVE RecordedInv'
  <2> DEFINE r == run[w]
             p == r.job
  <2>1. /\ p \in Payment /\ run'[w].job = p /\ jobs' = jobs
        /\ <<r.pc, run'[w].pc>> \in Follows
        /\ \A v \in Worker : v # w => run'[v] = run[v]
    BY <1>7, MoveFacts
  <2>2. /\ r \in Locals /\ LocalsOK(r) /\ HandlerRecorded(r)
        /\ run \in [Worker -> Locals]
    BY DEF TypeOK, LocalsInv, RecordedInv
  <2>3. HandlerRecorded(run[w])'
    <3>1. \A k \in Due(p) : k \in 1..4
      BY DEF Due
    <3>2. r.order \in Order \cup {None} /\ r.leg \in 0..5
      BY <2>2 DEF Locals
    <3>3. CASE Inspect(w) \/ Unmatched(w) \/ Mismatch(w)
      <4>1. CASE run'[w].pc = "match"
        BY <1>1, <4>1 DEF Recording
      <4>2. CASE run'[w].pc # "match"
        <5>1. PICK o \in Order \cup {None} :
                /\ run' = [run EXCEPT ![w] = AfterLeg(r, o, 0)]
                /\ Data[p].to = Platform /\ Data[p].found # {} => o \in Data[p].found
          <6>1. CASE Inspect(w)
            BY <2>2, <4>2, <6>1 DEF Inspect, Locals
          <6>2. CASE Unmatched(w)
            BY <6>2 DEF Unmatched
          <6>3. CASE Mismatch(w)
            BY <2>1, <6>3, DataAssumption DEF Mismatch, DataType
          <6> QED
            BY <3>3, <6>1, <6>2, <6>3
        <5>2. run'[w] = AfterLeg(r, o, 0)
          BY <2>2, <5>1
        <5> QED
          BY <2>1, <3>1, <5>1, <5>2, AfterLegRecorded
      <4> QED
        BY <4>1, <4>2
    <3>4. CASE ApplyPayment(w) \/ SaveSelect(w)
      <4>1. CASE ApplyPayment(w)
        <5>1. PICK o \in Data[p].applies :
                run' = [run EXCEPT ![w] =
                  [r EXCEPT !.pc = "saveSelect", !.order = o,
                            !.paidAmount = ToFixed6(Total(o, p)),
                            !.sums = holds[o] \cup {p},
                            !.status = StatusFor(o, Total(o, p)),
                            !.wasPaid = (orders[o].status = "paid")]]
          BY <4>1 DEF ApplyPayment
        <5>2. run'[w].pc = "saveSelect"
          BY <2>2, <5>1 DEF Locals
        <5> QED
          BY <1>1, <5>2 DEF Recording
      <4>2. CASE SaveSelect(w)
        <5>1. run' = [run EXCEPT ![w] =
                [r EXCEPT !.pc = "saveUpdate",
                          !.dirty = Differences(r, orders[r.order])]]
          BY <4>2 DEF SaveSelect
        <5>2. run'[w].pc = "saveUpdate"
          BY <2>2, <5>1 DEF Locals
        <5> QED
          BY <1>1, <5>2 DEF Recording
      <4> QED
        BY <3>4, <4>1, <4>2
    <3>5. CASE SaveUpdate(w)
      <4>1. r.pc = "saveUpdate" /\ r.order \in Data[p].found
        BY <2>2, <3>5 DEF SaveUpdate, LocalsOK
      <4>2. CASE Announces(r)
        <5>1. run'[w] = [Idle EXCEPT !.pc = "dispatch", !.job = p, !.order = r.order]
          BY <2>2, <3>5, <4>2 DEF SaveUpdate
        <5>2. run'[w].pc = "dispatch" /\ run'[w].order = r.order
          BY <5>1 DEF Idle
        <5> QED
          BY <2>1, <4>1, <5>2 DEF HandlerRecorded, Recording
      <4>3. CASE ~Announces(r)
        <5>1. run'[w] = AfterLeg(r, r.order, 0)
          BY <2>2, <3>5, <4>3 DEF SaveUpdate
        <5> QED
          BY <2>1, <3>1, <3>2, <4>1, <5>1, AfterLegRecorded
      <4> QED
        BY <4>2, <4>3
    <3>6. CASE Dispatch(w)
      <4>1. r.pc = "dispatch" /\ run'[w] = AfterLeg(r, r.order, 0)
        BY <2>2, <3>6 DEF Dispatch
      <4>2. r.order \in Data[p].found
        BY <2>2, <4>1 DEF LocalsOK
      <4> QED
        BY <2>1, <3>1, <3>2, <4>1, <4>2, AfterLegRecorded
    <3>7. CASE FindMovement(w) \/ FetchBalances(w)
      <4>1. /\ run'[w].order = r.order /\ run'[w].leg = r.leg
            /\ \/ r.pc = "findMovement" /\ run'[w].pc = "saveMovement"
               \/ r.pc = "fetchBalances" /\ run'[w].pc = "saveBalances"
        <5>1. CASE FindMovement(w)
          <6>1. /\ r.pc = "findMovement"
                /\ run' = [run EXCEPT ![w] =
                     [r EXCEPT !.pc = "saveMovement",
                               !.exists = (movement[Key(p, r.leg)] # None)]]
            BY <5>1 DEF FindMovement
          <6> QED
            BY <2>2, <6>1 DEF Locals
        <5>2. CASE FetchBalances(w)
          <6>1. /\ r.pc = "fetchBalances"
                /\ run' = [run EXCEPT ![w] =
                     [r EXCEPT !.pc = "saveBalances",
                               !.snapshot = OnLedger(LegAddress(p, r.leg))]]
            BY <5>2 DEF FetchBalances
          <6> QED
            BY <2>2, <6>1 DEF Locals
        <5> QED
          BY <3>7, <5>1, <5>2
      <4>2. \A k \in Due(p) : Recorded(p, k) => Recorded(p, k)'
        BY <2>1, RecordedStays
      <4> QED
        BY <2>1, <2>2, <4>1, <4>2 DEF HandlerRecorded, Recording
    <3>8. CASE SaveMovement(w)
      <4>1. /\ r.pc = "saveMovement" /\ r.leg \in Due(p)
            /\ Data[p].to = Platform /\ Data[p].found # {} => r.order \in Data[p].found
        BY <2>2, <3>8 DEF SaveMovement, LocalsOK, HandlerRecorded, Recording
      <4>2. \A k \in Due(p) : k <= r.leg => Recorded(p, k)'
        <5>1. ASSUME NEW k \in Due(p), k = r.leg PROVE Recorded(p, k)'
          BY <2>1, <3>8, <5>1, SaveMovementRecords
        <5>2. \A k \in Due(p) : k < r.leg => Recorded(p, k)'
          BY <2>1, <2>2, <4>1, RecordedStays DEF HandlerRecorded, Recording
        <5> QED
          BY <3>1, <4>1, <5>1, <5>2
      <4>3. CASE r.leg \in {SenderWallet, ReceiverWallet}
        <5>1. run'[w] = [r EXCEPT !.pc = "fetchBalances"]
          BY <2>2, <3>8, <4>3 DEF SaveMovement
        <5>2. /\ run'[w].pc = "fetchBalances" /\ run'[w].leg = r.leg
              /\ run'[w].order = r.order
          BY <2>2, <5>1 DEF Locals
        <5> QED
          BY <2>1, <3>1, <4>1, <4>2, <5>2 DEF HandlerRecorded, Recording
      <4>4. CASE r.leg \notin {SenderWallet, ReceiverWallet}
        <5>1. run'[w] = AfterLeg(r, r.order, r.leg)
          BY <2>2, <3>8, <4>4 DEF SaveMovement
        <5> QED
          BY <2>1, <3>1, <3>2, <4>1, <4>2, <5>1, AfterLegRecorded
      <4> QED
        BY <4>3, <4>4
    <3>9. CASE SaveBalances(w)
      <4>1. r.pc = "saveBalances" /\ run'[w] = AfterLeg(r, r.order, r.leg)
        BY <2>2, <3>9 DEF SaveBalances, StoreBalances
      <4>2. r.leg \in Due(p)
        BY <2>2, <4>1 DEF LocalsOK
      <4>3. /\ Data[p].to = Platform /\ Data[p].found # {} => r.order \in Data[p].found
            /\ \A k \in Due(p) : k <= r.leg => Recorded(p, k)
        BY <2>2, <3>1, <3>2, <4>1 DEF HandlerRecorded, Recording
      <4>4. \A k \in Due(p) : k <= r.leg => Recorded(p, k)'
        BY <2>1, <4>3, RecordedStays
      <4> QED
        BY <2>1, <3>1, <3>2, <4>1, <4>2, <4>3, <4>4, AfterLegRecorded
    <3> QED
      BY <1>7, <3>3, <3>4, <3>5, <3>6, <3>7, <3>8, <3>9 DEF Move
  <2> QED
    BY <1>1, <1>2, <2>1, <2>3 DEF RecordedInv
<1>8. CASE UNCHANGED core
  BY <1>1, <1>2, <1>8 DEF core, tallies, RecordedInv
<1> QED
  BY <1>3, <1>4, <1>5, <1>6, <1>7, <1>8, CoreStutter DEF Next, Work, Move

\* A completed job has left every movement it owes, for whichever order the
\* memo can mean, whatever other handlers wrote under the same key.
THEOREM CompletedJobsAreRecorded == Spec => []CompletedIsRecorded
<1>1. RecordedInv => CompletedIsRecorded
  BY DEF RecordedInv
<1> QED
  BY <1>1, InitRecordedInv, NextRecordedInv, TypeInvHolds, PTL DEF Spec

\* Laravel's verification of a completed payment succeeds while its order is paid,
\* when the query by reference can return no other order: the movement that
\* verifyTransaction looks for is there, under the order's id.
THEOREM CompletedJobsAreVerifiable == Spec => []CompletedIsVerifiable
<1>1. TypeInv /\ RecordedInv => CompletedIsVerifiable
  <2> SUFFICES ASSUME TypeInv, RecordedInv, NEW p \in Payment, NEW o \in Order,
                      jobs[p] = "completed", Unmistakable(p, o), orders[o].status = "paid"
               PROVE  Verifies(o, p)
    BY DEF CompletedIsVerifiable
  <2>1. /\ Data[p].to = Platform /\ Data[p].found = {o} /\ o \in Data[p].applies
        /\ Namesakes(o) = {o}
    BY DEF Unmistakable, Reconcilable
  <2>2. PICK k \in Due(p) : k \in {ReceiverWallet, PlatformCredit}
    BY <2>1 DEF Due
  <2>3. LegType(k) = "credit" /\ Key(p, k) = <<Data[p].hash, Platform, "credit">>
    BY <2>1, <2>2 DEF LegType, LegAddress, Key
  <2>4. Recorded(p, k)
    BY DEF RecordedInv, CompletedIsRecorded
  <2>5. Confirms(o, p)
    BY <2>1, <2>3, <2>4, ConstantsAssumption DEF Recorded, Confirms
  <2> QED
    BY <2>1, <2>5 DEF Verifies
<1> QED
  BY <1>1, InitRecordedInv, NextRecordedInv, TypeInvHolds, PTL DEF Spec

-----------------------------------------------------------------------------
(* A completed job has saved its order. *)

\* A handler that is past the order's save has credited its payment.
CreditedInv ==
  \A p \in Payment : Reconcilable(p) =>
    /\ jobs[p] = "completed" => credits[p] > 0
    /\ \A w \in Worker :
         run[w].job = p /\ run[w].pc \in Recording \cup {"dispatch"} => credits[p] > 0

\* A payment to the platform is never skipped.
LEMMA ReconcilableFacts ==
  ASSUME NEW p \in Payment, Reconcilable(p)
  PROVE  /\ Data[p].to = Platform /\ Involved(p)
         /\ Data[p].applies # {} /\ Data[p].found = Data[p].applies
         /\ Data[p].found \subseteq Order
<1>1. Data[p].to = Platform /\ Data[p].found \subseteq Order
  BY DataAssumption DEF Reconcilable, DataType
<1>2. Due(p) # {}
  <2>1. CASE Platform \in Wallet
    BY <1>1, <2>1 DEF Due
  <2>2. CASE Platform \notin Wallet
    BY <1>1, <2>2 DEF Due
  <2> QED
    BY <2>1, <2>2
<1> QED
  BY <1>1, <1>2 DEF Reconcilable, Involved

\* A handler of such a payment gets past the order only by its save.
LEMMA ReconcilableMoves ==
  ASSUME TypeInv, NEW w \in Worker, Move(w), Reconcilable(run[w].job)
  PROVE  /\ ~Unmatched(w) /\ ~Mismatch(w)
         /\ SaveUpdate(w) <=> run[w].pc = "saveUpdate"
         /\ run[w].pc \in {"start", "match", "saveSelect"} =>
              run'[w].pc \in {"match", "saveSelect", "saveUpdate"}
<1>1. /\ run[w].job \in Payment /\ run \in [Worker -> Locals]
      /\ <<run[w].pc, run'[w].pc>> \in Follows
  BY MoveFacts DEF TypeInv, TypeOK
<1>2. ~Unmatched(w) /\ ~Mismatch(w)
  BY <1>1, ReconcilableFacts DEF Unmatched, Mismatch
<1>3. SaveUpdate(w) <=> run[w].pc = "saveUpdate"
  BY DEF Move, Inspect, Unmatched, Mismatch, ApplyPayment, SaveSelect, SaveUpdate,
         Dispatch, FindMovement, SaveMovement, FetchBalances, SaveBalances, StoreBalances
<1>4. CASE run[w].pc = "start"
  <2>1. Inspect(w)
    BY <1>4 DEF Move, Inspect, Unmatched, Mismatch, ApplyPayment, SaveSelect,
         SaveUpdate, Dispatch, FindMovement, SaveMovement, FetchBalances, SaveBalances, StoreBalances
  <2>2. run' = [run EXCEPT ![w] = [run[w] EXCEPT !.pc = "match"]]
    BY <1>1, <2>1, ReconcilableFacts DEF Inspect
  <2>3. run'[w].pc = "match"
    BY <1>1, <2>2 DEF Locals
  <2> QED
    BY <1>2, <1>3, <1>4, <2>3
<1>5. CASE run[w].pc = "match"
  <2>1. ApplyPayment(w)
    BY <1>2, <1>5 DEF Move, Inspect, ApplyPayment, SaveSelect,
         SaveUpdate, Dispatch, FindMovement, SaveMovement, FetchBalances, SaveBalances, StoreBalances
  <2>2. PICK o \in Data[run[w].job].applies :
          run' = [run EXCEPT ![w] =
            [run[w] EXCEPT !.pc = "saveSelect", !.order = o,
                      !.paidAmount = ToFixed6(Total(o, run[w].job)),
                      !.sums = holds[o] \cup {run[w].job},
                      !.status = StatusFor(o, Total(o, run[w].job)),
                      !.wasPaid = (orders[o].status = "paid")]]
    BY <2>1 DEF ApplyPayment
  <2>3. run'[w].pc = "saveSelect"
    BY <1>1, <2>2 DEF Locals
  <2> QED
    BY <1>2, <1>3, <1>5, <2>3
<1>6. CASE run[w].pc = "saveSelect"
  BY <1>1, <1>2, <1>3, <1>6 DEF Follows
<1>7. CASE run[w].pc \notin {"start", "match", "saveSelect"}
  BY <1>2, <1>3, <1>7
<1> QED
  BY <1>4, <1>5, <1>6, <1>7

\* Nothing is completed at first.
LEMMA InitCreditedInv == Init => CreditedInv
BY DEF Init, CreditedInv, Idle, Recording

\* Every step keeps the completed jobs credited.
LEMMA NextCreditedInv == TypeInv /\ CreditedInv /\ [Next]_vars => CreditedInv'
<1> SUFFICES ASSUME TypeInv, CreditedInv, [Next]_vars,
                    NEW p \in Payment, Reconcilable(p)
             PROVE  /\ jobs'[p] = "completed" => credits'[p] > 0
                    /\ \A w \in Worker :
                         run'[w].job = p /\ run'[w].pc \in Recording \cup {"dispatch"}
                           => credits'[p] > 0
  BY DEF CreditedInv, Reconcilable
<1> DEFINE Past(r) == r.job = p /\ r.pc \in Recording \cup {"dispatch"}
<1>0. /\ jobs \in [Payment -> JobState] /\ run \in [Worker -> Locals]
      /\ credits \in [Payment -> Nat]
      /\ jobs[p] = "completed" => credits[p] > 0
      /\ \A w \in Worker : Past(run[w]) => credits[p] > 0
  BY DEF TypeInv, TypeOK, CreditedInv
<1> HIDE DEF Past
<1> SUFFICES /\ jobs'[p] = "completed" => credits'[p] > 0
             /\ \A w \in Worker : Past(run'[w]) => credits'[p] > 0
  BY DEF Past
<1>1. ASSUME NEW q \in Payment, Deliver(q) \/ RecoverStalled(q)
      PROVE  /\ jobs'[p] = "completed" => credits'[p] > 0
             /\ \A w \in Worker : Past(run'[w]) => credits'[p] > 0
  <2>1. run' = run /\ credits' = credits /\ (jobs'[p] = "completed" => jobs[p] = "completed")
    BY <1>0, <1>1 DEF Deliver, RecoverStalled, history, tallies
  <2> QED
    BY <1>0, <2>1
<1>2. ASSUME Crash
      PROVE  /\ jobs'[p] = "completed" => credits'[p] > 0
             /\ \A w \in Worker : Past(run'[w]) => credits'[p] > 0
  <2>1. /\ jobs' = jobs /\ credits' = credits
        /\ \A w \in Worker : run'[w].pc = "idle"
    BY <1>2 DEF Crash, Idle, history, tallies
  <2> QED
    BY <1>0, <2>1 DEF Past, Recording
<1>3. ASSUME NEW w \in Worker, Take(w)
      PROVE  /\ jobs'[p] = "completed" => credits'[p] > 0
             /\ \A v \in Worker : Past(run'[v]) => credits'[p] > 0
  <2>1. PICK q \in Payment :
          /\ run' = [run EXCEPT ![w] = [Idle EXCEPT !.pc = "start", !.job = q]]
          /\ jobs' = [jobs EXCEPT ![q] = "active"]
    BY <1>3 DEF Take
  <2>2. run'[w].pc = "start" /\ \A v \in Worker : v # w => run'[v] = run[v]
    BY <1>0, <2>1 DEF Idle
  <2>3. credits' = credits /\ (jobs'[p] = "completed" => jobs[p] = "completed")
    BY <1>0, <1>3, <2>1 DEF Take, history, tallies
  <2>4. ~Past(run'[w])
    BY <2>2 DEF Past, Recording
  <2> QED
    BY <1>0, <2>2, <2>3, <2>4
<1>4. ASSUME NEW w \in Worker,
             Skip(w) \/ DuplicateMovement(w) \/ Complete(w) \/ Fail(w)
      PROVE  /\ jobs'[p] = "completed" => credits'[p] > 0
             /\ \A v \in Worker : Past(run'[v]) => credits'[p] > 0
  <2>1. PICK outcome \in {"completed", "failed"} :
          EndJob(w, outcome) /\ run[w].pc # "idle"
    BY <1>4 DEF Skip, DuplicateMovement, Complete, Fail
  <2>2. /\ run'[w].pc = "idle" /\ \A v \in Worker : v # w => run'[v] = run[v]
        /\ run[w].job \in Payment
        /\ \A q \in Payment : q # run[w].job => jobs'[q] = jobs[q]
    BY <2>1, HandlerEnds DEF Idle
  <2>3. credits' = credits
    BY <1>4 DEF Skip, DuplicateMovement, Complete, Fail, history, tallies
  <2>4. CASE run[w].job # p
    BY <1>0, <2>2, <2>3, <2>4 DEF Past, Recording
  <2>5. CASE run[w].job = p
    <3>1. CASE Complete(w)
      <4>1. Past(run[w])
        BY <2>5, <3>1 DEF Past, Complete, Recording
      <4>2. credits[p] > 0
        BY <1>0, <4>1
      <4> QED
        BY <2>3, <4>2
    <3>2. CASE ~Complete(w)
      <4>1. jobs'[p] = "failed"
        BY <1>0, <1>4, <2>5, <3>2, ReconcilableFacts
        DEF Skip, DuplicateMovement, Fail, EndJob
      <4> QED
        BY <1>0, <2>2, <2>3, <4>1 DEF Past, Recording
    <3> QED
      BY <3>1, <3>2
  <2> QED
    BY <2>4, <2>5
<1>5. ASSUME NEW w \in Worker, Move(w)
      PROVE  /\ jobs'[p] = "completed" => credits'[p] > 0
             /\ \A v \in Worker : Past(run'[v]) => credits'[p] > 0
  <2>1. /\ run[w].job \in Payment /\ run'[w].job = run[w].job /\ jobs' = jobs
        /\ <<run[w].pc, run'[w].pc>> \in Follows
        /\ \A v \in Worker : v # w => run'[v] = run[v]
    BY <1>5, MoveFacts
  <2>2. CASE SaveUpdate(w)
    <3>1. credits' = [credits EXCEPT ![run[w].job] = credits[run[w].job] + 1]
      BY <2>2 DEF SaveUpdate
    <3>2. /\ run[w].job = p => credits'[p] > 0
          /\ run[w].job # p => credits'[p] = credits[p]
          /\ credits[p] > 0 => credits'[p] > 0
      BY <1>0, <2>1, <3>1
    <3>3. Past(run'[w]) => run[w].job = p
      BY <2>1 DEF Past
    <3> QED
      BY <1>0, <2>1, <3>2, <3>3
  <2>3. CASE ~SaveUpdate(w)
    <3>1. credits' = credits
      BY <1>5, <2>3
      DEF Move, Inspect, Unmatched, Mismatch, ApplyPayment, SaveSelect,
          Dispatch, FindMovement, SaveMovement, FetchBalances, SaveBalances, StoreBalances, history, tallies
    <3>2. Past(run'[w]) => Past(run[w])
      <4> SUFFICES ASSUME Past(run'[w]) PROVE Past(run[w])
        OBVIOUS
      <4>1. run[w].job = p /\ run'[w].pc \in Recording \cup {"dispatch"}
        BY <2>1 DEF Past
      <4>2. run[w].pc \notin {"start", "match", "saveSelect", "saveUpdate"}
        BY <1>5, <2>3, <4>1, ReconcilableMoves DEF Recording
      <4> QED
        BY <2>1, <4>1, <4>2 DEF Past, Follows, Recording
    <3> QED
      BY <1>0, <2>1, <3>1, <3>2
  <2> QED
    BY <2>2, <2>3
<1>6. CASE UNCHANGED core
  BY <1>0, <1>6 DEF core, tallies
<1> QED
  BY <1>1, <1>2, <1>3, <1>4, <1>5, <1>6, CoreStutter DEF Next, Work, Move

-----------------------------------------------------------------------------
(* The order of one payment. *)

\* The announcements of o, once there is one.
ToldOnce(o) ==
  /\ Announced(o)
  /\ \A i, j \in DOMAIN outbox : outbox[i].order = o /\ outbox[j].order = o => i = j

\* The order as it is created, and once payment p is all it has received.
Fresh == [paidAmount |-> 0, status |-> "pending"]

Whole(p, o) == [paidAmount |-> ToFixed6(Data[p].amount),
                status |-> StatusFor(o, Data[p].amount)]

Untouched(o) == orders[o] = Fresh /\ ~Announced(o)

Done(p, o) ==
  /\ orders[o] = Whole(p, o)
  /\ IF Whole(p, o).status = "paid" THEN ToldOnce(o) ELSE ~Announced(o)

\* Only its own handler touches such an order.
LEMMA LoneHandlers ==
  ASSUME TypeInv, NEW p \in Payment, NEW o \in Order, Alone(p, o),
         NEW w \in Worker, run[w].pc \in {"saveSelect", "saveUpdate", "dispatch"}
  PROVE  run[w].job = p <=> run[w].order = o
<1>1. /\ run[w].job \in Payment /\ run[w].order \in Order
      /\ run[w].order \in Data[run[w].job].found
  BY DEF TypeInv, TypeOK, LocalsInv, LocalsOK, Locals
<1> QED
  BY <1>1 DEF Alone

\* Dispatch adds one announcement of its order, and none of another.
LEMMA DispatchTells ==
  ASSUME TypeInv, NEW w \in Worker, Dispatch(w), NEW o \in Order
  PROVE  /\ run[w].order # o => /\ Announced(o)' <=> Announced(o)
                                /\ ToldOnce(o)' <=> ToldOnce(o)
         /\ run[w].order = o /\ ~Announced(o) => ToldOnce(o)'
<1> DEFINE entry == [order |-> run[w].order, payment |-> run[w].job]
           Entry == [order : Order, payment : Payment]
<1>1. outbox \in Seq(Entry) /\ entry \in Entry /\ entry.order = run[w].order
  BY DEF TypeInv, TypeOK, Dispatch, LocalsInv, LocalsOK, Locals
<1>2. outbox' = Append(outbox, entry)
  BY DEF Dispatch
<1> HIDE DEF entry, Entry
<1> DEFINE n == Len(outbox) + 1
<1>3. /\ DOMAIN outbox' = DOMAIN outbox \cup {n} /\ n \notin DOMAIN outbox
      /\ outbox'[n].order = run[w].order
      /\ \A i \in DOMAIN outbox : outbox'[i] = outbox[i]
  BY <1>1, <1>2
<1> HIDE DEF n
<1>4. CASE run[w].order # o
  BY <1>3, <1>4 DEF Announced, ToldOnce
<1>5. ASSUME run[w].order = o, ~Announced(o) PROVE ToldOnce(o)'
  <2>1. \A i \in DOMAIN outbox' : outbox'[i].order = o => i = n
    BY <1>3, <1>5 DEF Announced
  <2> QED
    BY <1>3, <1>5, <2>1 DEF Announced, ToldOnce
<1> QED
  BY <1>4, <1>5

\* Whatever other handlers do, the order stays as its own handler leaves it.
LEMMA LoneFrame ==
  ASSUME TypeInv, [Next]_vars, NEW p \in Payment, NEW o \in Order, Alone(p, o),
         \A w \in Worker : run[w].job = p => ~SaveUpdate(w) /\ ~Dispatch(w)
  PROVE  /\ orders'[o] = orders[o] /\ credits'[p] = credits[p]
         /\ Announced(o)' <=> Announced(o)
         /\ ToldOnce(o)' <=> ToldOnce(o)
<1>1. ASSUME NEW w \in Worker, SaveUpdate(w)
      PROVE  orders'[o] = orders[o] /\ credits'[p] = credits[p] /\ outbox' = outbox
  <2>0. run[w].pc = "saveUpdate"
    BY <1>1 DEF SaveUpdate
  <2>1. /\ run[w].job # p /\ run[w].order # o
        /\ run[w].job \in Payment /\ run[w].order \in Order
    <3>1. run[w].job # p
      BY <1>1
    <3>2. run[w].order # o
      BY <2>0, <3>1, LoneHandlers
    <3>3. run[w].job \in Payment /\ run[w].order \in Order
      BY <2>0 DEF TypeInv, TypeOK, LocalsInv, LocalsOK, Locals
    <3> QED
      BY <3>1, <3>2, <3>3
  <2>2. /\ orders \in [Order -> [paidAmount : Nat, status : OrderStatus]]
        /\ credits \in [Payment -> Nat]
    BY DEF TypeInv, TypeOK
  <2>3. orders'[o] = orders[o] /\ outbox' = outbox
    BY <1>1, <2>1, <2>2 DEF SaveUpdate
  <2>4. credits'[p] = credits[p]
    BY <1>1, <2>1, <2>2 DEF SaveUpdate
  <2> QED
    BY <2>3, <2>4
<1>2. ASSUME NEW w \in Worker, Dispatch(w)
      PROVE  /\ orders'[o] = orders[o] /\ credits'[p] = credits[p]
             /\ Announced(o)' <=> Announced(o)
             /\ ToldOnce(o)' <=> ToldOnce(o)
  <2>1. run[w].pc = "dispatch"
    BY <1>2 DEF Dispatch
  <2>2. run[w].job # p
    BY <1>2
  <2>3. run[w].order # o
    BY <2>1, <2>2, LoneHandlers
  <2>4. orders' = orders /\ credits' = credits
    BY <1>2 DEF Dispatch, history, tallies
  <2> QED
    BY <1>2, <2>3, <2>4, DispatchTells
<1>3. ASSUME \A w \in Worker : ~SaveUpdate(w) /\ ~Dispatch(w)
      PROVE  UNCHANGED <<orders, outbox, credits>>
  BY <1>3, CoreStutter DEF Next, Work, Deliver, RecoverStalled, Crash, Take, Skip, Inspect,
         Unmatched, Mismatch, ApplyPayment, SaveSelect, FindMovement,
         SaveMovement, DuplicateMovement, FetchBalances, SaveBalances, StoreBalances,
         Complete, Fail, core, store, history, tallies
<1>4. ASSUME UNCHANGED <<orders, outbox, credits>>
      PROVE  /\ orders'[o] = orders[o] /\ credits'[p] = credits[p]
             /\ Announced(o)' <=> Announced(o)
             /\ ToldOnce(o)' <=> ToldOnce(o)
  BY <1>4 DEF Announced, ToldOnce
<1> QED
  BY <1>1, <1>2, <1>3, <1>4 DEF Announced, ToldOnce

\* Where the locals of a busy handler come from.
LEMMA HandlerOrigins ==
  ASSUME TypeInv, [Next]_vars, NEW w \in Worker, run'[w].pc # "idle"
  PROVE  \/ run'[w] = run[w]
         \/ run'[w].pc = "start" /\ jobs[run'[w].job] = "waiting" /\ stalls' = stalls
         \/ Move(w)
<1>1. run \in [Worker -> Locals] /\ Idle.pc = "idle"
  BY DEF TypeInv, TypeOK, Idle
<1>2. ASSUME NEW v \in Worker, Take(v)
      PROVE  \/ run'[w] = run[w]
             \/ run'[w].pc = "start" /\ jobs[run'[w].job] = "waiting" /\ stalls' = stalls
  <2>1. PICK q \in Payment :
          /\ jobs[q] = "waiting"
          /\ run' = [run EXCEPT ![v] = [Idle EXCEPT !.pc = "start", !.job = q]]
    BY <1>2 DEF Take
  <2>2. run'[v].pc = "start" /\ run'[v].job = q /\ \A u \in Worker : u # v => run'[u] = run[u]
    BY <1>1, <2>1 DEF Idle
  <2>3. stalls' = stalls
    BY <1>2 DEF Take
  <2> QED
    BY <2>1, <2>2, <2>3
<1>3. ASSUME NEW v \in Worker,
             Skip(v) \/ DuplicateMovement(v) \/ Complete(v) \/ Fail(v)
      PROVE  run'[w] = run[w]
  BY <1>1, <1>3 DEF Skip, DuplicateMovement, Complete, Fail, EndJob
<1>4. ASSUME NEW v \in Worker, Move(v) PROVE run'[w] = run[w] \/ Move(w)
  BY <1>4, MoveFacts
<1>5. ASSUME NEW p \in Payment, Deliver(p) \/ RecoverStalled(p) PROVE run' = run
  BY <1>5 DEF Deliver, RecoverStalled
<1>6. ~Crash
  BY <1>1 DEF Crash
<1>7. CASE UNCHANGED core
  BY <1>7 DEF core, tallies
<1> QED
  BY <1>2, <1>3, <1>4, <1>5, <1>6, <1>7, CoreStutter DEF Next, Work, Move

\* How a job ends up completed, or waits.
LEMMA JobOrigins ==
  ASSUME TypeInv, [Next]_vars, NEW p \in Payment
  PROVE  /\ stalls[p] \in Nat /\ stalls'[p] \in Nat /\ stalls'[p] >= stalls[p]
         /\ jobs'[p] \in {"absent", "waiting"} =>
              jobs[p] \in {"absent", "waiting"} \/ stalls'[p] # 0
         /\ jobs'[p] = "completed" =>
              \/ jobs[p] = "completed"
              \/ \E w \in Worker : run[w].job = p /\ (Skip(w) \/ Complete(w))
<1>1. /\ jobs \in [Payment -> JobState] /\ stalls \in [Payment -> Nat]
      /\ run \in [Worker -> Locals]
  BY ConstantsAssumption DEF TypeInv, TypeOK
<1>2. ASSUME NEW q \in Payment, RecoverStalled(q)
      PROVE  /\ stalls'[p] \in Nat /\ stalls'[p] >= stalls[p]
             /\ jobs'[p] = "completed" => jobs[p] = "completed"
             /\ jobs'[p] \in {"absent", "waiting"} =>
                  jobs[p] \in {"absent", "waiting"} \/ stalls'[p] # 0
  BY <1>1, <1>2 DEF RecoverStalled
<1>3. ASSUME ~\E q \in Payment : RecoverStalled(q) PROVE stalls' = stalls
  BY <1>3, CoreStutter DEF Next, Work, Deliver, Crash, Take, Skip, Inspect,
         Unmatched, Mismatch, ApplyPayment, SaveSelect, SaveUpdate, Dispatch,
         FindMovement, SaveMovement, DuplicateMovement, FetchBalances,
         SaveBalances, StoreBalances, Complete, Fail, core
<1>4. ASSUME NEW q \in Payment, Deliver(q)
      PROVE  /\ jobs'[p] \in {"absent", "waiting"} => jobs[p] \in {"absent", "waiting"}
             /\ jobs'[p] = "completed" => jobs[p] = "completed"
  BY <1>1, <1>4 DEF Deliver
<1>5. ASSUME NEW w \in Worker, Take(w)
      PROVE  /\ jobs'[p] \in {"absent", "waiting"} => jobs[p] \in {"absent", "waiting"}
             /\ jobs'[p] = "completed" => jobs[p] = "completed"
  BY <1>1, <1>5 DEF Take
<1>6. ASSUME NEW w \in Worker,
             Skip(w) \/ DuplicateMovement(w) \/ Complete(w) \/ Fail(w)
      PROVE  /\ jobs'[p] \in {"absent", "waiting"} => jobs[p] \in {"absent", "waiting"}
             /\ jobs'[p] = "completed" =>
                  \/ jobs[p] = "completed"
                  \/ run[w].job = p /\ (Skip(w) \/ Complete(w))
  <2>1. PICK outcome \in {"completed", "failed"} :
          EndJob(w, outcome) /\ run[w].pc # "idle"
    BY <1>6 DEF Skip, DuplicateMovement, Complete, Fail
  <2>2. /\ run[w].job \in Payment /\ jobs'[run[w].job] = outcome
        /\ \A q \in Payment : q # run[w].job => jobs'[q] = jobs[q]
    BY <2>1, HandlerEnds
  <2>3. DuplicateMovement(w) \/ Fail(w) => jobs'[run[w].job] = "failed"
    BY <1>1, <2>2 DEF DuplicateMovement, Fail, EndJob
  <2> QED
    BY <1>6, <2>2, <2>3
<1>7. ASSUME NEW w \in Worker, Move(w) PROVE jobs' = jobs
  BY <1>7, MoveFacts
<1>8. CASE Crash \/ UNCHANGED core
  BY <1>1, <1>3, <1>8 DEF Crash, core, tallies
<1>9. /\ stalls[p] \in Nat
      /\ stalls' = stalls => stalls'[p] \in Nat /\ stalls'[p] >= stalls[p]
  BY <1>1
<1> QED
  BY <1>2, <1>3, <1>4, <1>5, <1>6, <1>7, <1>8, <1>9, CoreStutter DEF Next, Work, Move

\* Once a covering payment is added, its order is paid and stays so.
PaysInv ==
  \A p \in Payment : \A o \in Order :
    Alone(p, o) /\ Data[p].amount >= AssetAmount[o] =>
      /\ credits[p] > 0 => orders[o].status = "paid"
      /\ \A w \in Worker :
           run[w].job = p /\ run[w].pc \in {"saveSelect", "saveUpdate"} =>
             /\ run[w].status = "paid"
             /\ \/ run[w].pc = "saveSelect"
                \/ "status" \in run[w].dirty
                \/ orders[o].status = "paid"

\* Nothing is added at first.
LEMMA InitPaysInv == Init => PaysInv
BY DEF Init, PaysInv, Idle

\* Every step keeps such an order paid.
LEMMA NextPaysInv == TypeInv /\ PaysInv /\ [Next]_vars => PaysInv'
<1> SUFFICES ASSUME TypeInv, PaysInv, [Next]_vars,
                    NEW p \in Payment, NEW o \in Order,
                    Alone(p, o), Data[p].amount >= AssetAmount[o]
             PROVE  /\ credits'[p] > 0 => orders'[o].status = "paid"
                    /\ \A w \in Worker :
                         run'[w].job = p /\ run'[w].pc \in {"saveSelect", "saveUpdate"} =>
                           /\ run'[w].status = "paid"
                           /\ \/ run'[w].pc = "saveSelect"
                              \/ "status" \in run'[w].dirty
                              \/ orders'[o].status = "paid"
  BY DEF PaysInv, Alone, Reconcilable
<1> DEFINE Writing(r) ==
             r.job = p /\ r.pc \in {"saveSelect", "saveUpdate"} => r.status = "paid"
           Writes(r, s) ==
             r.job = p /\ r.pc = "saveUpdate" => "status" \in r.dirty \/ s = "paid"
<1>1. /\ run \in [Worker -> Locals] /\ credits[p] \in Nat
      /\ orders \in [Order -> [paidAmount : Nat, status : OrderStatus]]
      /\ credits[p] > 0 => orders[o].status = "paid"
      /\ \A w \in Worker : Writing(run[w]) /\ Writes(run[w], orders[o].status)
  BY DEF TypeInv, TypeOK, PaysInv
<1>2. Data[p].amount \in Nat /\ AssetAmount[o] \in Nat
  BY ConstantsAssumption, DataAssumption DEF DataType
<1>3. ASSUME NEW w \in Worker, SaveUpdate(w), run[w].job = p
      PROVE  orders'[o].status = "paid"
  <2>1. run[w].pc = "saveUpdate"
    BY <1>3 DEF SaveUpdate
  <2>2. run[w].order = o
    BY <1>3, <2>1, LoneHandlers
  <2>3. orders'[o].status = IF "status" \in run[w].dirty THEN run[w].status ELSE orders[o].status
    BY <1>1, <1>3, <2>2 DEF SaveUpdate
  <2> QED
    BY <1>1, <1>3, <2>1, <2>3
<1>4. ASSUME \A w \in Worker : ~(SaveUpdate(w) /\ run[w].job = p)
      PROVE  orders'[o] = orders[o] /\ credits'[p] = credits[p]
  <2>1. CASE \A w \in Worker : run[w].job = p => ~Dispatch(w)
    BY <1>4, <2>1, LoneFrame
  <2>2. ASSUME NEW w \in Worker, Dispatch(w)
        PROVE  orders' = orders /\ credits' = credits
    BY <2>2 DEF Dispatch, history, tallies
  <2> QED
    BY <2>1, <2>2
<1>5. credits'[p] > 0 => orders'[o].status = "paid"
  BY <1>1, <1>3, <1>4
<1>6. orders[o].status = "paid" => orders'[o].status = "paid"
  BY <1>3, <1>4
<1>7. ASSUME NEW w \in Worker, run'[w].job = p, run'[w].pc \in {"saveSelect", "saveUpdate"}
      PROVE  Writing(run'[w]) /\ Writes(run'[w], orders'[o].status)
  <2>1. CASE run'[w] = run[w]
    BY <1>1, <1>6, <2>1
  <2>2. CASE Move(w)
    <3>1. /\ run[w].job = p /\ <<run[w].pc, run'[w].pc>> \in Follows
          /\ run[w] \in Locals
      BY <1>1, <1>7, <2>2, MoveFacts
    <3>2. CASE run'[w].pc = "saveSelect"
      <4>1. run[w].pc = "match"
        BY <3>1, <3>2 DEF Follows
      <4>2. ApplyPayment(w)
        BY <2>2, <3>1, <4>1, ReconcilableMoves
        DEF Alone, Move, Inspect, SaveSelect, SaveUpdate, Dispatch, FindMovement,
            SaveMovement, FetchBalances, SaveBalances, StoreBalances
      <4>3. PICK q \in Data[p].applies :
              run' = [run EXCEPT ![w] =
                [run[w] EXCEPT !.pc = "saveSelect", !.order = q,
                          !.paidAmount = ToFixed6(Total(q, p)),
                          !.sums = holds[q] \cup {p},
                          !.status = StatusFor(q, Total(q, p)),
                          !.wasPaid = (orders[q].status = "paid")]]
        BY <3>1, <4>2 DEF ApplyPayment
      <4>4. q = o
        BY <4>3, ReconcilableFacts DEF Alone
      <4>5. run'[w].status = StatusFor(o, Total(o, p))
        BY <1>1, <3>1, <4>3, <4>4 DEF Locals
      <4>6. Total(o, p) \in Nat /\ Total(o, p) >= AssetAmount[o]
        BY <1>1, <1>2 DEF Total
      <4> QED
        BY <3>2, <4>5, <4>6 DEF StatusFor
    <3>3. CASE run'[w].pc = "saveUpdate"
      <4>1. SaveSelect(w)
        BY <2>2, <3>1, <3>3
        DEF Follows, Move, Inspect, Unmatched, Mismatch, ApplyPayment, SaveSelect,
            SaveUpdate, Dispatch, FindMovement, SaveMovement, FetchBalances, SaveBalances, StoreBalances
      <4>2. run[w].pc = "saveSelect"
        BY <4>1 DEF SaveSelect
      <4>3. run[w].order = o
        BY <3>1, <4>2, LoneHandlers
      <4>4. run' = [run EXCEPT ![w] =
              [run[w] EXCEPT !.pc = "saveUpdate",
                             !.dirty = Differences(run[w], orders[o])]]
        BY <4>1, <4>3 DEF SaveSelect
      <4>5. /\ run'[w].status = run[w].status
            /\ run'[w].dirty = Differences(run[w], orders[o])
        BY <1>1, <3>1, <4>4 DEF Locals
      <4>6. run[w].status = "paid" /\ orders' = orders
        BY <1>1, <3>1, <4>1, <4>2 DEF SaveSelect, store
      <4>7. "status" \in Differences(run[w], orders[o]) \/ orders[o].status = "paid"
        BY <4>6 DEF Differences, Columns
      <4> QED
        BY <3>3, <4>5, <4>6, <4>7
    <3> QED
      BY <1>7, <3>2, <3>3
  <2> QED
    BY <1>7, <2>1, <2>2, HandlerOrigins
<1> QED
  BY <1>5, <1>7

\* While the job of such a payment has not been interrupted, the order is as
\* it was created until the handler's save, and as the payment makes it after.
LoneHandler(r, p, o) ==
  /\ r.pc \in BeforeSaving => Untouched(o)
  /\ r.pc \in {"saveSelect", "saveUpdate"} =>
       /\ r.paidAmount = Whole(p, o).paidAmount /\ r.status = Whole(p, o).status
       /\ ~r.wasPaid
  /\ r.pc = "saveUpdate" => r.dirty = Differences(r, Fresh)
  /\ r.pc = "dispatch" =>
       orders[o] = Whole(p, o) /\ Whole(p, o).status = "paid" /\ ~Announced(o)
  /\ r.pc \in Recording => Done(p, o)

LoneInv ==
  \A p \in Payment : \A o \in Order : Alone(p, o) /\ stalls[p] = 0 =>
    /\ jobs[p] \in {"absent", "waiting"} => Untouched(o)
    /\ jobs[p] = "completed" => Done(p, o)
    /\ \A w \in Worker : run[w].job = p => LoneHandler(run[w], p, o)

\* Nothing is added at first.
LEMMA InitLoneInv == Init => LoneInv
BY DEF Init, LoneInv, LoneHandler, Idle, Untouched, Fresh, Announced, BeforeSaving, Recording

\* What the handler of such a payment does to its order.
LEMMA LoneMoves ==
  ASSUME TypeInv, NEW p \in Payment, NEW o \in Order, Alone(p, o),
         NEW w \in Worker, Move(w), run[w].job = p, LoneHandler(run[w], p, o)
  PROVE  LoneHandler(run[w], p, o)'
<1> DEFINE r == run[w]
           n == run'[w]
<1>1. /\ r \in Locals /\ n \in Locals /\ n.job = p
      /\ <<r.pc, n.pc>> \in Follows /\ run \in [Worker -> Locals]
      /\ orders \in [Order -> [paidAmount : Nat, status : OrderStatus]]
  <2>1. TypeInv' /\ n.job = p /\ <<r.pc, n.pc>> \in Follows
    BY MoveFacts
  <2> QED
    BY <2>1 DEF TypeInv, TypeOK
<1>2. Data[p].amount \in Nat /\ ToFixed6(0) = 0
  BY DataAssumption DEF DataType, ToFixed6
<1>3. Reconcilable(r.job) /\ Data[p].applies = {o}
  BY ReconcilableFacts DEF Alone
<1>4. CASE ~SaveUpdate(w) /\ ~Dispatch(w)
  <2>1. /\ orders'[o] = orders[o] /\ (Announced(o)' <=> Announced(o))
        /\ (ToldOnce(o)' <=> ToldOnce(o))
    <3>1. [Next]_vars
      BY CoreStutter DEF Next, Work, Move
    <3>2. \A v \in Worker : run[v].job = p => v = w
      BY MoveFacts DEF TypeInv, Ownership
    <3> QED
      BY <1>4, <3>1, <3>2, LoneFrame
  <2>2. /\ Untouched(o)' <=> Untouched(o)
        /\ Done(p, o)' <=> Done(p, o)
    BY <2>1 DEF Untouched, Done, Whole
  <2>3. r.pc \notin {"saveUpdate", "dispatch"}
    BY <1>4 DEF Move, Inspect, Unmatched, Mismatch, ApplyPayment, SaveSelect,
         SaveUpdate, Dispatch, FindMovement, SaveMovement, FetchBalances, SaveBalances, StoreBalances
  <2>4. CASE n.pc = "match"
    BY <1>1, <2>2, <2>4 DEF Follows, LoneHandler, BeforeSaving, Recording
  <2>5. CASE n.pc = "saveSelect"
    <3>1. r.pc = "match"
      BY <1>1, <2>5 DEF Follows
    <3>2. ApplyPayment(w)
      BY <1>3, <3>1, ReconcilableMoves
      DEF Move, Inspect, SaveSelect, SaveUpdate, Dispatch, FindMovement,
          SaveMovement, FetchBalances, SaveBalances, StoreBalances
    <3>3. run' = [run EXCEPT ![w] =
            [r EXCEPT !.pc = "saveSelect", !.order = o,
                      !.paidAmount = ToFixed6(Total(o, p)),
                      !.sums = holds[o] \cup {p},
                      !.status = StatusFor(o, Total(o, p)),
                      !.wasPaid = (orders[o].status = "paid")]]
      BY <1>3, <3>2 DEF ApplyPayment
    <3>4. /\ n.paidAmount = ToFixed6(Total(o, p))
          /\ n.status = StatusFor(o, Total(o, p))
          /\ n.wasPaid = (orders[o].status = "paid")
      BY <1>1, <3>3 DEF Locals
    <3>5. Untouched(o)
      BY <3>1 DEF LoneHandler, BeforeSaving
    <3>6. Total(o, p) = Data[p].amount /\ orders[o].status = "pending"
      BY <1>2, <3>5 DEF Untouched, Fresh, Total
    <3>7. n.paidAmount = Whole(p, o).paidAmount /\ n.status = Whole(p, o).status /\ ~n.wasPaid
      BY <3>4, <3>6 DEF Whole
    <3> QED
      BY <2>2, <2>5, <3>5, <3>7 DEF LoneHandler, BeforeSaving, Recording, Whole
  <2>6. CASE n.pc = "saveUpdate"
    <3>1. SaveSelect(w)
      BY <1>1, <2>6
      DEF Follows, Move, Inspect, Unmatched, Mismatch, ApplyPayment, SaveSelect,
          SaveUpdate, Dispatch, FindMovement, SaveMovement, FetchBalances, SaveBalances, StoreBalances
    <3>2. r.pc = "saveSelect"
      BY <3>1 DEF SaveSelect
    <3>3. r.order = o
      BY <3>2, LoneHandlers
    <3>4. Untouched(o) /\ orders[o] = Fresh
      BY <3>2 DEF LoneHandler, BeforeSaving, Untouched
    <3>5. run' = [run EXCEPT ![w] =
            [r EXCEPT !.pc = "saveUpdate", !.dirty = Differences(r, Fresh)]]
      BY <3>1, <3>3, <3>4 DEF SaveSelect
    <3>6. /\ n.paidAmount = r.paidAmount /\ n.status = r.status
          /\ n.wasPaid = r.wasPaid /\ n.dirty = Differences(r, Fresh)
      BY <1>1, <3>5 DEF Locals
    <3>7. Differences(n, Fresh) = Differences(r, Fresh)
      BY <3>6 DEF Differences
    <3>8. r.paidAmount = Whole(p, o).paidAmount /\ r.status = Whole(p, o).status /\ ~r.wasPaid
      BY <3>2 DEF LoneHandler
    <3> QED
      BY <2>2, <2>6, <3>4, <3>6, <3>7, <3>8 DEF LoneHandler, BeforeSaving, Recording, Whole
  <2>7. CASE n.pc \in Recording
    <3>1. r.pc \in Recording
      BY <1>1, <1>3, <2>3, <2>7, ReconcilableMoves DEF Follows, Recording
    <3> QED
      BY <2>2, <2>7, <3>1 DEF LoneHandler, BeforeSaving, Recording
  <2> QED
    BY <1>1, <2>3, <2>4, <2>5, <2>6, <2>7 DEF Follows, Recording
<1>5. CASE SaveUpdate(w)
  <2>1. r.pc = "saveUpdate" /\ outbox' = outbox
    BY <1>5 DEF SaveUpdate
  <2>2. r.order = o
    BY <2>1, LoneHandlers
  <2>3. /\ orders[o] = Fresh /\ ~Announced(o) /\ r.dirty = Differences(r, Fresh)
        /\ r.paidAmount = Whole(p, o).paidAmount /\ r.status = Whole(p, o).status
        /\ ~r.wasPaid
    BY <2>1 DEF LoneHandler, BeforeSaving, Untouched
  <2>4. orders'[o] =
          [paidAmount |-> IF "paidAmount" \in r.dirty THEN r.paidAmount ELSE orders[o].paidAmount,
           status |-> IF "status" \in r.dirty THEN r.status ELSE orders[o].status]
    BY <1>1, <1>5, <2>2 DEF SaveUpdate
  <2>5. /\ "paidAmount" \in r.dirty <=> r.paidAmount # 0
        /\ "status" \in r.dirty <=> r.status # "pending"
    BY <2>3 DEF Differences, Columns, Fresh
  <2>6. orders'[o] = [paidAmount |-> r.paidAmount, status |-> r.status]
    BY <2>3, <2>4, <2>5 DEF Fresh
  <2>7. orders'[o] = Whole(p, o)
    BY <2>3, <2>6 DEF Whole
  <2>8. ~Announced(o)'
    BY <2>1, <2>3 DEF Announced
  <2>9. CASE Announces(r)
    <3>1. n.pc = "dispatch"
      BY <1>1, <1>5, <2>9 DEF SaveUpdate, Idle
    <3>2. Whole(p, o).status = "paid"
      BY <2>3, <2>9 DEF Announces
    <3> QED
      BY <2>7, <2>8, <3>1, <3>2 DEF LoneHandler, BeforeSaving, Recording, Whole
  <2>10. CASE ~Announces(r)
    <3>1. run'[w] = AfterLeg(r, r.order, 0)
      BY <1>1, <1>5, <2>10 DEF SaveUpdate
    <3>2. n.pc \in {"findMovement", "finish"}
      <4>1. r.order \in Order \cup {None} /\ r.job \in Payment
        BY <2>2
      <4> QED
        BY <3>1, <4>1, AfterLegFacts
    <3>3. Whole(p, o).status # "paid"
      BY <2>3, <2>10 DEF Announces
    <3>4. Done(p, o)'
      BY <2>7, <2>8, <3>3 DEF Done, Whole
    <3> QED
      BY <3>2, <3>4 DEF LoneHandler, BeforeSaving
  <2> QED
    BY <2>9, <2>10
<1>6. CASE Dispatch(w)
  <2>1. r.pc = "dispatch" /\ orders' = orders
    BY <1>6 DEF Dispatch
  <2>2. r.order = o
    BY <2>1, LoneHandlers
  <2>3. orders[o] = Whole(p, o) /\ Whole(p, o).status = "paid" /\ ~Announced(o)
    BY <2>1 DEF LoneHandler
  <2>4. ToldOnce(o)'
    BY <1>6, <2>2, <2>3, DispatchTells
  <2>5. Done(p, o)'
    BY <2>1, <2>3, <2>4 DEF Done, Whole
  <2>6. n.pc \in {"findMovement", "finish"}
    BY <1>1, <2>1 DEF Follows
  <2> QED
    BY <2>5, <2>6 DEF LoneHandler, BeforeSaving
<1> QED
  BY <1>4, <1>5, <1>6

\* Every step keeps such an order what its payment makes it.
LEMMA NextLoneInv == TypeInv /\ LoneInv /\ [Next]_vars => LoneInv'
<1> SUFFICES ASSUME TypeInv, LoneInv, [Next]_vars,
                    NEW p \in Payment, NEW o \in Order, Alone(p, o), stalls'[p] = 0
             PROVE  /\ jobs'[p] \in {"absent", "waiting"} => Untouched(o)'
                    /\ jobs'[p] = "completed" => Done(p, o)'
                    /\ \A w \in Worker : run'[w].job = p => LoneHandler(run[w], p, o)'
  BY DEF LoneInv, Alone, Reconcilable
<1>1. stalls[p] = 0
  BY JobOrigins
<1>2. /\ jobs[p] \in {"absent", "waiting"} => Untouched(o)
      /\ jobs[p] = "completed" => Done(p, o)
      /\ \A w \in Worker : run[w].job = p => LoneHandler(run[w], p, o)
  BY <1>1 DEF LoneInv
<1>3. run \in [Worker -> Locals] /\ jobs \in [Payment -> JobState]
  BY DEF TypeInv, TypeOK
<1>4. CASE \E w \in Worker : run[w].job = p /\ (SaveUpdate(w) \/ Dispatch(w))
  <2>1. PICK w \in Worker : run[w].job = p /\ (SaveUpdate(w) \/ Dispatch(w))
    BY <1>4
  <2>2. Move(w)
    BY <2>1 DEF Move
  <2>3. /\ jobs' = jobs /\ run[w].pc # "idle" /\ run'[w].job = p
        /\ \A v \in Worker : v # w => run'[v] = run[v]
    BY <2>1, <2>2, MoveFacts
  <2>4. jobs[p] = "active"
    BY <2>1, <2>3 DEF TypeInv, Ownership
  <2>5. LoneHandler(run[w], p, o)'
    BY <1>2, <2>1, <2>2, LoneMoves
  <2>6. \A v \in Worker : run'[v].job = p => v = w
    BY <2>1, <2>3 DEF TypeInv, Ownership
  <2> QED
    BY <2>3, <2>4, <2>5, <2>6
<1>5. CASE ~\E w \in Worker : run[w].job = p /\ (SaveUpdate(w) \/ Dispatch(w))
  <2>1. /\ orders'[o] = orders[o] /\ (Announced(o)' <=> Announced(o))
        /\ (ToldOnce(o)' <=> ToldOnce(o))
    BY <1>5, LoneFrame
  <2>2. /\ Untouched(o)' <=> Untouched(o)
        /\ Done(p, o)' <=> Done(p, o)
    BY <2>1 DEF Untouched, Done, Whole
  <2>3. jobs'[p] \in {"absent", "waiting"} => Untouched(o)'
    BY <1>2, <2>2, JobOrigins
  <2>4. ASSUME jobs'[p] = "completed" PROVE Done(p, o)'
    <3>1. CASE jobs[p] = "completed"
      BY <1>2, <2>2, <3>1
    <3>2. ASSUME NEW w \in Worker, run[w].job = p, Skip(w) \/ Complete(w)
          PROVE  Done(p, o)
      <4>1. ~Skip(w)
        BY <3>2, ReconcilableFacts DEF Alone, Skip
      <4>2. run[w].pc \in Recording
        BY <3>2, <4>1 DEF Complete, Recording
      <4> QED
        BY <1>2, <3>2, <4>2 DEF LoneHandler
    <3> QED
      BY <2>2, <2>4, <3>1, <3>2, JobOrigins
  <2>5. ASSUME NEW w \in Worker, run'[w].job = p PROVE LoneHandler(run[w], p, o)'
    <3>1. CASE run'[w].pc = "idle"
      BY <3>1 DEF LoneHandler, BeforeSaving, Recording
    <3>2. CASE run'[w] = run[w]
      BY <1>2, <2>2, <2>1, <2>5, <3>2 DEF LoneHandler, Whole, Differences
    <3>3. CASE run'[w].pc = "start" /\ jobs[run'[w].job] = "waiting"
      <4>1. Untouched(o)'
        BY <1>2, <2>2, <2>5, <3>3
      <4> QED
        BY <3>3, <4>1 DEF LoneHandler, Recording
    <3>4. CASE Move(w)
      <4>1. run[w].job = p
        BY <2>5, <3>4, MoveFacts
      <4> QED
        BY <1>2, <3>4, <4>1, LoneMoves
    <3> QED
      BY <3>1, <3>2, <3>3, <3>4, HandlerOrigins
  <2> QED
    BY <2>3, <2>4, <2>5
<1> QED
  BY <1>4, <1>5

\* An order that one payment pays, among any number of others, handlers and
\* crashes: process leaves it paid when the payment covers it, and verifiable when
\* no other order has its reference; and a job that is never interrupted leaves
\* exactly its payment in the row and one webhook in the queue, or none when the
\* payment is too small.
THEOREM LonePaymentsSettle == Spec => []LonePaymentSettles
<1>1. TypeInv /\ CreditedInv /\ PaysInv /\ LoneInv /\ CompletedIsVerifiable
        => LonePaymentSettles
  <2> SUFFICES ASSUME TypeInv, CreditedInv, PaysInv, LoneInv, CompletedIsVerifiable,
                      NEW p \in Payment, NEW o \in Order,
                      jobs[p] = "completed", Alone(p, o)
               PROVE  /\ Data[p].amount >= AssetAmount[o] =>
                           /\ orders[o].status = "paid"
                           /\ Namesakes(o) = {o} => Verifies(o, p)
                      /\ stalls[p] = 0 =>
                           /\ orders[o] = Whole(p, o)
                           /\ Notice(o) = IF Data[p].amount >= AssetAmount[o]
                                          THEN "sent" ELSE "none"
    BY DEF LonePaymentSettles, Whole
  <2>1. ASSUME Data[p].amount >= AssetAmount[o]
        PROVE  orders[o].status = "paid" /\ (Namesakes(o) = {o} => Verifies(o, p))
    <3>1. Reconcilable(p) /\ Data[p].found = {o}
      BY DEF Alone
    <3>2. credits[p] > 0
      BY <3>1 DEF CreditedInv
    <3>3. orders[o].status = "paid"
      BY <2>1, <3>2 DEF PaysInv
    <3> QED
      BY <3>1, <3>3 DEF CompletedIsVerifiable, Unmistakable
  <2>2. ASSUME stalls[p] = 0
        PROVE  /\ orders[o] = Whole(p, o)
               /\ Notice(o) = IF Data[p].amount >= AssetAmount[o] THEN "sent" ELSE "none"
    <3>1. Done(p, o)
      BY <2>2 DEF LoneInv
    <3>2. Data[p].amount \in Nat /\ AssetAmount[o] \in Nat
      BY ConstantsAssumption, DataAssumption DEF DataType
    <3>3. Whole(p, o).status = "paid" <=> Data[p].amount >= AssetAmount[o]
      BY <3>2 DEF Whole, StatusFor
    <3>4. ASSUME NEW w \in Worker, run[w].pc = "dispatch" PROVE run[w].order # o
      <4>1. run[w].job # p
        BY <3>4 DEF TypeInv, Ownership
      <4> QED
        BY <3>4, <4>1, LoneHandlers
    <3>5. CASE Data[p].amount >= AssetAmount[o]
      BY <3>1, <3>3, <3>5 DEF Done, ToldOnce, Notice
    <3>6. CASE ~(Data[p].amount >= AssetAmount[o])
      <4>1. orders[o].status # "paid" /\ ~Announced(o) /\ orders[o] = Whole(p, o)
        BY <3>1, <3>3, <3>6 DEF Done
      <4> QED
        BY <3>4, <3>6, <4>1 DEF Notice, Announced
    <3> QED
      BY <3>1, <3>5, <3>6 DEF Done
  <2> QED
    BY <2>1, <2>2
<1> QED
  BY <1>1, InitCreditedInv, NextCreditedInv, InitPaysInv, NextPaysInv,
     InitLoneInv, NextLoneInv, CompletedJobsAreVerifiable, TypeInvHolds, PTL DEF Spec

-----------------------------------------------------------------------------
(* Why a job fails. *)

\* Another payment of p's transaction owes a movement with the same hash, address
\* and type, and there are workers to handle both at once.
Contended(p) ==
  /\ \E v, w \in Worker : v # w
  /\ \E q \in Payment \ {p} : \E k \in Due(p), l \in Due(q) : Key(p, k) = Key(q, l)

\* A job is found stalled at most once for every crash, and what is active without
\* a handler has lost it in a crash that the stalled check has not counted yet.
FaultsOf(p) ==
  /\ jobs[p] = "failed" => failures > 0 \/ crashes > MaxStalled \/ Contended(p)
  /\ stalls[p] <= crashes
  /\ jobs[p] = "active" => stalls[p] < crashes \/ \E w \in Worker : run[w].job = p

\* The insert of handler r is only rejected for the row of another payment.
InsertSafe(r) ==
  r.pc = "saveMovement" /\ ~r.exists /\ movement[Key(r.job, r.leg)] # None
    => Contended(r.job)

FaultsInv ==
  /\ \A p \in Payment : FaultsOf(p)
  /\ \A w \in Worker : InsertSafe(run[w])

\* At first nothing has failed and no handler works.
LEMMA InitFaultsInv == Init => FaultsInv
BY DEF Init, FaultsInv, FaultsOf, InsertSafe, Idle

\* Handler w writes a movement: a handler v that found none there then works on
\* another payment of the transaction.
LEMMA SavedByAnother ==
  ASSUME TypeInv, FaultsInv, NEW w \in Worker, SaveMovement(w),
         NEW v \in Worker, v # w, run'[v] = run[v]
  PROVE  InsertSafe(run[v])'
<1> DEFINE p == run[v].job
           q == run[w].job
           k == run[v].leg
           l == run[w].leg
<1>1. SUFFICES ASSUME run[v].pc = "saveMovement", ~run[v].exists,
                      movement'[Key(p, k)] # None
               PROVE  Contended(p)
  BY DEF InsertSafe
<1>2. run[w].pc = "saveMovement"
  BY DEF SaveMovement
<1>3. /\ p \in Payment /\ q \in Payment /\ p # q
      /\ k \in Due(p) /\ l \in Due(q)
  BY <1>1, <1>2 DEF TypeInv, TypeOK, LocalsInv, LocalsOK, Locals, Ownership
<1>4. CASE movement[Key(p, k)] # None
  BY <1>1, <1>4 DEF FaultsInv, InsertSafe
<1>5. CASE movement[Key(p, k)] = None
  <2>1. movement' = [movement EXCEPT ![Key(q, l)] = Row(q, l, run[w].order)]
    BY DEF SaveMovement
  <2>2. Key(p, k) \in DOMAIN movement
    BY <1>3, KeyType DEF TypeInv, TypeOK, Due
  <2>3. Key(p, k) = Key(q, l)
    BY <1>1, <1>5, <2>1, <2>2
  <2> QED
    BY <1>3, <2>3 DEF Contended
<1> QED
  BY <1>4, <1>5

\* Every step preserves it.
LEMMA NextFaultsInv == TypeInv /\ FaultsInv /\ [Next]_vars => FaultsInv'
<1> SUFFICES ASSUME TypeInv, FaultsInv, [Next]_vars PROVE FaultsInv'
  OBVIOUS
<1>0. /\ \A w \in Worker : run[w].pc # "idle" => run[w].job \in Payment
      /\ \A w \in Worker : run[w].pc = "idle" => run[w].job = None
      /\ None \notin Payment
      /\ \A p \in Payment : stalls[p] \in Nat
      /\ crashes \in Nat /\ failures \in Nat /\ MaxStalled \in Nat
      /\ Idle.pc = "idle" /\ Idle.job = None
  BY ConstantsAssumption DEF TypeInv, TypeOK, LocalsInv, LocalsOK, Locals, Idle
<1>1. ASSUME NEW p \in Payment, Deliver(p) PROVE FaultsInv'
  <2>1. /\ UNCHANGED <<stalls, run, movement, crashes, failures>>
        /\ jobs'[p] = "waiting"
        /\ \A q \in Payment : q # p => jobs'[q] = jobs[q]
    BY <1>1 DEF Deliver, store, bounds, TypeInv, TypeOK
  <2> QED
    BY <2>1 DEF FaultsInv, FaultsOf, InsertSafe
<1>2. ASSUME NEW p \in Payment, RecoverStalled(p) PROVE FaultsInv'
  <2>1. /\ UNCHANGED <<run, movement, crashes, failures>>
        /\ \A q \in Payment : q # p => jobs'[q] = jobs[q] /\ stalls'[q] = stalls[q]
    BY <1>2 DEF RecoverStalled, store, bounds, TypeInv, TypeOK
  <2>2. stalls[p] < crashes
    BY <1>2 DEF RecoverStalled, FaultsInv, FaultsOf
  <2>3. FaultsOf(p)'
    <3>1. CASE stalls[p] < MaxStalled
      <4>1. stalls'[p] = stalls[p] + 1 /\ jobs'[p] = "waiting"
        BY <1>2, <3>1 DEF RecoverStalled, TypeInv, TypeOK
      <4> QED
        BY <1>0, <2>1, <2>2, <4>1 DEF FaultsOf
    <3>2. CASE ~(stalls[p] < MaxStalled)
      <4>1. stalls'[p] = stalls[p] /\ jobs'[p] = "failed"
        BY <1>2, <3>2 DEF RecoverStalled, TypeInv, TypeOK
      <4>2. crashes > MaxStalled
        BY <1>0, <2>2, <3>2
      <4> QED
        BY <1>0, <2>1, <2>2, <4>1, <4>2 DEF FaultsOf
    <3> QED
      BY <3>1, <3>2
  <2>4. \A q \in Payment : q # p => FaultsOf(q)'
    BY <2>1 DEF FaultsInv, FaultsOf
  <2>5. \A w \in Worker : InsertSafe(run[w])'
    BY <2>1 DEF FaultsInv, InsertSafe
  <2> QED
    BY <2>3, <2>4, <2>5 DEF FaultsInv
<1>3. ASSUME Crash PROVE FaultsInv'
  <2>1. /\ crashes' = crashes + 1 /\ UNCHANGED <<jobs, stalls, failures>>
        /\ \A w \in Worker : run'[w] = Idle
    BY <1>3 DEF Crash
  <2>2. \A p \in Payment : FaultsOf(p)'
    BY <1>0, <2>1 DEF FaultsInv, FaultsOf
  <2>3. \A w \in Worker : InsertSafe(run[w])'
    BY <1>0, <2>1 DEF InsertSafe
  <2> QED
    BY <2>2, <2>3 DEF FaultsInv
<1>4. ASSUME NEW w \in Worker, Take(w) PROVE FaultsInv'
  <2>1. PICK p \in Payment :
          /\ jobs[p] = "waiting"
          /\ jobs' = [jobs EXCEPT ![p] = "active"]
          /\ run' = [run EXCEPT ![w] = [Idle EXCEPT !.pc = "start", !.job = p]]
    BY <1>4 DEF Take
  <2>2. /\ run'[w].job = p /\ run'[w].pc = "start"
        /\ \A v \in Worker : v # w => run'[v] = run[v]
    BY <2>1 DEF TypeInv, TypeOK, Idle
  <2>3. UNCHANGED <<stalls, movement, crashes, failures>> /\ run[w].pc = "idle"
    BY <1>4 DEF Take, store, bounds
  <2>4. jobs'[p] = "active" /\ \A q \in Payment : q # p => jobs'[q] = jobs[q]
    BY <2>1 DEF TypeInv, TypeOK
  <2>5. \A q \in Payment : FaultsOf(q)'
    <3> SUFFICES ASSUME NEW q \in Payment PROVE FaultsOf(q)'
      OBVIOUS
    <3>1. \A v \in Worker : run[v].job = q => run'[v].job = q
      BY <1>0, <2>2, <2>3
    <3>2. FaultsOf(q)
      BY DEF FaultsInv
    <3>3. CASE q = p
      BY <2>2, <2>3, <2>4, <3>2, <3>3 DEF FaultsOf
    <3>4. CASE q # p
      BY <2>3, <2>4, <3>1, <3>2, <3>4 DEF FaultsOf
    <3> QED
      BY <3>3, <3>4
  <2>6. \A v \in Worker : InsertSafe(run[v])'
    BY <2>2, <2>3 DEF FaultsInv, InsertSafe
  <2> QED
    BY <2>5, <2>6 DEF FaultsInv
<1>5. ASSUME NEW w \in Worker,
             Skip(w) \/ DuplicateMovement(w) \/ Complete(w) \/ Fail(w)
      PROVE FaultsInv'
  <2>1. PICK outcome \in {"completed", "failed"} :
          /\ EndJob(w, outcome) /\ run[w].pc # "idle"
          /\ outcome = "failed" => DuplicateMovement(w) \/ Fail(w)
    BY <1>5 DEF Skip, DuplicateMovement, Complete, Fail
  <2>2. /\ UNCHANGED <<stalls, movement, crashes>>
        /\ failures' = failures \/ failures' = failures + 1
        /\ Fail(w) => failures' = failures + 1
    BY <1>5 DEF Skip, DuplicateMovement, Complete, Fail, store, bounds
  <2>3. PICK p \in Payment : p = run[w].job
    BY <1>0, <2>1
  <2>4. /\ jobs'[p] = outcome
        /\ \A q \in Payment : q # p => jobs'[q] = jobs[q]
        /\ run'[w] = Idle /\ \A v \in Worker : v # w => run'[v] = run[v]
    BY <2>1, <2>3, HandlerEnds
  <2>5. DuplicateMovement(w) => Contended(p)
    BY <2>3 DEF DuplicateMovement, FaultsInv, InsertSafe
  <2>6. FaultsOf(p)'
    BY <1>0, <2>1, <2>2, <2>5, <2>4 DEF FaultsInv, FaultsOf
  <2>7. \A q \in Payment : q # p => FaultsOf(q)'
    <3> SUFFICES ASSUME NEW q \in Payment, q # p PROVE FaultsOf(q)'
      OBVIOUS
    <3>1. \A v \in Worker : run[v].job = q => run'[v].job = q
      BY <2>3, <2>4
    <3> QED
      BY <1>0, <2>2, <2>4, <3>1 DEF FaultsInv, FaultsOf
  <2>8. \A v \in Worker : InsertSafe(run[v])'
    BY <1>0, <2>2, <2>4 DEF FaultsInv, InsertSafe
  <2> QED
    BY <2>6, <2>7, <2>8 DEF FaultsInv
<1>6. ASSUME NEW w \in Worker, Move(w) PROVE FaultsInv'
  <2>1. /\ jobs' = jobs /\ stalls' = stalls
        /\ run[w].pc # "idle" /\ run[w].job \in Payment
        /\ run'[w].job = run[w].job
        /\ <<run[w].pc, run'[w].pc>> \in Follows
        /\ \A v \in Worker : v # w => run'[v] = run[v]
    BY <1>6, MoveFacts
  <2>2. UNCHANGED <<crashes, failures>>
    BY <1>6
    DEF Move, Inspect, Unmatched, Mismatch, ApplyPayment, SaveSelect, SaveUpdate,
        Dispatch, FindMovement, SaveMovement, FetchBalances, SaveBalances, StoreBalances, bounds
  <2>3. \A p \in Payment : FaultsOf(p)'
    <3>1. \A v \in Worker : run'[v].job = run[v].job
      BY <2>1
    <3> QED
      BY <2>1, <2>2, <3>1 DEF FaultsInv, FaultsOf
  <2>4. InsertSafe(run[w])'
    <3>1. CASE FindMovement(w)
      <4>1. run'[w] = [run[w] EXCEPT !.pc = "saveMovement",
              !.exists = (movement[Key(run[w].job, run[w].leg)] # None)]
        BY <3>1 DEF FindMovement, TypeInv, TypeOK
      <4>2. /\ run'[w].leg = run[w].leg
            /\ run'[w].exists = (movement[Key(run[w].job, run[w].leg)] # None)
        BY <4>1 DEF TypeInv, TypeOK, Locals
      <4>3. movement' = movement
        BY <3>1 DEF FindMovement, store
      <4> QED
        BY <2>1, <4>2, <4>3 DEF InsertSafe
    <3>2. CASE ~FindMovement(w)
      <4>1. run[w].pc # "findMovement"
        BY <1>6, <3>2
        DEF Move, Inspect, Unmatched, Mismatch, ApplyPayment, SaveSelect, SaveUpdate,
            Dispatch, SaveMovement, FetchBalances, SaveBalances, StoreBalances
      <4>2. run'[w].pc # "saveMovement"
        BY <2>1, <4>1 DEF Follows
      <4> QED
        BY <4>2 DEF InsertSafe
    <3> QED
      BY <3>1, <3>2
  <2>5. \A v \in Worker : v # w => InsertSafe(run[v])'
    <3>1. CASE SaveMovement(w)
      BY <2>1, <3>1, SavedByAnother
    <3>2. CASE ~SaveMovement(w)
      <4>1. movement' = movement
        BY <1>6, <3>2
        DEF Move, Inspect, Unmatched, Mismatch, ApplyPayment, SaveSelect, SaveUpdate,
            Dispatch, FindMovement, FetchBalances, SaveBalances, StoreBalances, store
      <4> QED
        BY <2>1, <4>1 DEF FaultsInv, InsertSafe
    <3> QED
      BY <3>1, <3>2
  <2> QED
    BY <2>3, <2>4, <2>5 DEF FaultsInv
<1>7. CASE UNCHANGED core
  BY <1>7 DEF core, tallies, FaultsInv, FaultsOf, InsertSafe
<1> QED
  BY <1>1, <1>2, <1>3, <1>4, <1>5, <1>6, <1>7, CoreStutter DEF Next, Work, Move

\* A job of process fails only for a reason: an await threw, the process died more
\* often than BullMQ reruns a job, or two handlers inserted the same movement of one
\* transaction at once (recordConfirmedMovement looks first and inserts later). A
\* lone handler, a payment that is the only one of its transaction, and a job rerun
\* after a crash never run into the unique index.
THEOREM JobsFailForAReason ==
  Spec => [](\A p \in Payment :
               jobs[p] = "failed" =>
                 failures > 0 \/ crashes > MaxStalled \/ Contended(p))
<1>1. FaultsInv => \A p \in Payment :
        jobs[p] = "failed" => failures > 0 \/ crashes > MaxStalled \/ Contended(p)
  BY DEF FaultsInv, FaultsOf
<1> QED
  BY <1>1, InitFaultsInv, NextFaultsInv, TypeInvHolds, PTL DEF Spec

=============================================================================
