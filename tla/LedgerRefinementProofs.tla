----------------------- MODULE LedgerRefinementProofs -----------------------
(***************************************************************************)
(* The workers of PaymentProcessing implement OrderLedger when they run    *)
(* one at a time and the process does not die: every step is one of the    *)
(* ledger or changes nothing it knows. The invariants say that no job is   *)
(* rerun and that a handler's entity is fresh when it is saved.            *)
(***************************************************************************)
EXTENDS FreshCopyProofs

\* Without a crash no job is found stalled: a handler has each active one.
UnstalledInv ==
  /\ \A p \in Payment : stalls[p] = 0
  /\ \A p \in Payment : jobs[p] = "active" => \E w \in Worker : run[w].job = p

LEMMA InitUnstalledInv == Init => UnstalledInv
BY DEF Init, UnstalledInv

LEMMA NextUnstalledInv ==
  ASSUME MaxCrashes = 0
  PROVE  TypeInv /\ UnstalledInv /\ [Next]_vars => UnstalledInv'
<1> SUFFICES ASSUME TypeInv, UnstalledInv, [Next]_vars PROVE UnstalledInv'
  OBVIOUS
<1> USE DEF TypeInv
<1>1. ASSUME NEW p \in Payment, Deliver(p) PROVE UnstalledInv'
  BY <1>1 DEF Deliver, UnstalledInv, TypeOK
<1>2. ASSUME NEW p \in Payment PROVE ~RecoverStalled(p)
  BY DEF RecoverStalled, UnstalledInv
<1>3. ~Crash
  BY DEF Crash, TypeOK
<1>4. ASSUME NEW w \in Worker, Take(w) PROVE UnstalledInv'
  <2>1. PICK p \in Payment :
          /\ jobs' = [jobs EXCEPT ![p] = "active"]
          /\ run' = [run EXCEPT ![w] = [Idle EXCEPT !.pc = "start", !.job = p]]
          /\ run[w].pc = "idle" /\ stalls' = stalls
    BY <1>4 DEF Take
  <2>2. run'[w].job = p /\ \A v \in Worker \ {w} : run'[v] = run[v]
    BY <2>1 DEF TypeOK, Idle
  <2>3. run[w].job \notin Payment
    BY <2>1, ConstantsAssumption DEF LocalsInv, LocalsOK
  <2> QED
    BY <2>1, <2>2, <2>3 DEF UnstalledInv, TypeOK
<1>5. ASSUME NEW w \in Worker,
             Skip(w) \/ DuplicateMovement(w) \/ Complete(w) \/ Fail(w)
      PROVE  UnstalledInv'
  <2>1. PICK outcome \in {"completed", "failed"} :
          EndJob(w, outcome) /\ run[w].pc # "idle" /\ stalls' = stalls
    BY <1>5 DEF Skip, DuplicateMovement, Complete, Fail
  <2>2. /\ jobs'[run[w].job] = outcome
        /\ \A p \in Payment : p # run[w].job => jobs'[p] = jobs[p]
        /\ \A v \in Worker : v # w => run'[v] = run[v]
    BY <2>1, HandlerEnds
  <2> QED
    BY <2>1, <2>2 DEF UnstalledInv
<1>6. ASSUME NEW w \in Worker, Move(w) PROVE UnstalledInv'
  BY <1>6, MoveFacts DEF UnstalledInv
<1>7. CASE UNCHANGED core
  BY <1>7 DEF core, UnstalledInv
<1> QED
  BY <1>1, <1>2, <1>3, <1>4, <1>5, <1>6, <1>7, CoreStutter DEF Next, Work, Move

\* The inductive invariant of the refinement.
RefinementInv == TypeInv /\ CreditsInv /\ FreshInv /\ NoStaleCopy /\ UnstalledInv

-----------------------------------------------------------------------------
(* The mapping. *)

\* What became of an order's announcement; it is never repeated.
NoticeFacts ==
  \A o \in Order :
    Notice(o) = IF Announced(o) THEN "sent"
                ELSE IF InDispatch(o) THEN "due"
                ELSE IF orders[o].status = "paid" THEN "lost" ELSE "none"

LEMMA NoticeHolds == FreshInv /\ NoStaleCopy => NoticeFacts
<1> SUFFICES ASSUME FreshInv, NoStaleCopy PROVE NoticeFacts
  OBVIOUS
<1>1. \A o \in Order : \A i, j \in DOMAIN outbox :
        outbox[i].order = o /\ outbox[j].order = o => i = j
  BY DEF FreshInv, NoStaleCopy, AnnouncedStaysPaid
<1> QED
  BY <1>1 DEF NoticeFacts, Notice, InDispatch

LEMMA NoticeHoldsNext == FreshInv' /\ NoStaleCopy' => NoticeFacts'
BY NoticeHolds, PTL

\* toFixed(6) gives a neighbour with six decimals.
LEMMA ToFixed6IsSixDecimals ==
  ASSUME NEW x \in Nat
  PROVE  ToFixed6(x) \in Ledger!SixDecimals(x)
<1>1. (x + 5) \div 10 = x \div 10 \/ (x + 5) \div 10 = x \div 10 + 1
  OBVIOUS
<1>2. x \div 10 \in Nat
  OBVIOUS
<1>3. ToFixed6(x) = 10 * (x \div 10) \/ ToFixed6(x) = 10 * (x \div 10) + 10
  BY <1>1, <1>2 DEF ToFixed6
<1> QED
  BY <1>3, ToFixed6Bound DEF Ledger!SixDecimals

LEMMA InitImplements == Init => Ledger!Init
<1> SUFFICES ASSUME Init PROVE Ledger!Init
  OBVIOUS
<1>1. {p \in Payment : credits[p] > 0} = {}
  BY DEF Init
<1>2. \A o \in Order : Notice(o) = "none"
  BY InitFreshInv, InitNoStaleCopy, NoticeHolds DEF NoticeFacts, Init, Announced, InDispatch, Idle
<1> QED
  BY <1>1, <1>2 DEF Init, Ledger!Init

-----------------------------------------------------------------------------
(* The steps. *)

\* What the mapping depends on: besides orders, outbox and credits only whether a
\* handler is about to announce an order.
LEMMA NoticeUnchanged ==
  ASSUME NoticeFacts, NoticeFacts', UNCHANGED <<orders, outbox>>,
         NEW o \in Order, InDispatch(o)' <=> InDispatch(o)
  PROVE  Notice(o)' = Notice(o)
<1>1. Announced(o)' <=> Announced(o)
  BY DEF Announced
<1> QED
  BY <1>1 DEF NoticeFacts

\* Steps without an order in hand: at most an announcement is given up.
LEMMA QuietImplements ==
  ASSUME OneWorker, TypeInv, FreshInv, NoStaleCopy, NoticeFacts, NoticeFacts',
         [Next]_vars, \A w \in Worker : ~OrderStep(w)
  PROVE  [Ledger!Next]_(Ledger!vars)
<1>1. /\ UNCHANGED <<orders, outbox, receipts, credits>>
      /\ \A w \in Worker : run'[w] = run[w] \/ run'[w].pc # "dispatch"
  BY QuietSteps DEF tallies
<1>2. \A o \in Order : InDispatch(o)' => InDispatch(o)
  BY <1>1 DEF InDispatch
<1>3. CASE \A o \in Order : InDispatch(o)' <=> InDispatch(o)
  <2>1. \A o \in Order : Notice(o)' = Notice(o)
    BY <1>1, <1>3, NoticeUnchanged
  <2> QED
    BY <1>1, <2>1 DEF Ledger!vars
<1>4. ASSUME NEW o \in Order, InDispatch(o), ~InDispatch(o)'
      PROVE  Ledger!Lose(o)
  <2>1. PICK w \in Worker : run[w].pc = "dispatch" /\ run[w].order = o
    BY <1>4 DEF InDispatch
  <2>2. orders[o].status = "paid" /\ ~Announced(o)
    BY <2>1 DEF FreshInv, OneAnnouncer, NoStaleCopy
  <2>3. ~Announced(o)' /\ orders'[o].status = "paid"
    BY <1>1, <2>2 DEF Announced
  <2>4. Notice(o) = "due" /\ Notice(o)' = "lost"
    BY <1>4, <2>2, <2>3 DEF NoticeFacts
  <2>5. ASSUME NEW q \in Order, q # o PROVE Notice(q)' = Notice(q)
    <3>1. InDispatch(q)' <=> InDispatch(q)
      BY <1>2, <2>1, <2>5 DEF InDispatch, OneWorker
    <3> QED
      BY <1>1, <3>1, NoticeUnchanged
  <2>6. [q \in Order |-> Notice(q)]' = [[q \in Order |-> Notice(q)] EXCEPT ![o] = "lost"]
    BY <2>4, <2>5
  <2> QED
    BY <1>1, <2>4, <2>6 DEF Ledger!Lose
<1> QED
  BY <1>2, <1>3, <1>4 DEF Ledger!Next

\* Reading the order and comparing it with its row changes nothing yet.
LEMMA ReadingImplements ==
  ASSUME OneWorker, TypeInv, NoticeFacts, NoticeFacts', NEW w \in Worker,
         ApplyPayment(w) \/ SaveSelect(w)
  PROVE  UNCHANGED Ledger!vars
<1>1. UNCHANGED <<orders, outbox, credits>>
  BY DEF ApplyPayment, SaveSelect, store, history, tallies
<1>2. run[w].pc # "dispatch" /\ run'[w].pc # "dispatch"
  BY OrderStepFacts DEF OrderStep, ApplyPayment, SaveSelect, Follows
<1>3. \A o \in Order : ~InDispatch(o) /\ ~InDispatch(o)'
  BY <1>2 DEF InDispatch, OneWorker
<1>4. \A o \in Order : Notice(o)' = Notice(o)
  BY <1>1, <1>3, NoticeUnchanged
<1> QED
  BY <1>1, <1>4 DEF Ledger!vars

\* Saving the order adds the payment, and makes the announcement due when it is
\* this payment that makes the order paid.
LEMMA UpdateImplements ==
  ASSUME OneWorker, RefinementInv, NoticeFacts, NoticeFacts', NEW w \in Worker,
         SaveUpdate(w)
  PROVE  \E o \in Order : \E p \in Payment : Ledger!Apply(p, o)
<1> USE DEF RefinementInv
<1> DEFINE r == run[w]
<1>1. PICK o \in Order, p \in Payment : o = r.order /\ p = r.job
  BY OrderStepFacts DEF OrderStep, SaveUpdate, LocalsOK
<1>2. PICK total \in Nat : total = Total(o, p)
  BY <1>1, AmountTypes
<1>3. /\ o \in Data[p].applies /\ r.pc = "saveUpdate"
      /\ orders' = [orders EXCEPT ![o] =
           [paidAmount |-> ToFixed6(total), status |-> StatusFor(o, total)]]
      /\ r.status = StatusFor(o, total) /\ r.wasPaid = (orders[o].status = "paid")
  BY <1>1, <1>2, SavedWhole
     DEF FreshInv, HandlersFresh, NoStaleCopy, SaveUpdate, EntityFresh, Saving
<1>4. total = orders[o].paidAmount + Data[p].amount
  BY <1>2 DEF Total
<1>5. credits[p] = 0 /\ credits' = [credits EXCEPT ![p] = 1]
  <2>1. credits[p] \in Nat /\ credits[p] <= 0
    BY <1>1, <1>3 DEF CreditsInv, BeforeSaving, UnstalledInv, TypeInv, TypeOK
  <2>2. credits[p] = 0
    BY <2>1
  <2>3. credits' = [credits EXCEPT ![p] = credits[p] + 1]
    BY <1>1 DEF SaveUpdate
  <2>4. credits[p] + 1 = 1
    BY <2>2
  <2> QED
    BY <2>2, <2>3, <2>4
<1>6. {q \in Payment : credits'[q] > 0} = {q \in Payment : credits[q] > 0} \cup {p}
  BY <1>5 DEF TypeInv, TypeOK
<1>7. /\ orders'[o].status = "paid" <=> total >= AssetAmount[o]
      /\ \A q \in Order \ {o} : orders'[q] = orders[q]
  BY <1>3 DEF StatusFor, TypeInv, TypeOK
<1>8. orders[o].status = "paid" => total >= AssetAmount[o]
  BY <1>1, <1>2, AmountTypes DEF FreshInv, NoStaleCopy, PaidIsReached
<1>9. outbox' = outbox /\ \A q \in Order : Announced(q)' <=> Announced(q)
  BY DEF SaveUpdate, Announced
<1>10. \A q \in Order : ~InDispatch(q)
  BY <1>3 DEF InDispatch, OneWorker
<1>11. \A q \in Order :
         InDispatch(q)' <=> q = o /\ total >= AssetAmount[o] /\ orders[o].status # "paid"
  <2>1. Announces(r) <=> total >= AssetAmount[o] /\ orders[o].status # "paid"
    <3>1. r.status = "paid" <=> total >= AssetAmount[o]
      BY <1>3 DEF StatusFor
    <3>2. r.wasPaid <=> orders[o].status = "paid"
      BY <1>3
    <3> QED
      BY <3>1, <3>2 DEF Announces
  <2> QED
    BY <1>1, <2>1, AfterSave DEF InDispatch, OneWorker
<1>12. Notice(o) = "none" <=> orders[o].status # "paid"
  BY <1>10 DEF NoticeFacts, FreshInv, NoStaleCopy, AnnouncedStaysPaid
<1>13. ASSUME NEW q \in Order, q # o PROVE Notice(q)' = Notice(q)
  BY <1>7, <1>9, <1>10, <1>11, <1>13 DEF NoticeFacts
<1>14. /\ p \notin {q \in Payment : credits[q] > 0}
       /\ o \in [q \in Payment |-> Data[q].applies][p]
       /\ orders[o].paidAmount + [q \in Payment |-> Data[q].amount][p] = total
       /\ \E amount \in Ledger!SixDecimals(total) :
            orders' = [orders EXCEPT ![o] =
              [paidAmount |-> amount,
               status |-> IF total >= AssetAmount[o] THEN "paid" ELSE "partial_paid"]]
  <2>1. ToFixed6(total) \in Ledger!SixDecimals(total)
    BY ToFixed6IsSixDecimals
  <2>2. orders' = [orders EXCEPT ![o] =
          [paidAmount |-> ToFixed6(total),
           status |-> IF total >= AssetAmount[o] THEN "paid" ELSE "partial_paid"]]
    BY <1>3 DEF StatusFor
  <2>3. \E amount \in Ledger!SixDecimals(total) :
          orders' = [orders EXCEPT ![o] =
            [paidAmount |-> amount,
             status |-> IF total >= AssetAmount[o] THEN "paid" ELSE "partial_paid"]]
    <3> HIDE DEF r
    <3> QED
      BY <2>1, <2>2, Zenon
  <2>4. orders[o].paidAmount + [q \in Payment |-> Data[q].amount][p] = total
    BY <1>4
  <2>5. p \notin {q \in Payment : credits[q] > 0}
    BY <1>5
  <2>6. o \in [q \in Payment |-> Data[q].applies][p]
    BY <1>3
  <2> QED
    BY <2>3, <2>4, <2>5, <2>6, Zenon
<1>15. CASE total >= AssetAmount[o] /\ orders[o].status # "paid"
  <2>1. ~Announced(o)'
    BY <1>9, <1>15 DEF FreshInv, NoStaleCopy, AnnouncedStaysPaid
  <2>2. Notice(o)' = "due"
    BY <1>11, <1>15, <2>1 DEF NoticeFacts
  <2>3. [q \in Order |-> Notice(q)]' = [[q \in Order |-> Notice(q)] EXCEPT ![o] = "due"]
    BY <1>13, <2>2
  <2>4. Ledger!BecomesDue(o, total)
    BY <1>12, <1>15 DEF Ledger!BecomesDue
  <2> QED
    BY <1>6, <1>14, <2>3, <2>4 DEF Ledger!Apply
<1>16. CASE ~(total >= AssetAmount[o] /\ orders[o].status # "paid")
  <2>1. orders'[o].status = "paid" <=> orders[o].status = "paid"
    BY <1>7, <1>8, <1>16
  <2>2. Notice(o)' = Notice(o)
    BY <1>9, <1>10, <1>11, <1>16, <2>1 DEF NoticeFacts
  <2>3. [q \in Order |-> Notice(q)]' = [q \in Order |-> Notice(q)]
    BY <1>13, <2>2
  <2>4. ~Ledger!BecomesDue(o, total)
    BY <1>12, <1>16 DEF Ledger!BecomesDue
  <2> QED
    BY <1>6, <1>14, <2>3, <2>4 DEF Ledger!Apply
<1> QED
  BY <1>15, <1>16

\* The webhook job is added: the order is announced.
LEMMA DispatchImplements ==
  ASSUME OneWorker, TypeInv, FreshInv, NoStaleCopy, NoticeFacts, NoticeFacts',
         NEW w \in Worker, Dispatch(w)
  PROVE  \E o \in Order : Ledger!Announce(o)
<1>1. PICK o \in Order : o = run[w].order /\ run[w].pc = "dispatch"
  BY Announcing DEF Dispatch
<1>2. UNCHANGED <<orders, credits>>
  BY DEF Dispatch, history, tallies
<1>3. ~Announced(o) /\ \A q \in Order : Announced(q)' <=> Announced(q) \/ q = o
  BY <1>1, Announcing DEF FreshInv, OneAnnouncer, NoStaleCopy
<1>4. /\ \A q \in Order : InDispatch(q) <=> q = o
      /\ \A q \in Order : ~InDispatch(q)'
  <2>1. run'[w].pc # "dispatch"
    BY <1>1, OrderStepFacts DEF OrderStep, Follows
  <2> QED
    BY <1>1, <2>1 DEF InDispatch, OneWorker
<1>5. Notice(o) = "due" /\ Notice(o)' = "sent"
  BY <1>3, <1>4 DEF NoticeFacts
<1>6. \A q \in Order \ {o} : Notice(q)' = Notice(q)
  BY <1>2, <1>3, <1>4 DEF NoticeFacts
<1>7. [q \in Order |-> Notice(q)]' = [[q \in Order |-> Notice(q)] EXCEPT ![o] = "sent"]
  BY <1>5, <1>6
<1> QED
  BY <1>2, <1>5, <1>7 DEF Ledger!Announce

\* With one handler at a time and no crash, the workers implement the ledger: each
\* payment is added once, paid is final, and each paid order is announced once or
\* its announcement is lost through an error.
THEOREM WorkersImplementLedger ==
  ASSUME OneWorker, MaxCrashes = 0
  PROVE  Spec => Ledger!Safety
<1>1. Init => RefinementInv /\ Ledger!Init
  BY InitTypeInv, InitCreditsInv, InitFreshInv, InitNoStaleCopy, InitUnstalledInv,
     InitImplements
     DEF RefinementInv
<1>2. RefinementInv /\ [Next]_vars => RefinementInv'
  BY NextTypeInv, NextCreditsInv, NextFreshInv, NextNoStaleCopy, NextUnstalledInv
     DEF RefinementInv
<1>3. RefinementInv /\ [Next]_vars => [Ledger!Next]_(Ledger!vars)
  <2> SUFFICES ASSUME RefinementInv, [Next]_vars PROVE [Ledger!Next]_(Ledger!vars)
    OBVIOUS
  <2>1. NoticeFacts /\ NoticeFacts'
    BY <1>2, NoticeHolds, NoticeHoldsNext DEF RefinementInv
  <2>2. CASE \A w \in Worker : ~OrderStep(w)
    BY <2>1, <2>2, QuietImplements DEF RefinementInv
  <2>3. ASSUME NEW w \in Worker, OrderStep(w) PROVE [Ledger!Next]_(Ledger!vars)
    BY <2>1, <2>3, ReadingImplements, UpdateImplements, DispatchImplements
       DEF RefinementInv, OrderStep, Ledger!Next
  <2> QED
    BY <2>2, <2>3
<1> QED
  BY <1>1, <1>2, <1>3, PTL DEF Spec, Ledger!Safety

=============================================================================
