------------------------- MODULE OrderLedgerProofs -------------------------
(***************************************************************************)
(* What the abstract ledger promises, proved: an order is paid exactly     *)
(* when it has an announcement. The point is that rounding to six decimals *)
(* never takes a paid order back below its amount, because amounts have    *)
(* six decimals themselves.                                                *)
(***************************************************************************)
EXTENDS OrderLedger, TLAPS

\* The range of the ledger.
LedgerTypeOK ==
  /\ ledger \in [Order -> [paidAmount : Nat, status : {"pending", "partial_paid", "paid"}]]
  /\ notice \in [Order -> {"none", "due", "sent", "lost"}]

\* A paid order's amount has been reached, as rounded.
PaidIsReached ==
  \A o \in Order : ledger[o].status = "paid" => ledger[o].paidAmount >= AssetAmount[o]

LedgerInv == LedgerTypeOK /\ PaidIsReached /\ NoticeFollowsStatus

\* Rounding a sum to a neighbour with six decimals stays above every amount
\* with six decimals that the sum is above.
LEMMA RoundingKeepsReached ==
  ASSUME NEW x \in Nat, NEW a \in Nat, a % 10 = 0, x >= a, NEW y \in SixDecimals(x)
  PROVE  y \in Nat /\ y >= a
<1>1. a = 10 * (a \div 10) /\ a \div 10 \in Nat
  OBVIOUS
<1>2. x \div 10 \in Nat /\ x \div 10 >= a \div 10
  OBVIOUS
<1>3. y = 10 * (x \div 10) \/ y = 10 * (x \div 10) + 10
  BY DEF SixDecimals
<1> QED
  BY <1>1, <1>2, <1>3

\* Rounding gives a number.
LEMMA RoundingType ==
  ASSUME NEW x \in Nat, NEW y \in SixDecimals(x)
  PROVE  y \in Nat
BY DEF SixDecimals

\* At first no order is paid and none has a notice.
LEMMA InitLedgerInv == LedgerAssumption /\ Init => LedgerInv
BY DEF LedgerAssumption, Init, LedgerInv, LedgerTypeOK, PaidIsReached, NoticeFollowsStatus

\* Every step keeps notice and status together.
LEMMA NextLedgerInv == LedgerAssumption /\ LedgerInv /\ [Next]_vars => LedgerInv'
<1> SUFFICES ASSUME LedgerAssumption, LedgerInv, [Next]_vars PROVE LedgerInv'
  OBVIOUS
<1>1. ASSUME NEW o \in Order, NEW p \in Payment, Apply(p, o) PROVE LedgerInv'
  <2> DEFINE total == ledger[o].paidAmount + Amount[p]
  <2>1. /\ total \in Nat /\ total >= ledger[o].paidAmount
        /\ AssetAmount[o] \in Nat /\ AssetAmount[o] % 10 = 0
    BY DEF LedgerAssumption, LedgerInv, LedgerTypeOK
  <2>2. PICK amount \in SixDecimals(total) :
          ledger' = [ledger EXCEPT ![o] =
            [paidAmount |-> amount,
             status |-> IF total >= AssetAmount[o] THEN "paid" ELSE "partial_paid"]]
    BY <1>1 DEF Apply
  <2>3. amount \in Nat /\ (total >= AssetAmount[o] => amount >= AssetAmount[o])
    BY <2>1, RoundingType, RoundingKeepsReached
  <2>4. ledger[o].status = "paid" => total >= AssetAmount[o]
    BY <2>1 DEF LedgerInv, LedgerTypeOK, PaidIsReached
  <2>5. notice' = IF total >= AssetAmount[o] /\ notice[o] = "none"
                  THEN [notice EXCEPT ![o] = "due"] ELSE notice
    BY <1>1 DEF Apply, BecomesDue
  <2> HIDE DEF total
  <2>6. /\ ledger'[o].paidAmount = amount
        /\ ledger'[o].status = "paid" <=> total >= AssetAmount[o]
        /\ ledger' \in [Order -> [paidAmount : Nat,
                                  status : {"pending", "partial_paid", "paid"}]]
        /\ \A q \in Order \ {o} : ledger'[q] = ledger[q]
    BY <2>2, <2>3 DEF LedgerInv, LedgerTypeOK
  <2>7. /\ notice' \in [Order -> {"none", "due", "sent", "lost"}]
        /\ notice'[o] # "none" <=> total >= AssetAmount[o] \/ notice[o] # "none"
        /\ \A q \in Order \ {o} : notice'[q] = notice[q]
    BY <2>5 DEF LedgerInv, LedgerTypeOK
  <2>8. PaidIsReached'
    BY <2>3, <2>6 DEF LedgerInv, PaidIsReached
  <2>9. NoticeFollowsStatus'
    BY <2>4, <2>6, <2>7 DEF LedgerInv, NoticeFollowsStatus
  <2> QED
    BY <2>6, <2>7, <2>8, <2>9 DEF LedgerInv, LedgerTypeOK
<1>2. ASSUME NEW o \in Order, Announce(o) \/ Lose(o) PROVE LedgerInv'
  BY <1>2 DEF Announce, Lose, LedgerInv, LedgerTypeOK, PaidIsReached, NoticeFollowsStatus
<1>3. CASE UNCHANGED vars
  BY <1>3 DEF vars, LedgerInv, LedgerTypeOK, PaidIsReached, NoticeFollowsStatus
<1> QED
  BY <1>1, <1>2, <1>3 DEF Next

\* An order of the ledger is paid exactly when its announcement is due, sent
\* or lost: paid is final, and announced once. OrderService.applyIncomingPayment
\* implements this ledger with one worker and no crash.
THEOREM NoticeAlwaysFollowsStatus ==
  ASSUME LedgerAssumption PROVE Spec => []NoticeFollowsStatus
<1>1. LedgerInv => NoticeFollowsStatus
  BY DEF LedgerInv
<1> QED
  BY <1>1, InitLedgerInv, NextLedgerInv, PTL DEF Spec, Safety

=============================================================================
