---------------------------- MODULE OrderLedger ----------------------------
(***************************************************************************)
(* What crediting orders promises, without queue, handlers or columns:     *)
(* each payment is added to one order it applies to, once; the amount kept *)
(* has six decimals and is within half a unit of the sum; an order becomes *)
(* paid when the amount is reached, stays paid, and its announcement is    *)
(* due from then on, sent once or lost through an error.                   *)
(***************************************************************************)
EXTENDS Naturals

CONSTANTS Payment, Order, Amount, Applies, AssetAmount

\* Assumed wherever the ledger is used.
LedgerAssumption ==
  /\ Amount \in [Payment -> Nat]
  /\ Applies \in [Payment -> SUBSET Order]
  /\ AssetAmount \in [Order -> Nat]
  /\ \A o \in Order : AssetAmount[o] % 10 = 0

VARIABLES
  ledger,   \* paid amount and status of each order
  applied,  \* the payments added so far
  notice    \* what became of each order's announcement

vars == <<ledger, applied, notice>>

Init ==
  /\ ledger = [o \in Order |-> [paidAmount |-> 0, status |-> "pending"]]
  /\ applied = {}
  /\ notice = [o \in Order |-> "none"]

\* Amounts with six decimals next to x.
SixDecimals(x) ==
  {y \in {10 * (x \div 10), 10 * (x \div 10) + 10} : y <= x + 5 /\ x <= y + 5}

BecomesDue(o, total) == total >= AssetAmount[o] /\ notice[o] = "none"

Apply(p, o) ==
  LET total == ledger[o].paidAmount + Amount[p] IN
  /\ p \notin applied
  /\ o \in Applies[p]
  /\ applied' = applied \cup {p}
  /\ \E amount \in SixDecimals(total) :
       ledger' = [ledger EXCEPT ![o] =
         [paidAmount |-> amount,
          status |-> IF total >= AssetAmount[o] THEN "paid" ELSE "partial_paid"]]
  /\ notice' = IF BecomesDue(o, total)
               THEN [notice EXCEPT ![o] = "due"]
               ELSE notice

Announce(o) ==
  /\ notice[o] = "due"
  /\ notice' = [notice EXCEPT ![o] = "sent"]
  /\ UNCHANGED <<ledger, applied>>

\* The announcement fails, and nobody makes up for it.
Lose(o) ==
  /\ notice[o] = "due"
  /\ notice' = [notice EXCEPT ![o] = "lost"]
  /\ UNCHANGED <<ledger, applied>>

Next ==
  \E o \in Order : \/ \E p \in Payment : Apply(p, o)
                   \/ Announce(o)
                   \/ Lose(o)

Safety == Init /\ [][Next]_vars

Spec ==
  /\ Safety
  /\ \A o \in Order : WF_vars(Announce(o) \/ Lose(o))

\* The notice follows the status: a paid order's announcement is due, sent or
\* lost, and no other order has one. So a paid order never turns unpaid, whatever
\* the rounding does, and no order is announced before it is paid.
NoticeFollowsStatus ==
  \A o \in Order : ledger[o].status = "paid" <=> notice[o] # "none"

=============================================================================
