------------------------ MODULE MCPaymentProcessing ------------------------
(***************************************************************************)
(* Instances of PaymentProcessing for TLC. alice has a wallet, bob is an   *)
(* outsider, platform is STELLAR_PUBLIC_KEY. Amounts are chosen so that no *)
(* single payment but several together pay order o1, and so that roundings *)
(* at the sixth decimal happen.                                            *)
(***************************************************************************)
EXTENDS PaymentProcessing, FiniteSetsExt

MCHash    == {"h1", "h2", "h3", "h4"}
MCAddress == {"alice", "bob", "platform"}
MCWallet  == {"alice"}

MCOrder == {"o1", "o2", "o3"}

OneAssetAmount == [o \in {"o1"} |-> 20]

\* o2 stands for a virtual-account order, which is created with amount 0.
MCAssetAmount == [o \in MCOrder |-> IF o = "o2" THEN 0 ELSE 20]

\* Two services have an order under one reference.
MCReference    == [o \in MCOrder |-> IF o = "o1" THEN "r1" ELSE "r2"]
CrashReference == [o \in MCOrder |-> IF o = "o2" THEN "r2" ELSE "r1"]
OneReference == [o \in {"o1"} |-> "r1"]

ToPlatform(hash, from, amount, found, applies) ==
  [hash |-> hash, amount |-> amount, from |-> from, to |-> "platform",
   found |-> found, applies |-> applies]

FromPlatform(hash, to, amount) ==
  [hash |-> hash, amount |-> amount, from |-> "platform", to |-> to,
   found |-> {}, applies |-> {}]

o1Only == {"o1"}

\* Two handlers: one payment of a tracked wallet, two payments of an outsider
\* within one transaction, and one without memo.
ConcurrentData ==
  [p1 |-> ToPlatform("h1", "alice", 10, o1Only, o1Only),
   p2 |-> ToPlatform("h2", "bob", 4, o1Only, o1Only),
   p3 |-> ToPlatform("h2", "bob", 14, o1Only, o1Only),
   p4 |-> ToPlatform("h3", "bob", 10, {}, {})]
ConcurrentPayment == DOMAIN ConcurrentData

\* A crash: one payment names the reference of two orders and pays neither unless it
\* is saved twice, the other is the only one of o2 and pays it.
CrashData ==
  [p1 |-> ToPlatform("h1", "alice", 13, {"o1", "o3"}, o1Only),
   p2 |-> ToPlatform("h2", "bob", 6, {"o2"}, {"o2"})]
CrashPayment == DOMAIN CrashData

\* One handler: partial payments, one in another currency, a refund to alice
\* and a payment between outsiders.
SerialData ==
  [p1 |-> ToPlatform("h1", "alice", 19, o1Only, o1Only),
   p2 |-> ToPlatform("h2", "bob", 4, o1Only, o1Only),
   p3 |-> ToPlatform("h2", "bob", 20, o1Only, o1Only),
   p4 |-> ToPlatform("h3", "bob", 30, o1Only, {}),
   p5 |-> FromPlatform("h4", "alice", 7),
   p6 |-> [ToPlatform("h4", "bob", 7, {}, {}) EXCEPT !.to = "bob"]]
SerialPayment == DOMAIN SerialData

-----------------------------------------------------------------------------
(* What the repository says of the program, and the program does not do.   *)

\* Two payments of half the amount.
HalvesData ==
  [p1 |-> ToPlatform("h1", "bob", 10, o1Only, o1Only),
   p2 |-> ToPlatform("h2", "bob", 10, o1Only, o1Only)]
HalvesPayment == DOMAIN HalvesData

\* One payment of the whole amount.
WholeData == [p1 |-> ToPlatform("h1", "bob", 20, o1Only, o1Only)]
WholePayment == DOMAIN WholeData

\* A deposit at the address that virtual-account orders are given,
\* STELLAR_BRIDGE_PUBLIC_KEY, with the memo of one of them, and a payment to the
\* platform.
BridgeAddress == {"bob", "bridge", "platform"}
BridgeData ==
  [p1 |-> [ToPlatform("h1", "bob", 20, o1Only, o1Only) EXCEPT !.to = "bridge"],
   p2 |-> ToPlatform("h2", "bob", 20, o1Only, o1Only)]
BridgePayment == DOMAIN BridgeData

\* What payments that apply to order o and have arrived come to.
Received(o) ==
  MapThenSumSet(LAMBDA p : Data[p].amount,
                {p \in Payment : o \in Data[p].applies /\ jobs[p] # "absent"})

\* "greater or equal to expected amount is considered paid": once every job is
\* complete, an order whose payments reach its amount is paid.
ReceivedInFullIsPaid ==
  \A o \in Order :
    /\ \A p \in Payment : jobs[p] = "completed"
    /\ Received(o) >= AssetAmount[o]
    /\ Received(o) > 0
    => orders[o].status = "paid"

\* "virtual account order with a generated memo and platform receiving address
\* for payment reconciliation": a payment with the memo of one order, at either
\* receiving address, has been added to it when its job is complete.
DepositIsReconciled ==
  \A p \in Payment :
    jobs[p] = "completed" /\ Data[p].applies # {} => credits[p] > 0

\* A payment that lands and completes an order triggers the checkout
\* completion flow: when its job is complete, the order has been announced.
CompletedTriggersCheckout ==
  \A p \in Payment : \A o \in Data[p].applies :
    jobs[p] = "completed" /\ orders[o].status = "paid" => Announced(o)

-----------------------------------------------------------------------------
\* The amounts of every instance are those of a ledger.
ASSUME LedgerAssumptionHolds == Ledger!LedgerAssumption

=============================================================================
