--------------------------- MODULE OrderCreation ---------------------------
(***************************************************************************)
(* The order endpoints: createOrder, createBridgeVirtualAccountOrder and   *)
(* generateUniqueMemo (src/order/order.service.ts), the virtual account    *)
(* service and the calls of Bridge's API it makes.                         *)
(*                                                                         *)
(* Calls run concurrently and yield at every await; an action runs from    *)
(* one await to the next. Callers repeat a request when they like, also    *)
(* after an error that came late. Awaits fail, answers of Bridge get lost, *)
(* and the process dies; the database and Bridge stay.                     *)
(*                                                                         *)
(* A request without fait_amount is refused before anything happens and is *)
(* left out; so are the amounts, which no lookup and no index compares.    *)
(***************************************************************************)
EXTENDS Naturals, FiniteSets

CONSTANTS
  Client,       \* calls that can be under way at the same time
  Reference,    \* the caller's references
  Currency,     \* fiat currencies
  Memo,         \* the memos generateUniqueMemo draws from (eight digits)
  None,         \* no memo, no account, no request
  MaxDraws,     \* attempts of generateUniqueMemo (10)
  MaxCalls,     \* bound on the calls explored
  MaxFailures,  \* bound on the awaits that fail and on answers without an id
  MaxCrashes    \* bound on the crashes of the process

Service == {"stellar", "virtual"}
Request == [service : Service, reference : Reference, currency : Currency]

\* A Bridge account is named by the idempotency key it was created under.
Account == Reference \X Currency

ASSUME CreationAssumption ==
  /\ None \notin Memo /\ None \notin Account /\ None \notin Request
  /\ MaxDraws \in Nat \ {0} /\ MaxCalls \in Nat /\ MaxFailures \in Nat /\ MaxCrashes \in Nat

VARIABLES
  orders,    \* stellar_orders
  rows,      \* bridge_virtual_accounts: the number of rows of each account,
             \* those without one included
  inactive,  \* whether a row of bridge_virtual_accounts has the status inactive
  bridge,    \* Bridge: the destination memo of each account that exists
  call,      \* the local variables of each call
  told,      \* history: the answers given
  asked,     \* history: whether Bridge was asked for a request's account, and again
  astray,    \* history: orders saved after an answer of Bridge without an id
  calls, failures, crashes  \* counters for the bounds

vars == <<orders, rows, inactive, bridge, call, told, asked, astray,
          calls, failures, crashes>>

database == <<orders, rows, inactive, astray>>
bounds   == <<calls, failures, crashes>>

Order  == [request : Request, memo : Memo, account : Account \cup {None}]
Answer == [request : Request, order : Order]

Pc == {"idle", "find", "draw", "findInactive", "reactivate", "create", "save", "answer"}

\* order is the entity found or saved; account is what Bridge answered.
Locals == [pc : Pc, request : Request \cup {None}, memo : Memo \cup {None},
           draws : 0..MaxDraws, account : Account \cup {None},
           order : Order \cup {None}]

Idle == [pc |-> "idle", request |-> None, memo |-> None, draws |-> 0,
         account |-> None, order |-> None]

Key(q) == <<q.reference, q.currency>>

\* Variant: the key has no currency in it.
IdempotencyKeyOfReference(q) == <<q.reference, CHOOSE c \in Currency : TRUE>>

\* The idempotency key of the POST that creates an account.
IdempotencyKey(q) == <<q.reference, q.currency>>

\* Variant: a virtual-account order is looked up by its reference only.
MatchesReference(o, q) ==
  o.request.service = q.service /\ o.request.reference = q.reference

\* The where clause of the lookup by reference. createOrder leaves out the
\* currency, which the unique index has.
Matches(o, q) ==
  /\ o.request.service = q.service
  /\ o.request.reference = q.reference
  /\ q.service = "virtual" => o.request.currency = q.currency

\* What the unique indexes of stellar_orders let in.
Insertable(o) ==
  \A p \in orders : p.memo # o.memo /\ p.request # o.request

-----------------------------------------------------------------------------
Init ==
  /\ orders = {}
  /\ rows = [a \in Account \cup {None} |-> 0]
  /\ inactive = FALSE
  /\ bridge = [a \in Account |-> None]
  /\ call = [c \in Client |-> Idle]
  /\ told = {}
  /\ asked = [a \in Account |-> "never"] /\ astray = {}
  /\ calls = 0 /\ failures = 0 /\ crashes = 0

Call(c) ==
  /\ call[c].pc = "idle"
  /\ calls < MaxCalls
  /\ calls' = calls + 1
  /\ \E q \in Request :
       call' = [call EXCEPT ![c] = [Idle EXCEPT !.pc = "find", !.request = q]]
  /\ UNCHANGED <<database, bridge, told, asked, failures, crashes>>

\* The order exists already and is answered again.
FindOrder(c) ==
  /\ call[c].pc = "find"
  /\ \E o \in orders :
       /\ Matches(o, call[c].request)
       /\ call' = [call EXCEPT ![c].pc = "answer", ![c].order = o]
  /\ UNCHANGED <<database, bridge, told, asked, bounds>>

FindNone(c) ==
  /\ call[c].pc = "find"
  /\ \A o \in orders : ~Matches(o, call[c].request)
  /\ call' = [call EXCEPT ![c].pc = "draw"]
  /\ UNCHANGED <<database, bridge, told, asked, bounds>>

AfterMemo(q) == IF q.service = "stellar" THEN "save" ELSE "findInactive"

\* Variant: the attempts are not counted.
DrawMemoUncounted(c) ==
  /\ call[c].pc = "draw" /\ call[c].draws < MaxDraws
  /\ \E m \in Memo :
       /\ \A o \in orders : o.memo # m
       /\ call' = [call EXCEPT ![c].pc = AfterMemo(call[c].request), ![c].memo = m]
  /\ UNCHANGED <<database, bridge, told, asked, bounds>>

\* Variant: one attempt too many.
DrawMemoOnceMore(c) ==
  /\ call[c].pc = "draw" /\ call[c].draws <= MaxDraws
  /\ \E m \in Memo :
       IF \A o \in orders : o.memo # m
       THEN call' = [call EXCEPT ![c].pc = AfterMemo(call[c].request), ![c].memo = m]
       ELSE call' = [call EXCEPT ![c].draws = @ + 1]
  /\ UNCHANGED <<database, bridge, told, asked, bounds>>

\* A memo is drawn and looked up: it is kept when no order has it, and another
\* one is drawn when one has.
DrawMemo(c) ==
  /\ call[c].pc = "draw" /\ call[c].draws < MaxDraws
  /\ \E m \in Memo :
       IF \A o \in orders : o.memo # m
       THEN call' = [call EXCEPT ![c].pc = AfterMemo(call[c].request), ![c].memo = m]
       ELSE call' = [call EXCEPT ![c].draws = @ + 1]
  /\ UNCHANGED <<database, bridge, told, asked, bounds>>

\* 'Unable to generate unique memo'.
NoMemo(c) ==
  /\ call[c].pc = "draw" /\ call[c].draws = MaxDraws
  /\ call' = [call EXCEPT ![c] = Idle]
  /\ UNCHANGED <<database, bridge, told, asked, bounds>>

FindInactive(c) ==
  /\ call[c].pc = "findInactive"
  /\ call' = [call EXCEPT ![c].pc = IF inactive THEN "reactivate" ELSE "create"]
  /\ UNCHANGED <<database, bridge, told, asked, bounds>>

\* The account is named by the id of our own row, which Bridge does not know:
\* it answers with an error, and safeCall throws. What follows a successful
\* reactivation is never reached.
Reactivate(c) ==
  /\ call[c].pc = "reactivate"
  /\ call' = [call EXCEPT ![c] = Idle]
  /\ UNCHANGED <<database, bridge, told, asked, bounds>>

AskedAgain(k) == IF asked[k] = "never" THEN "once" ELSE "again"

\* Bridge creates the account, or answers with the one of the same key.
BridgeHas(k, memo) ==
  bridge' = [bridge EXCEPT ![k] = IF @ = None THEN memo ELSE @]

CreateAccount(c) ==
  LET q == call[c].request
      k == IdempotencyKey(q) IN
  /\ call[c].pc = "create"
  /\ BridgeHas(k, call[c].memo)
  /\ asked' = [asked EXCEPT ![Key(q)] = AskedAgain(Key(q))]
  /\ call' = [call EXCEPT ![c].pc = "save", ![c].account = k]
  /\ UNCHANGED <<database, told, bounds>>

\* Bridge has the key with another body and refuses, which it may do as well
\* as give the first answer again.
Refuse(c) ==
  LET q == call[c].request
      k == IdempotencyKey(q) IN
  /\ call[c].pc = "create"
  /\ bridge[k] \notin {None, call[c].memo}
  /\ asked' = [asked EXCEPT ![Key(q)] = AskedAgain(Key(q))]
  /\ call' = [call EXCEPT ![c] = Idle]
  /\ UNCHANGED <<database, bridge, told, bounds>>

\* Bridge answers without an id, and createVirtualAccount hands its answer on.
AnswerWithoutId(c) ==
  LET q == call[c].request
      k == IdempotencyKey(q) IN
  /\ call[c].pc = "create"
  /\ failures < MaxFailures
  /\ failures' = failures + 1
  /\ BridgeHas(k, call[c].memo) \/ UNCHANGED bridge
  /\ asked' = [asked EXCEPT ![Key(q)] = AskedAgain(Key(q))]
  /\ call' = [call EXCEPT ![c].pc = "save"]
  /\ UNCHANGED <<database, told, calls, crashes>>

\* Bridge creates the account and its answer does not arrive, or is empty, so
\* that the caller gets an empty one too.
LoseAnswer(c) ==
  LET q == call[c].request
      k == IdempotencyKey(q) IN
  /\ call[c].pc = "create"
  /\ failures < MaxFailures
  /\ failures' = failures + 1
  /\ BridgeHas(k, call[c].memo)
  /\ asked' = [asked EXCEPT ![Key(q)] = AskedAgain(Key(q))]
  /\ call' = [call EXCEPT ![c] = Idle]
  /\ UNCHANGED <<database, told, calls, crashes>>

\* A virtual-account order is saved with a row of bridge_virtual_accounts. The
\* upsert names a column without a unique index, so that MySQL finds no conflict
\* and inserts: an account saved twice would have two rows.
NewRows(c) ==
  IF call[c].request.service = "stellar" THEN rows
  ELSE [rows EXCEPT ![call[c].account] = @ + 1]

\* The handler of c goes on with an answer of Bridge that has no id.
HasNoId(c) == call[c].request.service = "virtual" /\ call[c].account = None

\* The account of the row that findOne reads back for the order: with an id that
\* is undefined there is no condition, and any row may come first.
Found(c) ==
  IF HasNoId(c)
  THEN {a \in Account \cup {None} : NewRows(c)[a] > 0}
  ELSE {call[c].account}

\* The row the handler of c inserts into stellar_orders.
NewOrder(c, a) == [request |-> call[c].request, memo |-> call[c].memo, account |-> a]

\* Variant: the account is saved outside the order's transaction.
SaveApart(c) ==
  /\ call[c].pc = "save"
  /\ rows' = NewRows(c)
  /\ \E a \in Found(c) :
       IF Insertable(NewOrder(c, a))
       THEN /\ orders' = orders \cup {NewOrder(c, a)}
            /\ call' = [call EXCEPT ![c].pc = "answer", ![c].order = NewOrder(c, a)]
       ELSE /\ call' = [call EXCEPT ![c] = Idle]
            /\ UNCHANGED orders
  /\ UNCHANGED <<inactive, astray, bridge, told, asked, bounds>>

\* The order is inserted, a virtual-account order in one transaction with its row.
Save(c) ==
  /\ call[c].pc = "save"
  /\ rows' = NewRows(c)
  /\ \E a \in Found(c) :
       LET o == NewOrder(c, a) IN
       /\ Insertable(o)
       /\ orders' = orders \cup {o}
       /\ astray' = IF HasNoId(c) THEN astray \cup {o} ELSE astray
       /\ call' = [call EXCEPT ![c].pc = "answer", ![c].order = o]
  /\ UNCHANGED <<inactive, bridge, told, asked, bounds>>

\* A unique index rejects the order, and the transaction is rolled back.
Reject(c) ==
  /\ call[c].pc = "save"
  /\ ~Insertable(NewOrder(c, call[c].account))
  /\ call' = [call EXCEPT ![c] = Idle]
  /\ UNCHANGED <<database, bridge, told, asked, bounds>>

Respond(c) ==
  /\ call[c].pc = "answer"
  /\ told' = told \cup {[request |-> call[c].request, order |-> call[c].order]}
  /\ call' = [call EXCEPT ![c] = Idle]
  /\ UNCHANGED <<database, bridge, asked, bounds>>

\* The await under way throws, or the answer does not reach the caller.
Fail(c) ==
  /\ call[c].pc # "idle"
  /\ failures < MaxFailures
  /\ failures' = failures + 1
  /\ call' = [call EXCEPT ![c] = Idle]
  /\ UNCHANGED <<database, bridge, told, asked, calls, crashes>>

Crash ==
  /\ crashes < MaxCrashes
  /\ \E c \in Client : call[c].pc # "idle"
  /\ crashes' = crashes + 1
  /\ call' = [c \in Client |-> Idle]
  /\ UNCHANGED <<database, bridge, told, asked, calls, failures>>

\* Nothing in the program sets a row to inactive; an operator may.
Deactivate ==
  /\ \E a \in Account \cup {None} : rows[a] > 0
  /\ inactive' = TRUE
  /\ UNCHANGED <<orders, rows, astray, bridge, call, told, asked, bounds>>

-----------------------------------------------------------------------------
\* What the handler of c does of its own accord.
Handle(c) ==
  \/ FindOrder(c) \/ FindNone(c) \/ DrawMemo(c) \/ NoMemo(c)
  \/ FindInactive(c) \/ Reactivate(c) \/ CreateAccount(c) \/ Refuse(c)
  \/ Save(c) \/ Reject(c) \/ Respond(c)

Next ==
  \/ \E c \in Client : Call(c) \/ Handle(c) \/ AnswerWithoutId(c) \/ LoseAnswer(c) \/ Fail(c)
  \/ Crash \/ Deactivate

Spec == Init /\ [][Next]_vars

\* Every await is assumed to end, although axios waits for Bridge without a timeout;
\* nobody has to call, and nothing has to fail.
FairSpec == Spec /\ \A c \in Client : WF_vars(Handle(c))

-----------------------------------------------------------------------------
(* Properties. *)

\* The range of each variable.
TypeOK ==
  /\ orders \subseteq Order
  /\ rows \in [Account \cup {None} -> Nat]
  /\ inactive \in BOOLEAN
  /\ bridge \in [Account -> Memo \cup {None}]
  /\ call \in [Client -> Locals]
  /\ told \subseteq Answer
  /\ asked \in [Account -> {"never", "once", "again"}] /\ astray \subseteq orders
  /\ calls \in 0..MaxCalls /\ failures \in 0..MaxFailures /\ crashes \in 0..MaxCrashes

\* Whatever is repeated, lost or raced, an account of Bridge has at most one row
\* and belongs to at most one order, although no index says so: the idempotency
\* key ties it to a reference and currency, and a second order of those is rolled
\* back with its row (createBridgeVirtualAccountOrder). Only an order that is
\* saved after an answer without an id can be given another order's account.
AccountBelongsToOneOrder ==
  /\ \A a \in Account : rows[a] <= 1
  /\ \A o, p \in orders \ astray : o.account = p.account /\ o.account # None => o = p

\* A deposit to a virtual account reaches its order: the memo Bridge puts on
\* the payment is the order's, unless Bridge was asked for the account more
\* than once, or answered without an id. A call that was repeated after a lost
\* answer, or that raced another, draws a new memo while Bridge keeps the first
\* (generateUniqueMemo, createVirtualAccount).
DepositCarriesOrderMemo ==
  \A o \in orders \ astray :
    o.account # None /\ asked[Key(o.request)] = "once"
      => bridge[o.account] = o.memo

\* A caller who asks again is told the same order, except for a Stellar order
\* whose reference has orders in two currencies: the lookup of createOrder
\* ignores the currency.
AnswersAgree ==
  \A a, b \in told :
    a.request = b.request /\ a.order # b.order =>
      /\ a.request.service = "stellar"
      /\ \E o, p \in orders :
           /\ {o.request.service, p.request.service} = {"stellar"}
           /\ {o.request.reference, p.request.reference} = {a.request.reference}
           /\ o.request.currency # p.request.currency

\* "To allow same reference for different services and currencies": the endpoints
\* keep the order book, in which each caller is told of the order he asked for.
Book == INSTANCE OrderBook WITH book <- orders

ImplementsOrderBook == Book!BookSpec

\* Every call ends with an answer or an error, also when all memos are taken.
CallsEnd == \A c \in Client : call[c].pc # "idle" ~> call[c].pc = "idle"

=============================================================================
