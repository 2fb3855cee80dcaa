--------------------------- MODULE WalletCheckout ---------------------------
(***************************************************************************)
(* The wallets of users and the payments made from them: createUserWallet, *)
(* syncWalletBalances and payWithWalletOrder (src/wallet/wallet.service.ts)*)
(* with sendPayment, fundTestnetWalletByUserId and getWalletBalances       *)
(* (src/stellar/stellar.service.ts), against the Stellar network.          *)
(*                                                                         *)
(* Calls run concurrently and yield at every await; an action runs from    *)
(* one await to the next. A transaction lives on the network by itself: it *)
(* may land after the call that sent it has timed out or the process died. *)
(*                                                                         *)
(* createOrder finds or adds the order of a reference, which also stands   *)
(* for its memo (OrderCreation has its races). What becomes of a payment   *)
(* that has landed is left to StellarListener and PaymentProcessing. Fees, *)
(* reserves and the memo of a funding only make a call or a transaction    *)
(* fail, as Fail and Drop do.                                              *)
(***************************************************************************)
EXTENDS Naturals, FiniteSets

CONSTANTS
  User,        \* user ids
  Account,     \* the Stellar accounts generateWallet may produce
  Platform,    \* STELLAR_PUBLIC_KEY
  Reference,   \* the references of orders
  Amount,      \* amounts that callers ask to pay
  None,
  CreateCall, FundCall, SyncCall, PayCall,  \* the calls of each endpoint
  FundAmount,  \* what Friendbot gives of XLM and the platform of USDC
  Treasury,    \* the USDC of the platform at first
  MaxFaults    \* bound on the awaits that fail and the crashes of the process

Asset == {"USDC", "XLM"}
Call  == CreateCall \cup FundCall \cup SyncCall \cup PayCall

\* The accounts the network is followed for.
Holder == Account \cup {Platform}

\* The calls that send a transaction, which is named after its call.
Tx == FundCall \cup PayCall

VARIABLES
  wallets,   \* wallets: the row of each account
  stored,    \* wallet_balances: the balances of each account as last synced
  orders,    \* stellar_orders: the amount of each Stellar order
  chain,     \* the network: sequence number and balances of each account
  tx,        \* the transactions sent to the network
  call,      \* the local variables of each call
  faults     \* counter for the bound

vars == <<wallets, stored, orders, chain, tx, call, faults>>

database == <<wallets, stored, orders>>

\* known is a history: the accounts that had a row when the call that made this
\* one arrived.
Wallet == [user : User, known : SUBSET Account]

Balances == [Asset -> Nat]
NoMoney  == [s \in Asset |-> 0]

\* An account with sequence 0 does not exist yet. Only one that trusts USDC can
\* hold it.
OnChain == [sequence : Nat, trusts : BOOLEAN, balance : Balances]

\* after is a history: the transactions that had landed when the sequence number
\* was read.
Transaction ==
  [source : Holder, sequence : Nat, to : Holder, asset : Asset, amount : Nat,
   memo : Reference \cup {None}, after : SUBSET Tx,
   state : {"flying", "landed", "failed", "dropped"}]

ASSUME CheckoutAssumption ==
  /\ None \notin Account \cup Reference \cup User \cup Amount
  /\ None \notin Wallet /\ None \notin Transaction
  /\ Platform # None /\ Platform \notin Account
  /\ Amount \subseteq Nat \ {0} /\ FundAmount \in Nat \ {0} /\ Treasury \in Nat
  /\ PayCall \cap (CreateCall \cup FundCall \cup SyncCall) = {}
  /\ FundCall \cap (CreateCall \cup SyncCall) = {} /\ CreateCall \cap SyncCall = {}
  /\ MaxFaults \in Nat

Pc == {"new", "findWallet", "saveWallet", "ensure", "friendbot", "order", "load",
       "submit", "await", "fetch", "saveBalances", "done"}

\* user, reference, amount and asset are the request's; account is the wallet's;
\* sequence is that of the transaction being built; known and after are what
\* Wallet and Transaction remember; snapshot is what getWalletBalances returned;
\* answer is what the caller was told.
Locals ==
  [pc : Pc, user : User \cup {None}, account : Account \cup {None},
   reference : Reference \cup {None}, amount : Nat, asset : Asset,
   sequence : Nat, known : SUBSET Account, after : SUBSET Tx,
   snapshot : Balances, answer : {"none", "done", "submitted", "failed"}]

New == [pc |-> "new", user |-> None, account |-> None, reference |-> None,
        amount |-> 0, asset |-> "USDC", sequence |-> 0, known |-> {},
        after |-> {}, snapshot |-> NoMoney, answer |-> "none"]

Rows         == {a \in Account : wallets[a] # None}
WalletsOf(u) == {a \in Rows : wallets[a].user = u}

\* A key pair that generateWallet may draw. They are interchangeable, so one is
\* enough.
Fresh ==
  LET unused == {a \in Account \ Rows : \A c \in CreateCall : call[c].account # a} IN
  {a \in unused : a = CHOOSE b \in unused : TRUE}

\* Who pays: the user's account, or the platform when it funds one.
Source(c)      == IF c \in PayCall THEN call[c].account ELSE Platform
Destination(c) == IF c \in PayCall THEN Platform ELSE call[c].account

In(state) == {n \in Tx : tx[n] # None /\ tx[n].state = state}

\* The call ends; all that remains of it is its answer.
Ended(answer) == [New EXCEPT !.pc = "done", !.answer = answer]

End(c, answer) == call' = [call EXCEPT ![c] = Ended(answer)]

-----------------------------------------------------------------------------
Init ==
  /\ wallets = [a \in Account |-> None]
  /\ stored = [a \in Account |-> NoMoney]
  /\ orders = [r \in Reference |-> None]
  /\ chain = [a \in Holder |->
       IF a = Platform
       THEN [sequence |-> 1, trusts |-> TRUE,
             balance |-> [NoMoney EXCEPT !["USDC"] = Treasury]]
       ELSE [sequence |-> 0, trusts |-> FALSE, balance |-> NoMoney]]
  /\ tx = [n \in Tx |-> None]
  /\ call = [c \in Call |-> New]
  /\ faults = 0

(* createUserWallet *)

Create(c) ==
  /\ c \in CreateCall /\ call[c].pc = "new"
  /\ \E u \in User :
       call' = [call EXCEPT ![c].pc = "findWallet", ![c].user = u, ![c].known = Rows]
  /\ UNCHANGED <<database, chain, tx, faults>>

\* Variant: nobody looks whether the user has a wallet.
FindWalletUnchecked(c) ==
  /\ call[c].pc = "findWallet"
  /\ \E a \in Fresh :
       call' = [call EXCEPT ![c].pc = "saveWallet", ![c].account = a]
  /\ UNCHANGED <<database, chain, tx, faults>>

\* The user's wallet is looked up, and a new key pair is drawn when there is none.
FindWallet(c) ==
  /\ call[c].pc = "findWallet"
  /\ IF WalletsOf(call[c].user) # {}
     THEN End(c, "failed")
     ELSE \E a \in Fresh :
            call' = [call EXCEPT ![c].pc = "saveWallet", ![c].account = a]
  /\ UNCHANGED <<database, chain, tx, faults>>

\* The balances of an account that nobody knows are zero; wallet and balances are
\* inserted in one transaction.
SaveWallet(c) ==
  LET l == call[c] IN
  /\ l.pc = "saveWallet"
  /\ wallets' = [wallets EXCEPT ![l.account] = [user |-> l.user, known |-> l.known]]
  /\ stored' = [stored EXCEPT ![l.account] = NoMoney]
  /\ End(c, "done")
  /\ UNCHANGED <<orders, chain, tx, faults>>

(* syncWalletBalances, by endpoint or by the processor *)

Sync(c) ==
  /\ c \in SyncCall /\ call[c].pc = "new"
  /\ \E a \in Rows : call' = [call EXCEPT ![c].pc = "fetch", ![c].account = a]
  /\ UNCHANGED <<database, chain, tx, faults>>

\* Variant: nothing is returned for an account that does not exist.
FetchBalancesUnhandled(c) ==
  LET a == call[c].account IN
  /\ call[c].pc = "fetch"
  /\ call' = [call EXCEPT ![c].pc = "saveBalances",
                          ![c].snapshot = IF chain[a].sequence = 0 THEN <<>>
                                          ELSE chain[a].balance]
  /\ UNCHANGED <<database, chain, tx, faults>>

\* getWalletBalances: an account that does not exist has zeros.
FetchBalances(c) ==
  /\ call[c].pc = "fetch"
  /\ call' = [call EXCEPT ![c].pc = "saveBalances",
                          ![c].snapshot = chain[call[c].account].balance]
  /\ UNCHANGED <<database, chain, tx, faults>>

SaveBalances(c) ==
  /\ call[c].pc = "saveBalances"
  /\ stored' = [stored EXCEPT ![call[c].account] = call[c].snapshot]
  /\ End(c, "done")
  /\ UNCHANGED <<wallets, orders, chain, tx, faults>>

(* fundTestnetWalletByUserId *)

Fund(c) ==
  /\ c \in FundCall /\ call[c].pc = "new"
  /\ \E a \in Rows, s \in Asset :
       call' = [call EXCEPT ![c].pc = IF s = "XLM" THEN "friendbot" ELSE "ensure",
                            ![c].account = a, ![c].asset = s, ![c].amount = FundAmount]
  /\ UNCHANGED <<database, chain, tx, faults>>

\* ensureTestnetDestinationAccount loads the account and asks Friendbot for it.
Ensure(c) ==
  /\ call[c].pc = "ensure"
  /\ call' = [call EXCEPT ![c].pc = IF chain[call[c].account].sequence > 0
                                    THEN "load" ELSE "friendbot"]
  /\ UNCHANGED <<database, chain, tx, faults>>

\* Friendbot creates the account, or refuses because it exists.
Friendbot(c) ==
  LET a == call[c].account IN
  /\ call[c].pc = "friendbot"
  /\ IF chain[a].sequence > 0
     THEN End(c, "failed") /\ UNCHANGED chain
     ELSE /\ chain' = [chain EXCEPT ![a].sequence = 1,
                                    ![a].balance = [@ EXCEPT !["XLM"] = FundAmount]]
          /\ IF call[c].asset = "XLM"
             THEN End(c, "done")
             ELSE call' = [call EXCEPT ![c].pc = "load"]
  /\ UNCHANGED <<database, tx, faults>>

(* payWithWalletOrder *)

\* A wallet of the user is read with its stored balances; a request that they do
\* not cover is refused.
Pay(c) ==
  /\ c \in PayCall /\ call[c].pc = "new"
  /\ \E a \in Rows, r \in Reference, m \in Amount, s \in Asset :
       /\ m <= stored[a][s]
       /\ call' = [call EXCEPT ![c].pc = "order", ![c].account = a, ![c].reference = r,
                               ![c].amount = m, ![c].asset = s]
  /\ UNCHANGED <<database, chain, tx, faults>>

Refuse(c) ==
  /\ c \in PayCall /\ call[c].pc = "new"
  /\ \/ \E u \in User : WalletsOf(u) = {}
     \/ \E a \in Rows, m \in Amount, s \in Asset : m > stored[a][s]
  /\ End(c, "failed")
  /\ UNCHANGED <<database, chain, tx, faults>>

\* Variant: the save of the order is not awaited, and may fail.
EnsureOrderUnsaved(c) ==
  LET l == call[c] IN
  /\ l.pc = "order"
  /\ \/ orders' = [orders EXCEPT ![l.reference] = IF @ = None THEN l.amount ELSE @]
     \/ UNCHANGED orders
  /\ call' = [call EXCEPT ![c].pc = "load"]
  /\ UNCHANGED <<wallets, stored, chain, tx, faults>>

\* createOrder: an order that exists keeps its amount.
EnsureOrder(c) ==
  LET l == call[c] IN
  /\ l.pc = "order"
  /\ orders' = [orders EXCEPT ![l.reference] = IF @ = None THEN l.amount ELSE @]
  /\ call' = [call EXCEPT ![c].pc = "load"]
  /\ UNCHANGED <<wallets, stored, chain, tx, faults>>

(* sendPayment *)

\* Variant: the sequence numbers of an account are counted here, so that calls do
\* not get in each other's way.
LoadAccountCounted(c) ==
  LET a == Source(c)
      sent == {n \in Tx : tx[n] # None /\ tx[n].source = a} IN
  /\ call[c].pc = "load" /\ chain[a].sequence > 0
  /\ call' = [call EXCEPT ![c].pc = "submit", ![c].after = In("landed"),
                          ![c].sequence = Cardinality(sent) + 2]
  /\ UNCHANGED <<database, chain, tx, faults>>

\* The transaction gets the number after the one its account has now.
LoadAccount(c) ==
  LET a == Source(c) IN
  /\ call[c].pc = "load"
  /\ IF chain[a].sequence = 0
     THEN End(c, "failed")
     ELSE call' = [call EXCEPT ![c].pc = "submit", ![c].after = In("landed"),
                               ![c].sequence = chain[a].sequence + 1]
  /\ UNCHANGED <<database, chain, tx, faults>>

Built(c) ==
  [source |-> Source(c), sequence |-> call[c].sequence, to |-> Destination(c),
   asset |-> call[c].asset, amount |-> call[c].amount, memo |-> call[c].reference,
   after |-> call[c].after, state |-> "flying"]

Submit(c) ==
  /\ call[c].pc = "submit"
  /\ tx' = [tx EXCEPT ![c] = Built(c)]
  /\ call' = [call EXCEPT ![c].pc = "await"]
  /\ UNCHANGED <<database, chain, faults>>

\* Variant: an answer that takes its time is taken for a failure.
AnswerImpatient(c) ==
  /\ call[c].pc = "await"
  /\ IF tx[c].state = "landed"
     THEN End(c, "submitted")
     ELSE End(c, "failed")
  /\ UNCHANGED <<database, chain, tx, faults>>

\* Horizon answers once the transaction is on the ledger or refused.
Answer(c) ==
  /\ call[c].pc = "await" /\ tx[c].state # "flying"
  /\ IF tx[c].state = "landed"
     THEN End(c, "submitted")
     ELSE End(c, "failed")
  /\ UNCHANGED <<database, chain, tx, faults>>

\* The await under way throws; for a transaction that was submitted that may be a
\* timeout, which says nothing about it.
Fail(c) ==
  /\ call[c].pc \notin {"new", "done"}
  /\ faults < MaxFaults
  /\ faults' = faults + 1
  /\ End(c, "failed")
  /\ UNCHANGED <<database, chain, tx>>

Crash ==
  /\ faults < MaxFaults
  /\ \E c \in Call : call[c].pc \notin {"new", "done"}
  /\ faults' = faults + 1
  /\ call' = [c \in Call |-> IF call[c].pc \in {"new", "done"} THEN call[c] ELSE Ended("failed")]
  /\ UNCHANGED <<database, chain, tx>>

-----------------------------------------------------------------------------
(* The Stellar network. *)

\* A transaction uses up the number that follows its account's.
InTurn(n) == tx[n].sequence = chain[tx[n].source].sequence + 1

Payable(n) ==
  /\ chain[tx[n].source].balance[tx[n].asset] >= tx[n].amount
  /\ chain[tx[n].to].sequence > 0
  /\ tx[n].asset = "USDC" => chain[tx[n].to].trusts

Becomes(n, state) == tx' = [tx EXCEPT ![n].state = state]

Land(n) ==
  LET t == tx[n] IN
  /\ n \in In("flying") /\ InTurn(n) /\ Payable(n)
  /\ chain' = [a \in Holder |->
       [chain[a] EXCEPT
          !.sequence = IF a = t.source THEN @ + 1 ELSE @,
          !.balance[t.asset] = (IF a = t.to THEN @ + t.amount ELSE @)
                               - (IF a = t.source THEN t.amount ELSE 0)]]
  /\ Becomes(n, "landed")
  /\ UNCHANGED <<database, call, faults>>

\* It is on the ledger without effect, but for its number.
Bounce(n) ==
  /\ n \in In("flying") /\ InTurn(n) /\ ~Payable(n)
  /\ chain' = [chain EXCEPT ![tx[n].source].sequence = @ + 1]
  /\ Becomes(n, "failed")
  /\ UNCHANGED <<database, call, faults>>

\* It has the wrong number, or 30 seconds have passed.
Drop(n) ==
  /\ n \in In("flying")
  /\ Becomes(n, "dropped")
  /\ UNCHANGED <<database, chain, call, faults>>

\* No code of the program makes an account trust USDC; whoever has the secret
\* key, which only the database has, encrypted, can.
Trust(a) ==
  /\ chain[a].sequence > 0 /\ ~chain[a].trusts
  /\ chain' = [chain EXCEPT ![a].trusts = TRUE]
  /\ UNCHANGED <<database, tx, call, faults>>

-----------------------------------------------------------------------------
\* What call c does of its own accord once it has arrived.
Step(c) ==
  \/ FindWallet(c) \/ SaveWallet(c) \/ FetchBalances(c) \/ SaveBalances(c)
  \/ Ensure(c) \/ Friendbot(c) \/ EnsureOrder(c) \/ LoadAccount(c) \/ Submit(c)
  \/ Answer(c)

\* The calls that arrive.
Arrive(c) == Create(c) \/ Sync(c) \/ Fund(c) \/ Pay(c) \/ Refuse(c)

Next ==
  \/ \E c \in Call : Arrive(c) \/ Step(c) \/ Fail(c)
  \/ \E n \in Tx : Land(n) \/ Bounce(n) \/ Drop(n)
  \/ \E a \in Account : Trust(a)
  \/ Crash

Spec == Init /\ [][Next]_vars

-----------------------------------------------------------------------------
(* Properties. *)

\* The range of each variable.
TypeOK ==
  /\ wallets \in [Account -> Wallet \cup {None}]
  /\ stored \in [Account -> Balances]
  /\ orders \in [Reference -> Amount \cup {None}]
  /\ chain \in [Holder -> OnChain]
  /\ tx \in [Tx -> Transaction \cup {None}]
  /\ call \in [Call -> Locals]
  /\ faults \in 0..MaxFaults

\* No index keeps a user from having two wallets; only calls that overlapped can
\* have made them: each arrived before the other had saved (createUserWallet).
SecondWalletOnlyByRace ==
  \A a, b \in Rows :
    a # b /\ wallets[a].user = wallets[b].user => b \notin wallets[a].known

\* A wallet pays an order twice only when the later call read the account after
\* the earlier payment had landed. Calls that overlap, and the retry of one that
\* timed out while its transaction may still land, share a sequence number and
\* move money once (sendPayment, payWithWalletOrder).
PaidTwiceOnlyAfterLanding ==
  \A n, m \in In("landed") \cap PayCall :
    n # m /\ tx[n].memo = tx[m].memo /\ tx[n].source = tx[m].source
      => n \in tx[m].after \/ m \in tx[n].after

\* Whatever failed in between, the order was there with its memo before money
\* moved: a payment that lands on the platform, even one that its caller gave up
\* or whose process died, has the order that its memo names (createOrder,
\* payWithWalletOrder).
LandedMoneyFindsItsOrder ==
  \A n \in In("landed") \cap PayCall : orders[tx[n].memo] # None

\* A caller who is told of an error, while no await has timed out and the process
\* has not died, has not paid and will not: his transaction was never sent, or
\* the network is done with it. Asking again is safe then; overlapping calls that
\* take one sequence number, and balances that were stale, end this way too
\* (sendPayment, payWithWalletOrder).
FailureMovesNothing ==
  faults = 0 =>
    \A c \in PayCall : call[c].answer = "failed" => c \notin In("flying") \cup In("landed")

=============================================================================
