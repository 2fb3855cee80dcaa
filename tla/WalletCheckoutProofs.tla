------------------------ MODULE WalletCheckoutProofs ------------------------
(***************************************************************************)
(* The safety properties of WalletCheckout for any number of users,        *)
(* accounts, orders and calls, however the calls fail and overlap and      *)
(* whenever the network lands, refuses or drops what was sent.             *)
(***************************************************************************)
EXTENDS WalletCheckout, TLAPS

(* The inductive invariant. *)

From(c, l) == IF c \in PayCall THEN l.account ELSE Platform

\* What a transaction of account a with this number and history may assume of the
\* network: the number is at most the next one, and the landed transactions with a
\* smaller one had landed when it was read.
InOrder(a, sequence, after) ==
  /\ sequence <= chain[a].sequence + 1
  /\ \A n \in In("landed") :
       tx[n].source = a /\ tx[n].sequence < sequence => n \in after

\* The accounts that had a row when a wallet's call arrived still have it, and
\* none of them is the user's.
NoneOf(u, known) ==
  known \subseteq Rows /\ \A b \in known : wallets[b].user # u

\* What call c knows when its locals are l.
Sound(c, l) ==
  /\ l.pc = "findWallet" =>
       c \in CreateCall /\ l.user \in User /\ l.known \subseteq Rows
  /\ l.pc = "saveWallet" =>
       /\ c \in CreateCall /\ l.user \in User /\ l.account \in Account \ Rows
       /\ NoneOf(l.user, l.known)
  /\ l.pc \in {"fetch", "saveBalances"} => c \in SyncCall /\ l.account \in Account
  /\ l.pc \in {"ensure", "friendbot"} => c \in FundCall /\ l.account \in Account
  /\ l.pc \in {"order", "load", "submit"} =>
       /\ c \in Tx /\ l.account \in Account
       /\ c \in PayCall => l.reference \in Reference
  /\ l.pc = "order" => c \in PayCall /\ l.amount \in Amount
  /\ l.pc \in {"load", "submit"} /\ c \in PayCall => orders[l.reference] # None
  /\ l.pc = "submit" => InOrder(From(c, l), l.sequence, l.after)
  /\ l.pc = "await" => c \in Tx /\ tx[c] # None
  /\ c \in Tx /\ l.pc \notin {"await", "done"} => tx[c] = None
  /\ l.answer = "submitted" => c \in In("landed")

\* No two calls are about to save the same account.
Apart ==
  \A c, d \in Call :
    c # d /\ call[c].pc = "saveWallet" /\ call[d].pc = "saveWallet"
      => call[c].account # call[d].account

CallInv == Apart /\ \A c \in Call : Sound(c, call[c])

RowInv == \A a \in Rows : NoneOf(wallets[a].user, wallets[a].known)

SentInv ==
  \A n \in Tx : tx[n] # None =>
    /\ InOrder(tx[n].source, tx[n].sequence, tx[n].after)
    /\ tx[n].source # tx[n].to
    /\ n \in PayCall => tx[n].memo \in Reference /\ orders[tx[n].memo] # None
    /\ tx[n].to = Platform => n \in PayCall

LandedInv ==
  /\ \A n \in In("landed") : tx[n].sequence <= chain[tx[n].source].sequence
  /\ \A n, m \in In("landed") :
       n # m /\ tx[n].source = tx[m].source => tx[n].sequence # tx[m].sequence

IInv ==
  TypeOK /\ CallInv /\ RowInv /\ SentInv /\ LandedInv

-----------------------------------------------------------------------------
(* Steps that change only the locals of calls. *)

LEMMA LocalsStep ==
  ASSUME IInv, UNCHANGED <<database, chain, tx>>, faults' \in 0..MaxFaults,
         call' \in [Call -> Locals], Apart',
         \A d \in Call : Sound(d, call'[d])
  PROVE  IInv'
<1>1. TypeOK'
  BY DEF IInv, TypeOK, database
<1>2. CallInv'
  <2>1. \A d \in Call : Sound(d, call[d])'
    BY DEF Sound, InOrder, NoneOf, Rows, In, From, database
  <2> QED
    BY <2>1 DEF CallInv
<1>3. RowInv' /\ SentInv' /\ LandedInv'
  BY DEF IInv, RowInv, SentInv, LandedInv, InOrder, NoneOf, Rows, In, database
<1> QED
  BY <1>1, <1>2, <1>3 DEF IInv

LEMMA LocalStep ==
  ASSUME IInv, NEW c \in Call, NEW l \in Locals, Sound(c, l),
         l.pc # "saveWallet", call' = [call EXCEPT ![c] = l],
         UNCHANGED <<database, chain, tx>>, faults' \in 0..MaxFaults
  PROVE  IInv'
<1>1. call' \in [Call -> Locals] /\ \A d \in Call : (call'[d] = l /\ d = c) \/ call'[d] = call[d]
  BY DEF IInv, TypeOK
<1>2. Apart'
  BY <1>1 DEF IInv, CallInv, Apart
<1>3. \A d \in Call : Sound(d, call'[d])
  BY <1>1 DEF IInv, CallInv
<1> QED
  BY <1>1, <1>2, <1>3, LocalsStep

\* What is left of a call that has ended is sound.
LEMMA EndedSound ==
  ASSUME NEW c \in Call, NEW answer \in {"done", "submitted", "failed"},
         answer = "submitted" => c \in In("landed")
  PROVE  Ended(answer) \in Locals /\ Sound(c, Ended(answer)) /\ Ended(answer).pc = "done"
<1>1. NoMoney \in Balances
  BY DEF NoMoney, Balances
<1>2. New \in Locals
  BY <1>1 DEF New, Locals, Pc, Asset
<1> QED
  BY <1>2 DEF Ended, New, Locals, Pc, Sound

LEMMA EndStep ==
  ASSUME IInv, NEW c \in Call, NEW answer \in {"done", "submitted", "failed"},
         answer = "submitted" => c \in In("landed"),
         End(c, answer), UNCHANGED <<database, chain, tx>>, faults' \in 0..MaxFaults
  PROVE  IInv'
<1>1. call' = [call EXCEPT ![c] = Ended(answer)]
  BY DEF End
<1>2. Ended(answer) \in Locals /\ Sound(c, Ended(answer)) /\ Ended(answer).pc = "done"
  BY EndedSound
<1> QED
  BY <1>1, <1>2, LocalStep

\* The initial state.
LEMMA InitInv == Init => IInv
<1> SUFFICES ASSUME Init PROVE IInv
  OBVIOUS
<1>1. NoMoney \in Balances /\ [NoMoney EXCEPT !["USDC"] = Treasury] \in Balances
  BY CheckoutAssumption DEF NoMoney, Balances
<1>2. TypeOK
  <2>1. New \in Locals
    BY <1>1 DEF New, Locals, Pc, Asset
  <2>2. chain \in [Holder -> OnChain]
    BY <1>1 DEF Init, OnChain
  <2>3. wallets \in [Account -> Wallet \cup {None}] /\ stored \in [Account -> Balances]
        /\ orders \in [Reference -> Amount \cup {None}]
        /\ tx \in [Tx -> Transaction \cup {None}]
    BY <1>1 DEF Init
  <2>4. call \in [Call -> Locals]
        /\ faults \in 0..MaxFaults
    BY <2>1, CheckoutAssumption DEF Init
  <2> QED
    BY <2>2, <2>3, <2>4 DEF TypeOK
<1>3. Rows = {} /\ In("landed") = {} /\ \A n \in Tx : tx[n] = None
  BY DEF Init, Rows, In
<1>4. CallInv
  <2>1. \A c \in Call : call[c] = New
    BY DEF Init
  <2> QED
    BY <1>3, <2>1 DEF CallInv, Apart, Sound, New
<1> QED
  BY <1>2, <1>3, <1>4 DEF IInv, RowInv, SentInv, LandedInv, Init

-----------------------------------------------------------------------------
(* Steps that change no transaction: balances, orders and the network only grow. *)

LEMMA DataSteps ==
  ASSUME IInv, UNCHANGED <<wallets, tx, faults>>,
         stored' \in [Account -> Balances],
         orders' \in [Reference -> Amount \cup {None}],
         \A r \in Reference : orders[r] # None => orders'[r] # None,
         chain' \in [Holder -> OnChain],
         \A a \in Holder : chain'[a].sequence >= chain[a].sequence,
         call' \in [Call -> Locals], Apart',
         \A d \in Call : call'[d] = call[d] \/ Sound(d, call[d])'
  PROVE  IInv'
<1>2. TypeOK'
  BY DEF IInv, TypeOK
<1>3. Rows' = Rows /\ \A state : In(state)' = In(state)
  BY DEF Rows, In
<1>4. \A a \in Holder : chain[a].sequence \in Nat /\ chain'[a].sequence \in Nat
  BY <1>2 DEF IInv, TypeOK, OnChain
<1>5. \A a \in Holder : \A n \in Nat : \A after :
        InOrder(a, n, after) => InOrder(a, n, after)'
  BY <1>3, <1>4 DEF InOrder
<1>6. CallInv'
  <2>2. ASSUME NEW d \in Call PROVE Sound(d, call[d])'
    <3>2. CASE call'[d] = call[d]
      <4>1. Sound(d, call[d]) /\ call[d] \in Locals
        BY DEF IInv, CallInv, TypeOK
      <4>2. call[d].pc = "submit" =>
              From(d, call[d]) \in Holder /\ call[d].sequence \in Nat
        BY <4>1 DEF Sound, From, Holder, Locals
      <4>3. call[d].pc = "submit" =>
              InOrder(From(d, call[d]), call[d].sequence, call[d].after)'
        BY <4>1, <4>2, <1>5, <3>2 DEF Sound, InOrder, From
      <4>4. NoneOf(call[d].user, call[d].known) => NoneOf(call[d].user, call[d].known)'
        BY <1>3, <3>2 DEF NoneOf
      <4> QED
        BY <4>1, <4>3, <4>4, <3>2, <1>3 DEF Sound, From
    <3> QED
      BY <3>2
  <2> QED
    BY <2>2 DEF CallInv
<1>7. RowInv'
  BY <1>3 DEF IInv, RowInv, NoneOf
<1>8. SentInv'
  <2> SUFFICES ASSUME NEW n \in Tx, tx[n] # None
               PROVE  /\ InOrder(tx[n].source, tx[n].sequence, tx[n].after)'
                      /\ tx[n].source # tx[n].to
                      /\ n \in PayCall => tx[n].memo \in Reference /\ orders'[tx[n].memo] # None
                      /\ tx[n].to = Platform => n \in PayCall
    BY DEF SentInv
  <2>1. tx[n].source \in Holder /\ tx[n].sequence \in Nat
    BY DEF IInv, TypeOK, Transaction
  <2>2. InOrder(tx[n].source, tx[n].sequence, tx[n].after)
    BY DEF IInv, SentInv
  <2>3. InOrder(tx[n].source, tx[n].sequence, tx[n].after)'
    BY <2>1, <2>2, <1>5 DEF InOrder
  <2> QED
    BY <2>3 DEF IInv, SentInv
<1>9. LandedInv'
  <2>1. \A n \in In("landed") : tx[n].source \in Holder /\ tx[n].sequence \in Nat
    BY DEF IInv, TypeOK, Transaction, In
  <2> QED
    BY <2>1, <1>3, <1>4 DEF IInv, LandedInv
<1> QED
  BY <1>2, <1>6, <1>7, <1>8, <1>9 DEF IInv

\* The same, when one call goes on with locals l.
LEMMA DataStep ==
  ASSUME IInv, UNCHANGED <<wallets, tx, faults>>,
         stored' \in [Account -> Balances],
         orders' \in [Reference -> Amount \cup {None}],
         \A r \in Reference : orders[r] # None => orders'[r] # None,
         chain' \in [Holder -> OnChain],
         \A a \in Holder : chain'[a].sequence >= chain[a].sequence,
         NEW c \in Call, NEW l \in Locals, l.pc # "saveWallet", Sound(c, l)',
         call' = [call EXCEPT ![c] = l]
  PROVE  IInv'
<1>1. call' \in [Call -> Locals] /\ call'[c] = l /\ \A d \in Call \ {c} : call'[d] = call[d]
  BY DEF IInv, TypeOK
<1>2. Apart'
  BY <1>1 DEF IInv, CallInv, Apart
<1>3. Sound(c, call[c])'
  BY <1>1 DEF Sound, From
<1> QED
  BY <1>1, <1>2, <1>3, DataSteps

\* A wallet's row is inserted for an account that had none.
LEMMA SaveWalletStep ==
  ASSUME IInv, NEW c \in Call, SaveWallet(c)
  PROVE  IInv'
<1> DEFINE l == call[c]
           a == l.account
           w == [user |-> l.user, known |-> l.known]
<1>1. /\ l.pc = "saveWallet"
      /\ wallets' = [wallets EXCEPT ![a] = w]
      /\ stored' = [stored EXCEPT ![a] = NoMoney]
      /\ call' = [call EXCEPT ![c] = Ended("done")]
      /\ UNCHANGED <<orders, chain, tx, faults>>
  BY DEF SaveWallet, End
<1>2. Sound(c, l) /\ l \in Locals
  BY DEF IInv, CallInv, TypeOK
<1>3. /\ a \in Account \ Rows /\ w \in Wallet /\ w # None
      /\ NoneOf(w.user, w.known)
  <2>1. l.user \in User /\ a \in Account \ Rows /\ NoneOf(l.user, l.known)
    BY <1>1, <1>2 DEF Sound
  <2>2. w \in Wallet
    BY <2>1, <1>2 DEF Wallet, Locals
  <2> QED
    BY <2>1, <2>2, CheckoutAssumption DEF Wallet
<1> HIDE DEF a, w
<1>4. wallets' \in [Account -> Wallet \cup {None}] /\ wallets'[a] = w
      /\ \A b \in Account \ {a} : wallets'[b] = wallets[b]
  BY <1>1, <1>3 DEF IInv, TypeOK
<1>5. Rows' = Rows \cup {a}
  BY <1>3, <1>4 DEF Rows
<1>6. \A b \in Rows : b # a /\ b \in Account /\ b \in Rows' /\ wallets'[b] = wallets[b]
  BY <1>3, <1>4, <1>5 DEF Rows
<1>7. Ended("done") \in Locals /\ Ended("done").pc = "done" /\ Ended("done").answer = "done"
  BY EndedSound DEF Ended, New
<1>8. call' \in [Call -> Locals] /\ call'[c] = Ended("done")
      /\ \A d \in Call \ {c} : call'[d] = call[d]
  BY <1>1, <1>7 DEF IInv, TypeOK
<1>9. NoMoney \in Balances
  BY DEF NoMoney, Balances
<1>10. TypeOK'
  BY <1>1, <1>4, <1>8, <1>9 DEF IInv, TypeOK
<1>11. CallInv'
  <2>1. Apart'
    BY <1>7, <1>8 DEF IInv, CallInv, Apart
  <2>2. ASSUME NEW d \in Call PROVE Sound(d, call[d])'
    <3>1. CASE d = c
      BY <3>1, <1>7, <1>8, <1>1 DEF Sound
    <3>2. CASE d # c
      <4>1. call'[d] = call[d] /\ Sound(d, call[d])
        BY <3>2, <1>8 DEF IInv, CallInv
      <4>2. call[d].pc = "saveWallet" => call[d].account # a
        BY <1>1, <3>2 DEF IInv, CallInv, Apart, a
      <4>3. call[d].known \subseteq Rows => call[d].known \subseteq Rows'
        BY <1>5
      <4>4. NoneOf(call[d].user, call[d].known) => NoneOf(call[d].user, call[d].known)'
        <5> SUFFICES ASSUME NoneOf(call[d].user, call[d].known)
                     PROVE  /\ call[d].known \subseteq Rows'
                            /\ \A b \in call[d].known : wallets'[b].user # call[d].user
          BY <4>1 DEF NoneOf
        <5> QED
          BY <1>6 DEF NoneOf
      <4> QED
        BY <4>1, <4>2, <4>3, <4>4, <1>1, <1>5 DEF Sound, InOrder, In, From
    <3> QED
      BY <3>1, <3>2
  <2> QED
    BY <2>1, <2>2 DEF CallInv
<1>12. RowInv'
  <2> SUFFICES ASSUME NEW b \in Rows' 
               PROVE  /\ wallets'[b].known \subseteq Rows'
                      /\ \A e \in wallets'[b].known : wallets'[e].user # wallets'[b].user
    BY DEF RowInv, NoneOf
  <2>1. CASE b = a
    BY <2>1, <1>3, <1>4, <1>6 DEF NoneOf
  <2>2. CASE b # a
    <3>1. b \in Rows /\ wallets'[b] = wallets[b]
      BY <2>2, <1>4, <1>5 DEF Rows
    <3>2. NoneOf(wallets[b].user, wallets[b].known)
      BY <3>1 DEF IInv, RowInv
    <3> QED
      BY <3>1, <3>2, <1>6 DEF NoneOf
  <2> QED
    BY <2>1, <2>2
<1>13. SentInv' /\ LandedInv'
  BY <1>1 DEF IInv, SentInv, LandedInv, InOrder, In
<1> QED
  BY <1>10, <1>11, <1>12, <1>13 DEF IInv

-----------------------------------------------------------------------------
(* Steps of transactions. *)

\* A transaction on its way is settled; one that lands has the next number.
LEMMA SettleStep ==
  ASSUME IInv, NEW n \in In("flying"), NEW state \in {"landed", "failed", "dropped"},
         Becomes(n, state), UNCHANGED <<database, call, faults>>,
         chain' \in [Holder -> OnChain],
         \A a \in Holder : chain'[a].sequence >= chain[a].sequence,
         state = "landed" =>
           InTurn(n) /\ chain'[tx[n].source].sequence = tx[n].sequence
  PROVE  IInv'
<1>1. /\ n \in Tx /\ tx[n] \in Transaction /\ tx[n].state = "flying"
      /\ tx' = [tx EXCEPT ![n].state = state]
  BY DEF IInv, TypeOK, In, Becomes
<1>2. /\ tx' \in [Tx -> Transaction \cup {None}]
      /\ \A m \in Tx : (tx'[m] = None) <=> (tx[m] = None)
      /\ \A m \in Tx \ {n} : tx'[m] = tx[m]
      /\ tx'[n].state = state
  BY <1>1, CheckoutAssumption DEF IInv, TypeOK, Transaction
<1>3. \A m \in Tx : tx[m] # None =>
        /\ tx'[m].source = tx[m].source /\ tx'[m].sequence = tx[m].sequence
        /\ tx'[m].after = tx[m].after /\ tx'[m].to = tx[m].to
        /\ tx'[m].memo = tx[m].memo /\ tx'[m].asset = tx[m].asset
        /\ tx[m].source \in Holder /\ tx[m].sequence \in Nat
  <2>1. \A m \in Tx : tx[m] # None => tx[m].source \in Holder /\ tx[m].sequence \in Nat
    BY DEF IInv, TypeOK, Transaction
  <2>2. /\ tx'[n].source = tx[n].source /\ tx'[n].sequence = tx[n].sequence
        /\ tx'[n].after = tx[n].after /\ tx'[n].to = tx[n].to
        /\ tx'[n].memo = tx[n].memo /\ tx'[n].asset = tx[n].asset
    BY <1>1 DEF IInv, TypeOK, Transaction
  <2> QED
    BY <2>1, <2>2, <1>2
<1>4. In("landed")' = In("landed") \cup (IF state = "landed" THEN {n} ELSE {})
      /\ In("landed") \subseteq Tx /\ n \notin In("landed")
      /\ \A m \in In("landed") : tx[m] # None
  BY <1>1, <1>2, CheckoutAssumption DEF In
<1>5. tx[n] # None
  BY <1>1, CheckoutAssumption
<1>6. \A a \in Holder : chain[a].sequence \in Nat /\ chain'[a].sequence \in Nat
  BY DEF IInv, TypeOK, OnChain
<1>7. state = "landed" => tx[n].sequence = chain[tx[n].source].sequence + 1
  BY DEF InTurn
<1>8. ASSUME NEW a \in Holder, NEW k \in Nat, NEW after, InOrder(a, k, after)
      PROVE  InOrder(a, k, after)'
  <2>1. k <= chain'[a].sequence + 1
    BY <1>6, <1>8 DEF InOrder
  <2>2. ASSUME NEW m \in In("landed")', tx'[m].source = a, tx'[m].sequence < k
        PROVE  m \in after
    <3>1. CASE m \in In("landed")
      BY <2>2, <3>1, <1>3, <1>4, <1>8 DEF InOrder
    <3>2. CASE m = n /\ state = "landed"
      <4>1. tx[n].source = a /\ tx[n].sequence < k
        BY <2>2, <3>2, <1>1, <1>3, <1>5
      <4>2. tx[n].sequence = chain[a].sequence + 1
        BY <4>1, <3>2, <1>7
      <4> QED
        BY <4>1, <4>2, <1>6, <1>8 DEF InOrder
    <3> QED
      BY <2>2, <3>1, <3>2, <1>4
  <2> QED
    BY <2>1, <2>2 DEF InOrder
<1>9. TypeOK'
  BY <1>2 DEF IInv, TypeOK, database
<1>10. CallInv'
  <2>1. ASSUME NEW c \in Call PROVE Sound(c, call[c])'
    <3>1. Sound(c, call[c]) /\ call[c] \in Locals
      BY DEF IInv, CallInv, TypeOK
    <3>2. call[c].pc = "submit" =>
            /\ From(c, call[c]) \in Holder /\ call[c].sequence \in Nat
            /\ InOrder(From(c, call[c]), call[c].sequence, call[c].after)
      BY <3>1 DEF Sound, From, Holder, Locals
    <3>3. call[c].pc = "submit" =>
            InOrder(From(c, call[c]), call[c].sequence, call[c].after)'
      BY <3>2, <1>8 DEF InOrder, From
    <3> QED
      BY <3>1, <3>3, <1>2, <1>4 DEF Sound, NoneOf, Rows, From, database
  <2> QED
    BY <2>1 DEF CallInv, IInv, Apart
<1>11. RowInv'
  BY DEF IInv, RowInv, NoneOf, Rows, database
<1>12. SentInv'
  <2> SUFFICES ASSUME NEW m \in Tx, tx[m] # None
               PROVE  /\ InOrder(tx[m].source, tx[m].sequence, tx[m].after)'
                      /\ tx'[m].source # tx'[m].to
                      /\ m \in PayCall => tx'[m].memo \in Reference /\ orders'[tx'[m].memo] # None
                      /\ tx'[m].to = Platform => m \in PayCall
    BY <1>2 DEF SentInv
  <2>1. InOrder(tx[m].source, tx[m].sequence, tx[m].after)
    BY DEF IInv, SentInv
  <2>2. InOrder(tx[m].source, tx[m].sequence, tx[m].after)'
    BY <2>1, <1>3, <1>8 DEF InOrder
  <2> QED
    BY <2>2, <1>3 DEF IInv, SentInv, database
<1>13. LandedInv'
  <2>1. \A m \in In("landed")' : tx'[m].sequence <= chain'[tx'[m].source].sequence
    <3> SUFFICES ASSUME NEW m \in In("landed")'
                 PROVE  tx'[m].sequence <= chain'[tx'[m].source].sequence
      OBVIOUS
    <3>1. CASE m \in In("landed")
      BY <3>1, <1>3, <1>4, <1>6 DEF IInv, LandedInv
    <3>2. CASE m = n /\ state = "landed"
      BY <3>2, <1>1, <1>3, <1>5, <1>6
    <3> QED
      BY <3>1, <3>2, <1>4
  <2>2. ASSUME NEW m \in In("landed"), tx[m].source = tx[n].source, state = "landed"
        PROVE  tx[m].sequence # tx[n].sequence
    <3>1. tx[m].sequence <= chain[tx[n].source].sequence
      BY <2>2 DEF IInv, LandedInv
    <3>2. tx[m].sequence \in Nat /\ tx[n].source \in Holder
      BY <1>1, <1>3, <1>4, <1>5
    <3> QED
      BY <3>1, <3>2, <2>2, <1>6, <1>7
  <2>3. \A m, p \in In("landed")' :
          m # p /\ tx'[m].source = tx'[p].source => tx'[m].sequence # tx'[p].sequence
    BY <2>2, <1>1, <1>3, <1>4, <1>5 DEF IInv, LandedInv
  <2> QED
    BY <2>1, <2>3 DEF LandedInv
<1> QED
  BY <1>9, <1>10, <1>11, <1>12, <1>13 DEF IInv

\* A call sends its transaction.
LEMMA SubmitStep ==
  ASSUME IInv, NEW c \in Call, Submit(c)
  PROVE  IInv'
<1> DEFINE l == call[c]
           t == Built(c)
<1>1. /\ l.pc = "submit" /\ tx' = [tx EXCEPT ![c] = t]
      /\ call' = [call EXCEPT ![c].pc = "await"]
      /\ UNCHANGED <<database, chain, faults>>
  BY DEF Submit
<1>2. Sound(c, l) /\ l \in Locals
  BY DEF IInv, CallInv, TypeOK
<1>3. /\ c \in Tx /\ l.account \in Account /\ (c \in PayCall => l.reference \in Reference)
      /\ tx[c] = None /\ InOrder(From(c, l), l.sequence, l.after)
      /\ (c \in PayCall => orders[l.reference] # None)
  BY <1>1, <1>2 DEF Sound
<1>4. t \in Transaction /\ t # None /\ t.state = "flying" /\ t.source # t.to
      /\ t.source = From(c, l) /\ t.sequence = l.sequence /\ t.after = l.after
      /\ t.memo = l.reference /\ (t.to = Platform => c \in PayCall)
  BY <1>2, <1>3, CheckoutAssumption
     DEF Built, Transaction, Locals, Source, Destination, From, Holder
<1> HIDE DEF t
<1>5. tx' \in [Tx -> Transaction \cup {None}] /\ tx'[c] = t
      /\ \A m \in Tx \ {c} : tx'[m] = tx[m]
  BY <1>1, <1>3, <1>4 DEF IInv, TypeOK
<1>6. In("landed")' = In("landed") /\ c \notin In("landed")
      /\ \A m \in In("landed") : tx'[m] = tx[m] /\ m \in Tx
  BY <1>3, <1>4, <1>5 DEF In
<1>7. /\ call' \in [Call -> Locals] /\ \A d \in Call \ {c} : call'[d] = call[d]
      /\ call'[c].pc = "await" /\ call'[c].answer = l.answer
  BY <1>1, <1>2 DEF IInv, TypeOK, Locals, Pc
<1>8. TypeOK'
  BY <1>1, <1>5, <1>7 DEF IInv, TypeOK, database
<1>9. CallInv'
  <2>1. ASSUME NEW d \in Call PROVE Sound(d, call[d])'
    <3>1. CASE d = c
      BY <3>1, <1>2, <1>3, <1>4, <1>5, <1>6, <1>7 DEF Sound
    <3>2. CASE d # c
      <4>1. Sound(d, call[d]) /\ call'[d] = call[d]
        BY <3>2, <1>7 DEF IInv, CallInv
      <4> QED
        BY <4>1, <3>2, <1>1, <1>5, <1>6 DEF Sound, InOrder, NoneOf, Rows, From, database
    <3> QED
      BY <3>1, <3>2
  <2>2. Apart'
    BY <1>7 DEF IInv, CallInv, Apart
  <2> QED
    BY <2>1, <2>2 DEF CallInv
<1>10. RowInv'
  BY <1>1 DEF IInv, RowInv, NoneOf, Rows, database
<1>11. SentInv'
  <2> SUFFICES ASSUME NEW m \in Tx, tx'[m] # None
               PROVE  /\ InOrder(tx[m].source, tx[m].sequence, tx[m].after)'
                      /\ tx'[m].source # tx'[m].to
                      /\ m \in PayCall => tx'[m].memo \in Reference /\ orders'[tx'[m].memo] # None
                      /\ tx'[m].to = Platform => m \in PayCall
    BY DEF SentInv
  <2>1. CASE m = c
    BY <2>1, <1>1, <1>3, <1>4, <1>5, <1>6 DEF InOrder, database
  <2>2. CASE m # c
    BY <2>2, <1>1, <1>5, <1>6 DEF IInv, SentInv, InOrder, database
  <2> QED
    BY <2>1, <2>2
<1>12. LandedInv'
  BY <1>1, <1>6 DEF IInv, LandedInv, database
<1> QED
  BY <1>8, <1>9, <1>10, <1>11, <1>12 DEF IInv

-----------------------------------------------------------------------------
(* The steps of calls, and the induction. *)

\* A call arrives.
LEMMA ArriveStep ==
  ASSUME IInv, NEW c \in Call, Arrive(c)
  PROVE  IInv'
<1>1. call[c] \in Locals /\ Sound(c, call[c]) /\ faults \in 0..MaxFaults
  BY DEF IInv, TypeOK, CallInv
<1>2. CASE Create(c)
  <2>1. PICK u \in User :
          call' = [call EXCEPT ![c].pc = "findWallet", ![c].user = u, ![c].known = Rows]
    BY <1>2 DEF Create
  <2> DEFINE l == [call[c] EXCEPT !.pc = "findWallet", !.user = u, !.known = Rows]
  <2>2. /\ c \in CreateCall /\ call[c].pc = "new"
        /\ UNCHANGED <<database, chain, tx, faults>>
    BY <1>2 DEF Create
  <2>3. call' = [call EXCEPT ![c] = l]
    BY <2>1 DEF IInv, TypeOK
  <2>4. Rows \subseteq Account
    BY DEF Rows
  <2>5. l \in Locals /\ l.pc = "findWallet" /\ l.user \in User /\ l.known = Rows
        /\ l.answer = call[c].answer
    BY <1>1, <2>4 DEF Locals, Pc
  <2>6. Sound(c, l)
    BY <1>1, <2>2, <2>5 DEF Sound
  <2> HIDE DEF l
  <2> QED
    BY <1>1, <2>2, <2>3, <2>5, <2>6, LocalStep
<1>3. CASE Sync(c)
  <2>1. PICK a \in Rows :
          call' = [call EXCEPT ![c].pc = "fetch", ![c].account = a]
    BY <1>3 DEF Sync
  <2> DEFINE l == [call[c] EXCEPT !.pc = "fetch", !.account = a]
  <2>2. /\ c \in SyncCall /\ call[c].pc = "new"
        /\ UNCHANGED <<database, chain, tx, faults>>
    BY <1>3 DEF Sync
  <2>3. call' = [call EXCEPT ![c] = l]
    BY <2>1 DEF IInv, TypeOK
  <2>4. l \in Locals /\ l.pc = "fetch" /\ l.account \in Account /\ l.answer = call[c].answer
    BY <1>1 DEF Locals, Pc, Rows
  <2>5. Sound(c, l)
    BY <1>1, <2>2, <2>4 DEF Sound
  <2> HIDE DEF l
  <2> QED
    BY <1>1, <2>2, <2>3, <2>4, <2>5, LocalStep
<1>4. CASE Fund(c)
  <2>1. PICK a \in Rows, s \in Asset :
       call' = [call EXCEPT ![c].pc = IF s = "XLM" THEN "friendbot" ELSE "ensure",
                            ![c].account = a, ![c].asset = s, ![c].amount = FundAmount]
    BY <1>4 DEF Fund
  <2> DEFINE l == [call[c] EXCEPT !.pc = IF s = "XLM" THEN "friendbot" ELSE "ensure",
                                  !.account = a, !.asset = s, !.amount = FundAmount]
  <2>2. /\ c \in FundCall /\ call[c].pc = "new"
        /\ UNCHANGED <<database, chain, tx, faults>>
    BY <1>4 DEF Fund
  <2>3. call' = [call EXCEPT ![c] = l]
    BY <2>1 DEF IInv, TypeOK
  <2>4. l \in Locals /\ l.pc \in {"ensure", "friendbot"} /\ l.account \in Account
        /\ l.answer = call[c].answer
    BY <1>1, CheckoutAssumption DEF Locals, Pc, Rows
  <2>5. Sound(c, l)
    BY <1>1, <2>2, <2>4 DEF Sound
  <2> HIDE DEF l
  <2> QED
    BY <1>1, <2>2, <2>3, <2>4, <2>5, LocalStep
<1>5. CASE Pay(c)
  <2>1. PICK a \in Rows, r \in Reference, m \in Amount, s \in Asset :
          /\ m <= stored[a][s]
          /\ call' = [call EXCEPT ![c].pc = "order", ![c].account = a, ![c].reference = r,
                                  ![c].amount = m, ![c].asset = s]
    BY <1>5 DEF Pay
  <2> DEFINE l == [call[c] EXCEPT !.pc = "order", !.account = a, !.reference = r,
                                  !.amount = m, !.asset = s]
  <2>2. /\ c \in PayCall /\ c \in Tx /\ call[c].pc = "new"
        /\ UNCHANGED <<database, chain, tx, faults>>
    BY <1>5 DEF Pay, Tx
  <2>3. call' = [call EXCEPT ![c] = l]
    BY <2>1 DEF IInv, TypeOK
  <2>4. l \in Locals /\ l.pc = "order" /\ l.account \in Account /\ l.reference \in Reference
        /\ l.amount \in Amount /\ l.answer = call[c].answer
    BY <1>1, CheckoutAssumption DEF Locals, Pc, Rows
  <2>5. Sound(c, l)
    BY <1>1, <2>2, <2>4 DEF Sound
  <2> HIDE DEF l
  <2> QED
    BY <1>1, <2>2, <2>3, <2>4, <2>5, LocalStep
<1>6. CASE Refuse(c)
  BY <1>1, <1>6, EndStep DEF Refuse
<1> QED
  BY <1>2, <1>3, <1>4, <1>5, <1>6 DEF Arrive

\* A call goes on.
LEMMA StepStep ==
  ASSUME IInv, NEW c \in Call, Step(c)
  PROVE  IInv'
<1>1. call[c] \in Locals /\ Sound(c, call[c]) /\ faults \in 0..MaxFaults
  BY DEF IInv, TypeOK, CallInv
<1>2. CASE FindWallet(c)
  <2>1. CASE WalletsOf(call[c].user) # {}
    BY <1>1, <1>2, <2>1, EndStep DEF FindWallet
  <2>2. CASE WalletsOf(call[c].user) = {}
    <3>1. PICK a \in Fresh :
            call' = [call EXCEPT ![c].pc = "saveWallet", ![c].account = a]
      BY <1>2, <2>2 DEF FindWallet
    <3> DEFINE l == [call[c] EXCEPT !.pc = "saveWallet", !.account = a]
    <3>2. call[c].pc = "findWallet" /\ UNCHANGED <<database, chain, tx, faults>>
      BY <1>2 DEF FindWallet
    <3>3. c \in CreateCall /\ call[c].user \in User /\ call[c].known \subseteq Rows
      BY <1>1, <3>2 DEF Sound
    <3>4. a \in Account \ Rows /\ \A d \in CreateCall : call[d].account # a
      BY DEF Fresh
    <3>5. NoneOf(call[c].user, call[c].known)
      BY <2>2, <3>3 DEF NoneOf, WalletsOf
    <3>6. l \in Locals /\ l.pc = "saveWallet" /\ l.account = a /\ l.user = call[c].user
          /\ l.known = call[c].known /\ l.answer = call[c].answer
      BY <1>1, <3>4 DEF Locals, Pc
    <3>7. Sound(c, l)
      BY <1>1, <3>2, <3>3, <3>4, <3>5, <3>6 DEF Sound
    <3>8. /\ call' \in [Call -> Locals] /\ call'[c] = l
          /\ \A d \in Call \ {c} : call'[d] = call[d]
      BY <3>1, <3>6 DEF IInv, TypeOK
    <3> HIDE DEF l
    <3>9. Apart'
      <4>1. \A d \in Call : call[d].pc = "saveWallet" => d \in CreateCall
        BY DEF IInv, CallInv, Sound
      <4> QED
        BY <4>1, <3>4, <3>6, <3>8 DEF IInv, CallInv, Apart
    <3>10. \A d \in Call : Sound(d, call'[d])
      BY <3>7, <3>8 DEF IInv, CallInv
    <3> QED
      BY <1>1, <3>2, <3>8, <3>9, <3>10, LocalsStep
  <2> QED
    BY <2>1, <2>2
<1>3. CASE FetchBalances(c)
  <2> DEFINE l == [call[c] EXCEPT !.pc = "saveBalances",
                                  !.snapshot = chain[call[c].account].balance]
  <2>1. call[c].pc = "fetch" /\ UNCHANGED <<database, chain, tx, faults>>
    BY <1>3 DEF FetchBalances
  <2>2. c \in SyncCall /\ call[c].account \in Account
    BY <1>1, <2>1 DEF Sound
  <2>3. call' = [call EXCEPT ![c] = l]
    BY <1>3 DEF FetchBalances, IInv, TypeOK
  <2>4. chain[call[c].account].balance \in Balances
    BY <2>2 DEF IInv, TypeOK, OnChain, Holder
  <2>5. l \in Locals /\ l.pc = "saveBalances" /\ l.account = call[c].account
        /\ l.answer = call[c].answer
    BY <1>1, <2>4 DEF Locals, Pc
  <2>6. Sound(c, l)
    BY <1>1, <2>1, <2>2, <2>5 DEF Sound
  <2> HIDE DEF l
  <2> QED
    BY <1>1, <2>1, <2>3, <2>5, <2>6, LocalStep
<1>4. ASSUME NEW answer \in {"done", "submitted", "failed"}, answer # "submitted"
      PROVE  /\ Ended(answer) \in Locals /\ Ended(answer).pc # "saveWallet"
             /\ tx' = tx => Sound(c, Ended(answer))'
  BY <1>4, EndedSound DEF Sound, Ended, New
<1>5. CASE SaveBalances(c)
  <2>1. /\ stored' = [stored EXCEPT ![call[c].account] = call[c].snapshot]
        /\ call' = [call EXCEPT ![c] = Ended("done")]
        /\ UNCHANGED <<wallets, orders, chain, tx, faults>>
    BY <1>5 DEF SaveBalances, End
  <2>2. stored' \in [Account -> Balances] /\ orders' \in [Reference -> Amount \cup {None}]
        /\ chain' \in [Holder -> OnChain]
    BY <1>1, <2>1 DEF IInv, TypeOK, Locals
  <2>3. \A a \in Holder : chain'[a].sequence >= chain[a].sequence
    BY <2>1 DEF IInv, TypeOK, OnChain
  <2>4. \A r \in Reference : orders[r] # None => orders'[r] # None
    BY <2>1
  <2>5. Ended("done") \in Locals /\ Ended("done").pc # "saveWallet" /\ Sound(c, Ended("done"))'
    BY <1>4, <2>1
  <2> QED
    BY <2>1, <2>2, <2>3, <2>4, <2>5, DataStep
<1>6. CASE Ensure(c)
  <2> DEFINE l == [call[c] EXCEPT !.pc = IF chain[call[c].account].sequence > 0
                                         THEN "load" ELSE "friendbot"]
  <2>1. call[c].pc = "ensure" /\ UNCHANGED <<database, chain, tx, faults>>
    BY <1>6 DEF Ensure
  <2>2. c \in FundCall /\ c \in Tx /\ c \notin PayCall /\ call[c].account \in Account
    BY <1>1, <2>1, CheckoutAssumption DEF Sound, Tx
  <2>3. call' = [call EXCEPT ![c] = l]
    BY <1>6 DEF Ensure, IInv, TypeOK
  <2>4. l \in Locals /\ l.pc \in {"load", "friendbot"} /\ l.account = call[c].account
        /\ l.answer = call[c].answer
    BY <1>1 DEF Locals, Pc
  <2>5. Sound(c, l)
    BY <1>1, <2>1, <2>2, <2>4 DEF Sound
  <2> HIDE DEF l
  <2> QED
    BY <1>1, <2>1, <2>3, <2>4, <2>5, LocalStep
<1>7. CASE Friendbot(c)
  <2> DEFINE a == call[c].account
  <2>1. call[c].pc = "friendbot" /\ UNCHANGED <<database, tx, faults>>
    BY <1>7 DEF Friendbot
  <2>2. c \in FundCall /\ c \in Tx /\ c \notin PayCall /\ a \in Account /\ tx[c] = None
    BY <1>1, <2>1, CheckoutAssumption DEF Sound, Tx
  <2>3. CASE chain[a].sequence > 0
    BY <1>1, <1>7, <2>1, <2>3, EndStep DEF Friendbot
  <2>4. CASE ~(chain[a].sequence > 0)
    <3>1. chain' = [chain EXCEPT ![a].sequence = 1,
                                 ![a].balance = [@ EXCEPT !["XLM"] = FundAmount]]
      BY <1>7, <2>4 DEF Friendbot
    <3>2. chain \in [Holder -> OnChain] /\ a \in Holder /\ chain[a] \in OnChain
      BY <2>2 DEF IInv, TypeOK, Holder
    <3> DEFINE b1 == [chain[a].balance EXCEPT !["XLM"] = FundAmount]
    <3>3. chain'[a] = [chain[a] EXCEPT !.sequence = 1, !.balance = b1]
          /\ \A b \in Holder \ {a} : chain'[b] = chain[b]
      BY <3>1, <3>2
    <3>4. b1 \in Balances
      BY <3>2, CheckoutAssumption DEF OnChain, Balances
    <3> HIDE DEF b1
    <3>11. chain'[a] = [sequence |-> 1, trusts |-> chain[a].trusts, balance |-> b1]
      BY <3>2, <3>3 DEF OnChain
    <3>12. chain[a].trusts \in BOOLEAN
      BY <3>2 DEF OnChain
    <3>5. chain'[a] \in OnChain /\ chain'[a].sequence = 1
      BY <3>4, <3>11, <3>12 DEF OnChain
    <3>6. chain' \in [Holder -> OnChain]
      BY <3>1, <3>2, <3>3, <3>5
    <3>7. \A b \in Holder : chain'[b].sequence >= chain[b].sequence
      <4>1. \A b \in Holder : chain[b].sequence \in Nat
        BY <3>2 DEF OnChain
      <4> QED
        <5>1. chain[a].sequence = 0
          BY <4>1, <2>4, <3>2
        <5>2. \A b \in Holder \ {a} : chain'[b].sequence >= chain[b].sequence
          BY <4>1, <3>3
        <5> QED
          BY <5>1, <5>2, <3>5
    <3>8. /\ UNCHANGED <<wallets, stored, orders, tx, faults>>
          /\ stored' \in [Account -> Balances] /\ orders' \in [Reference -> Amount \cup {None}]
      BY <2>1 DEF database, IInv, TypeOK
    <3>9. CASE call[c].asset = "XLM"
      <4>1. call' = [call EXCEPT ![c] = Ended("done")]
        BY <1>7, <2>4, <3>9 DEF Friendbot, End
      <4> QED
        BY <4>1, <1>4, <3>6, <3>7, <3>8, DataStep
    <3>10. CASE call[c].asset # "XLM"
      <4>1. PICK l \in Locals : l = [call[c] EXCEPT !.pc = "load"]
        BY <1>1 DEF Locals, Pc
      <4>2. call' = [call EXCEPT ![c] = l]
        BY <1>7, <2>4, <3>10, <4>1 DEF Friendbot, IInv, TypeOK
      <4>3. l.pc = "load" /\ l.account \in Account /\ l.answer = call[c].answer
        BY <1>1, <2>2, <4>1 DEF Locals
      <4>4. Sound(c, l)'
        BY <1>1, <2>1, <2>2, <4>3 DEF Sound, In
      <4> QED
        BY <4>2, <4>3, <4>4, <3>6, <3>7, <3>8, DataStep
    <3> QED
      BY <3>9, <3>10
  <2> QED
    BY <2>3, <2>4
<1>8. CASE EnsureOrder(c)
  <2> DEFINE r == call[c].reference
  <2>1. /\ call[c].pc = "order"
        /\ orders' = [orders EXCEPT ![r] = IF @ = None THEN call[c].amount ELSE @]
        /\ UNCHANGED <<wallets, stored, chain, tx, faults>>
    BY <1>8 DEF EnsureOrder
  <2>2. /\ c \in PayCall /\ c \in Tx /\ call[c].account \in Account /\ r \in Reference
        /\ call[c].amount \in Amount /\ tx[c] = None
    BY <1>1, <2>1 DEF Sound
  <2>3. orders' \in [Reference -> Amount \cup {None}] /\ orders'[r] # None
        /\ \A q \in Reference : orders[q] # None => orders'[q] # None
    BY <2>1, <2>2, CheckoutAssumption DEF IInv, TypeOK
  <2>4. PICK l \in Locals : l = [call[c] EXCEPT !.pc = "load"]
    BY <1>1 DEF Locals, Pc
  <2>5. call' = [call EXCEPT ![c] = l]
    BY <1>8, <2>4 DEF EnsureOrder, IInv, TypeOK
  <2>6. l.pc = "load" /\ l.account \in Account /\ l.reference = r /\ l.answer = call[c].answer
    BY <1>1, <2>2, <2>4 DEF Locals
  <2>7. Sound(c, l)'
    BY <1>1, <2>1, <2>2, <2>3, <2>6 DEF Sound, In
  <2>8. stored' \in [Account -> Balances] /\ chain' \in [Holder -> OnChain]
        /\ \A a \in Holder : chain'[a].sequence >= chain[a].sequence
    BY <2>1 DEF IInv, TypeOK, OnChain
  <2> HIDE DEF r
  <2> QED
    BY <2>1, <2>3, <2>5, <2>6, <2>7, <2>8, DataStep
<1>9. CASE LoadAccount(c)
  <2> DEFINE a == Source(c)
  <2>1. call[c].pc = "load" /\ UNCHANGED <<database, chain, tx, faults>>
    BY <1>9 DEF LoadAccount
  <2>2. CASE chain[a].sequence = 0
    BY <1>1, <1>9, <2>1, <2>2, EndStep DEF LoadAccount
  <2>3. CASE chain[a].sequence # 0
    <3> DEFINE l == [call[c] EXCEPT !.pc = "submit", !.after = In("landed"),
                                    !.sequence = chain[a].sequence + 1]
    <3>1. call' = [call EXCEPT ![c] = l]
      BY <1>9, <2>3 DEF LoadAccount, IInv, TypeOK
    <3>2. /\ c \in Tx /\ call[c].account \in Account /\ tx[c] = None
          /\ (c \in PayCall => call[c].reference \in Reference
                               /\ orders[call[c].reference] # None)
      BY <1>1, <2>1 DEF Sound
    <3>3. a \in Holder /\ chain[a].sequence \in Nat
      BY <3>2 DEF Source, Holder, IInv, TypeOK, OnChain
    <3>4. In("landed") \subseteq Tx
      BY DEF In
    <3> DEFINE k == chain[a].sequence + 1
    <3>8. k \in Nat
      BY <3>3
    <3> HIDE DEF k
    <3>9. /\ l \in Locals /\ l.pc = "submit" /\ l.account = call[c].account
          /\ l.reference = call[c].reference /\ l.answer = call[c].answer
          /\ l.after = In("landed") /\ l.sequence = k
      BY <1>1, <3>4, <3>8 DEF Locals, Pc, k
    <3>5. /\ l \in Locals /\ l.pc = "submit" /\ l.account = call[c].account
          /\ l.reference = call[c].reference /\ l.answer = call[c].answer
          /\ l.after = In("landed") /\ l.sequence = chain[a].sequence + 1
          /\ From(c, l) = a
      BY <3>9 DEF From, Source, k
    <3>6. InOrder(From(c, l), l.sequence, l.after)
      BY <3>3, <3>5 DEF InOrder
    <3> HIDE DEF l
    <3>7. Sound(c, l)
      BY <1>1, <2>1, <3>2, <3>5, <3>6 DEF Sound
    <3> QED
      BY <1>1, <2>1, <3>1, <3>5, <3>7, LocalStep
  <2> QED
    BY <2>2, <2>3
<1>10. CASE Answer(c)
  <2>1. call[c].pc = "await" /\ UNCHANGED <<database, chain, tx, faults>>
    BY <1>10 DEF Answer
  <2>2. c \in Tx /\ tx[c] # None
    BY <1>1, <2>1 DEF Sound
  <2>3. CASE tx[c].state = "landed"
    BY <1>1, <1>10, <2>1, <2>2, <2>3, EndStep DEF Answer, In
  <2>4. CASE tx[c].state # "landed"
    BY <1>1, <1>10, <2>1, <2>4, EndStep DEF Answer
  <2> QED
    BY <2>3, <2>4
<1> QED
  BY <1>2, <1>3, <1>5, <1>6, <1>7, <1>8, <1>9, <1>10, SaveWalletStep, SubmitStep DEF Step

\* The invariant is kept by every step.
LEMMA Inductive == IInv /\ [Next]_vars => IInv'
<1> SUFFICES ASSUME IInv, [Next]_vars PROVE IInv'
  OBVIOUS
<1>1. faults \in 0..MaxFaults /\ chain \in [Holder -> OnChain]
      /\ \A a \in Holder : chain[a].sequence \in Nat
  BY DEF IInv, TypeOK, OnChain
<1>2. ASSUME NEW c \in Call, Fail(c) PROVE IInv'
  <2>1. End(c, "failed") /\ UNCHANGED <<database, chain, tx>> /\ faults' \in 0..MaxFaults
    BY <1>1, <1>2, CheckoutAssumption DEF Fail
  <2> QED
    BY <2>1, EndStep
<1>3. CASE Crash
  <2>1. /\ UNCHANGED <<database, chain, tx>> /\ faults' \in 0..MaxFaults
        /\ call' = [c \in Call |-> IF call[c].pc \in {"new", "done"} THEN call[c]
                                   ELSE Ended("failed")]
    BY <1>1, <1>3, CheckoutAssumption DEF Crash
  <2>2. \A c \in Call :
          Ended("failed") \in Locals /\ Sound(c, Ended("failed")) /\ Ended("failed").pc = "done"
    BY EndedSound
  <2>3. \A c \in Call : call'[c] = call[c] \/ call'[c] = Ended("failed")
    BY <2>1
  <2>4. call' \in [Call -> Locals]
    BY <2>1, <2>2 DEF IInv, TypeOK
  <2>5. Apart'
    BY <2>2, <2>3 DEF IInv, CallInv, Apart
  <2>6. \A c \in Call : Sound(c, call'[c])
    BY <2>2, <2>3 DEF IInv, CallInv
  <2> QED
    BY <2>1, <2>4, <2>5, <2>6, LocalsStep
<1>4. ASSUME NEW a \in Account, Trust(a) PROVE IInv'
  <2>1. /\ chain' = [chain EXCEPT ![a].trusts = TRUE] /\ a \in Holder
        /\ UNCHANGED <<wallets, stored, orders, tx, call, faults>>
    BY <1>4 DEF Trust, database, Holder
  <2>2. chain' \in [Holder -> OnChain]
        /\ \A b \in Holder : chain'[b].sequence = chain[b].sequence
    BY <1>1, <2>1 DEF OnChain
  <2>3. stored' \in [Account -> Balances] /\ orders' \in [Reference -> Amount \cup {None}]
        /\ call' \in [Call -> Locals] /\ Apart'
    BY <2>1 DEF IInv, TypeOK, CallInv, Apart
  <2>4. \A b \in Holder : chain'[b].sequence >= chain[b].sequence
    BY <1>1, <2>2
  <2> QED
    BY <2>1, <2>2, <2>3, <2>4, DataSteps
<1>5. ASSUME NEW n \in Tx, Land(n) PROVE IInv'
  <2> DEFINE t == tx[n]
  <2>1. /\ n \in In("flying") /\ InTurn(n) /\ Payable(n) /\ Becomes(n, "landed")
        /\ UNCHANGED <<database, call, faults>>
        /\ chain' = [a \in Holder |->
             [chain[a] EXCEPT
                !.sequence = IF a = t.source THEN @ + 1 ELSE @,
                !.balance[t.asset] = (IF a = t.to THEN @ + t.amount ELSE @)
                                     - (IF a = t.source THEN t.amount ELSE 0)]]
    BY <1>5 DEF Land
  <2>2. t \in Transaction /\ t.source # t.to
    BY <2>1, CheckoutAssumption DEF IInv, TypeOK, SentInv, In
  <2>3. /\ t.source \in Holder /\ t.sequence \in Nat /\ t.asset \in Asset /\ t.amount \in Nat
        /\ t.sequence = chain[t.source].sequence + 1
        /\ chain[t.source].balance[t.asset] >= t.amount
    BY <2>1, <2>2 DEF Transaction, InTurn, Payable
  <2> HIDE DEF t
  <2>4. ASSUME NEW a \in Holder
        PROVE  /\ chain'[a] \in OnChain
               /\ chain'[a].sequence = IF a = t.source THEN chain[a].sequence + 1
                                       ELSE chain[a].sequence
    <3> DEFINE s == IF a = t.source THEN chain[a].sequence + 1 ELSE chain[a].sequence
               x == chain[a].balance[t.asset]
               y == (IF a = t.to THEN x + t.amount ELSE x)
                    - (IF a = t.source THEN t.amount ELSE 0)
               b == [chain[a].balance EXCEPT ![t.asset] = y]
    <3>1. chain[a] \in OnChain /\ chain[a].trusts \in BOOLEAN
          /\ chain[a].balance \in [Asset -> Nat] /\ chain[a].sequence \in Nat
      BY <1>1 DEF OnChain, Balances
    <3>2. x \in Nat
      BY <3>1, <2>3
    <3>3. y \in Nat
      <4>1. a = t.source => x >= t.amount /\ a # t.to
        BY <2>2, <2>3
      <4> HIDE DEF x
      <4> QED
        BY <4>1, <3>2, <2>3
    <3>4. s \in Nat
      BY <3>1
    <3>5. chain'[a] = [chain[a] EXCEPT !.sequence = s, !.balance = b]
      BY <2>1, <3>1 DEF OnChain
    <3> HIDE DEF y, s
    <3>6. b \in Balances
      BY <3>1, <3>3 DEF Balances
    <3> HIDE DEF b
    <3>7. chain'[a] = [sequence |-> s, trusts |-> chain[a].trusts, balance |-> b]
      BY <3>1, <3>5 DEF OnChain
    <3> QED
      BY <3>1, <3>4, <3>6, <3>7 DEF OnChain, s
  <2>5. chain' \in [Holder -> OnChain]
    <3>1. chain' = [a \in Holder |-> chain'[a]]
      BY <2>1
    <3> QED
      BY <2>4, <3>1
  <2>6. chain'[t.source].sequence = t.sequence
        /\ \A a \in Holder : chain'[a].sequence >= chain[a].sequence
    BY <1>1, <2>3, <2>4
  <2> QED
    BY <2>1, <2>5, <2>6, SettleStep DEF t
<1>6. ASSUME NEW n \in Tx, Bounce(n) PROVE IInv'
  <2>1. /\ n \in In("flying") /\ Becomes(n, "failed") /\ UNCHANGED <<database, call, faults>>
        /\ chain' = [chain EXCEPT ![tx[n].source].sequence = @ + 1]
    BY <1>6 DEF Bounce
  <2>2. tx[n].source \in Holder
    BY <2>1, CheckoutAssumption DEF IInv, TypeOK, In, Transaction
  <2>3. /\ chain' \in [Holder -> OnChain]
        /\ \A a \in Holder : chain'[a].sequence =
             IF a = tx[n].source THEN chain[a].sequence + 1 ELSE chain[a].sequence
    BY <1>1, <2>1, <2>2 DEF OnChain
  <2>4. \A a \in Holder : chain'[a].sequence >= chain[a].sequence
    BY <1>1, <2>3
  <2> QED
    BY <2>1, <2>3, <2>4, SettleStep
<1>7. ASSUME NEW n \in Tx, Drop(n) PROVE IInv'
  <2>1. /\ n \in In("flying") /\ Becomes(n, "dropped")
        /\ UNCHANGED <<database, call, faults>> /\ chain' = chain
    BY <1>7 DEF Drop
  <2>2. chain' \in [Holder -> OnChain]
        /\ \A a \in Holder : chain'[a].sequence >= chain[a].sequence
    BY <1>1, <2>1
  <2> QED
    BY <2>1, <2>2, SettleStep
<1>8. CASE UNCHANGED vars
  <2>1. \A c \in Call : Sound(c, call'[c])
    BY <1>8 DEF vars, IInv, CallInv
  <2>2. UNCHANGED <<database, chain, tx>> /\ call' \in [Call -> Locals] /\ Apart'
    BY <1>8 DEF vars, database, IInv, TypeOK, CallInv, Apart
  <2> QED
    BY <1>1, <1>8, <2>1, <2>2, LocalsStep DEF vars
<1> QED
  BY <1>2, <1>3, <1>4, <1>5, <1>6, <1>7, <1>8, ArriveStep, StepStep DEF Next

LEMMA Invariant == Spec => []IInv
BY InitInv, Inductive, PTL DEF Spec

-----------------------------------------------------------------------------
(* The theorems. *)

\* Every variable keeps its range; no balance of the network turns negative.
THEOREM CheckoutTypeCorrect == Spec => []TypeOK
<1>1. IInv => TypeOK
  BY DEF IInv
<1> QED
  BY <1>1, Invariant, PTL

\* Two wallets of one user come from calls of createUserWallet that overlapped.
THEOREM SecondWalletsAreRaces == Spec => []SecondWalletOnlyByRace
<1>1. IInv => SecondWalletOnlyByRace
  BY DEF IInv, RowInv, NoneOf, SecondWalletOnlyByRace
<1> QED
  BY <1>1, Invariant, PTL

\* A wallet moves money for an order twice only when the later call of sendPayment
\* loaded the account after the earlier payment had landed.
THEOREM SecondPaymentsFollowLanding == Spec => []PaidTwiceOnlyAfterLanding
<1>1. IInv => PaidTwiceOnlyAfterLanding
  <2> SUFFICES ASSUME IInv, NEW n \in In("landed"), NEW m \in In("landed"),
                      n # m, tx[n].source = tx[m].source
               PROVE  n \in tx[m].after \/ m \in tx[n].after
    BY DEF PaidTwiceOnlyAfterLanding
  <2>1. n \in Tx /\ m \in Tx /\ tx[n] # None /\ tx[m] # None
    BY DEF In
  <2>2. tx[n].sequence \in Nat /\ tx[m].sequence \in Nat /\ tx[n].sequence # tx[m].sequence
    BY <2>1 DEF IInv, TypeOK, Transaction, LandedInv
  <2>3. CASE tx[n].sequence < tx[m].sequence
    BY <2>1, <2>3 DEF IInv, SentInv, InOrder
  <2>4. CASE tx[m].sequence < tx[n].sequence
    BY <2>1, <2>4 DEF IInv, SentInv, InOrder
  <2> QED
    BY <2>2, <2>3, <2>4
<1> QED
  BY <1>1, Invariant, PTL

\* Each payment that lands on the platform finds its order: createOrder saves it
\* before payWithWalletOrder calls sendPayment.
THEOREM LandedMoneyHasAnOrder == Spec => []LandedMoneyFindsItsOrder
<1>1. IInv => LandedMoneyFindsItsOrder
  BY DEF IInv, SentInv, In, LandedMoneyFindsItsOrder
<1> QED
  BY <1>1, Invariant, PTL
-----------------------------------------------------------------------------
(* What an answer is worth when no await failed. *)

\* A call that answers is over; its transaction is settled then, and the caller
\* was told whether it landed.
Told(c) ==
  /\ call[c].answer # "none" => call[c].pc = "done"
  /\ call[c].pc = "done" /\ tx[c] # None =>
       /\ tx[c].state # "flying"
       /\ tx[c].state = "landed" <=> call[c].answer = "submitted"

ToldInv == \A c \in Tx : Told(c)

\* A step of a call leaves the other calls and their transactions alone; it ends
\* the call after its transaction was sent only with Horizon's answer.
LEMMA CallFacts ==
  ASSUME IInv, NEW c \in Call, Arrive(c) \/ Step(c)
  PROVE  /\ \A d \in Call \ {c} : call'[d] = call[d]
         /\ \A n \in Tx \ {c} : tx'[n] = tx[n]
         /\ call'[c].pc = "done" => Answer(c) \/ (tx' = tx /\ call[c].pc \notin {"await", "done"})
         /\ call[c].pc # "done"
         /\ call'[c].pc = "done" \/ call'[c].answer = call[c].answer
<1>1. call \in [Call -> Locals] /\ tx \in [Tx -> Transaction \cup {None}]
  BY DEF IInv, TypeOK
<1>2. call[c].pc # "done"
  <2>1. CASE Arrive(c)
    <3>1. Create(c) \/ Sync(c) \/ Fund(c) \/ Pay(c) \/ Refuse(c)
      BY <2>1 DEF Arrive
    <3>2. call[c].pc = "new"
      BY <3>1 DEF Create, Sync, Fund, Pay, Refuse
    <3> QED
      BY <3>2
  <2>2. CASE Step(c)
    BY <2>2 DEF Step, FindWallet, SaveWallet, FetchBalances, SaveBalances, Ensure, Friendbot,
                EnsureOrder, LoadAccount, Submit, Answer
  <2> QED
    BY <2>1, <2>2
<1>3. call'[c].pc = "done" \/ call'[c].answer = call[c].answer
  <2>1. ASSUME NEW answer, End(c, answer) PROVE call'[c].pc = "done"
    BY <1>1, <2>1 DEF End, Ended, New
  <2>2. call[c] \in Locals
    BY <1>1
  <2>3. CASE Arrive(c)
    <3>1. CASE Create(c)
      BY <1>1, <2>2, <3>1 DEF Create, Locals
    <3>2. CASE Sync(c)
      BY <1>1, <2>2, <3>2 DEF Sync, Locals
    <3>3. CASE Fund(c)
      BY <1>1, <2>2, <3>3 DEF Fund, Locals
    <3>4. CASE Pay(c)
      BY <1>1, <2>2, <3>4 DEF Pay, Locals
    <3>5. CASE Refuse(c)
      BY <2>1, <3>5 DEF Refuse
    <3> QED
      BY <2>3, <3>1, <3>2, <3>3, <3>4, <3>5 DEF Arrive
  <2>4. CASE FindWallet(c) \/ SaveWallet(c) \/ FetchBalances(c) \/ SaveBalances(c)
    BY <1>1, <2>1, <2>2, <2>4 DEF FindWallet, SaveWallet, FetchBalances, SaveBalances, Locals
  <2>5. CASE Ensure(c) \/ Friendbot(c) \/ EnsureOrder(c)
    BY <1>1, <2>1, <2>2, <2>5 DEF Ensure, Friendbot, EnsureOrder, Locals
  <2>6. CASE LoadAccount(c) \/ Submit(c) \/ Answer(c)
    BY <1>1, <2>1, <2>2, <2>6 DEF LoadAccount, Submit, Answer, Locals
  <2> QED
    BY <2>3, <2>4, <2>5, <2>6 DEF Step
<1>4. CASE Submit(c)
  <2>1. call' = [call EXCEPT ![c].pc = "await"] /\ tx' = [tx EXCEPT ![c] = Built(c)]
    BY <1>4 DEF Submit
  <2>2. call[c] \in Locals
    BY <1>1
  <2>3. call'[c].pc = "await"
    BY <1>1, <2>1, <2>2 DEF Locals
  <2> QED
    BY <1>1, <1>2, <1>3, <2>1, <2>3
<1>5. CASE ~Submit(c)
  <2>1. tx' = tx
    BY <1>5 DEF Arrive, Step, Create, Sync, Fund, Pay, Refuse, FindWallet, SaveWallet,
                FetchBalances, SaveBalances, Ensure, Friendbot, EnsureOrder, LoadAccount, Answer
  <2>2. \A d \in Call \ {c} : call'[d] = call[d]
    <3>1. CASE Arrive(c)
      <4>1. CASE Create(c) \/ Sync(c) \/ Refuse(c)
        BY <1>1, <4>1 DEF Create, Sync, Refuse, End
      <4>2. CASE Fund(c)
        BY <1>1, <4>2 DEF Fund
      <4>3. CASE Pay(c)
        BY <1>1, <4>3 DEF Pay
      <4> QED
        BY <3>1, <4>1, <4>2, <4>3 DEF Arrive
    <3>2. CASE Step(c)
      BY <1>1, <1>5, <3>2 DEF Step, FindWallet, SaveWallet, FetchBalances, SaveBalances,
                Ensure, Friendbot, EnsureOrder, LoadAccount, Answer, End
    <3> QED
      BY <3>1, <3>2
  <2>3. Answer(c) \/ call[c].pc \notin {"await", "done"}
    BY <1>5 DEF Arrive, Step, Create, Sync, Fund, Pay, Refuse, FindWallet, SaveWallet,
                FetchBalances, SaveBalances, Ensure, Friendbot, EnsureOrder, LoadAccount
  <2> QED
    BY <1>2, <1>3, <2>1, <2>2, <2>3
<1> QED
  BY <1>4, <1>5

LEMMA ToldStep ==
  ASSUME IInv, ToldInv, [Next]_vars, faults' = 0
  PROVE  ToldInv'
<1>1. /\ call \in [Call -> Locals] /\ tx \in [Tx -> Transaction \cup {None}]
      /\ Tx \subseteq Call /\ faults \in Nat
  BY CheckoutAssumption DEF IInv, TypeOK, Tx, Call
<1>2. \A c \in Tx : call[c].pc \notin {"await", "done"} => tx[c] = None
  BY <1>1 DEF IInv, CallInv, Sound
<1>3. ASSUME NEW c \in Call, Arrive(c) \/ Step(c) PROVE ToldInv'
  <2> SUFFICES ASSUME NEW d \in Tx PROVE Told(d)'
    BY DEF ToldInv
  <2>1. CASE d # c
    <3>1. call'[d] = call[d] /\ tx'[d] = tx[d]
      BY <1>1, <1>3, <2>1, CallFacts
    <3> QED
      BY <3>1 DEF ToldInv, Told
  <2>2. CASE d = c
    <3>1. CASE Answer(c)
      <4>1. /\ tx[c].state # "flying" /\ tx' = tx
            /\ call'[c] = Ended(IF tx[c].state = "landed" THEN "submitted" ELSE "failed")
        BY <1>1, <3>1 DEF Answer, End
      <4>2. \A a \in {"submitted", "failed"} : Ended(a).answer = a
        BY DEF Ended, New
      <4>3. call'[c].answer = "submitted" <=> tx[c].state = "landed"
        BY <4>1, <4>2
      <4>4. call'[c].pc = "done"
        BY <4>1 DEF Ended, New
      <4> QED
        BY <2>2, <4>1, <4>3, <4>4 DEF Told
    <3>2. CASE ~Answer(c)
      <4>1. call'[c].pc = "done" => tx'[d] = None
        BY <1>2, <1>3, <2>2, <3>2, CallFacts
      <4>2. call[c].answer = "none"
        BY <1>3, <2>2, CallFacts DEF ToldInv, Told
      <4>3. call'[c].answer # "none" => call'[c].pc = "done"
        BY <1>3, <4>2, CallFacts
      <4> QED
        BY <2>2, <4>1, <4>3 DEF Told
    <3> QED
      BY <3>1, <3>2
  <2> QED
    BY <2>1, <2>2
\* The network settles a transaction that flies, whose caller still waits.
<1>4. ASSUME NEW n \in Tx, n \in In("flying"), NEW state, Becomes(n, state), call' = call
      PROVE  ToldInv'
  <2>1. tx[n].state = "flying" /\ tx[n] # None /\ \A m \in Tx \ {n} : tx'[m] = tx[m]
    BY <1>1, <1>4 DEF In, Becomes
  <2>2. call[n].pc # "done"
    BY <2>1 DEF ToldInv, Told
  <2> QED
    BY <1>4, <2>1, <2>2 DEF ToldInv, Told
<1>5. ASSUME NEW n \in Tx, Land(n) \/ Bounce(n) \/ Drop(n) PROVE ToldInv'
  BY <1>4, <1>5 DEF Land, Bounce, Drop
<1>6. CASE (\E a \in Account : Trust(a)) \/ UNCHANGED vars
  <2>1. call' = call /\ tx' = tx
    BY <1>6 DEF Trust, vars
  <2> QED
    BY <2>1 DEF ToldInv, Told
<1>7. ~Crash /\ \A c \in Call : ~Fail(c)
  BY <1>1 DEF Crash, Fail
<1> QED
  BY <1>3, <1>5, <1>6, <1>7 DEF Next

\* The faults so far were there before.
LEMMA FaultsStay ==
  ASSUME IInv, [Next]_vars, faults' = 0
  PROVE  faults = 0
<1>1. faults \in Nat
  BY CheckoutAssumption DEF IInv, TypeOK
<1>2. ASSUME NEW c \in Call, Arrive(c) \/ Step(c) \/ Fail(c)
      PROVE  faults' = faults \/ faults' = faults + 1
  BY <1>2 DEF Arrive, Step, Create, Sync, Fund, Pay, Refuse, FindWallet, SaveWallet,
              FetchBalances, SaveBalances, Ensure, Friendbot, EnsureOrder, LoadAccount,
              Submit, Answer, Fail
<1>3. Crash => faults' = faults + 1
  BY DEF Crash
<1>4. faults' = faults \/ faults' = faults + 1
  BY <1>2, <1>3 DEF Next, Land, Bounce, Drop, Trust, vars
<1> QED
  BY <1>1, <1>4

\* A caller of payWithWalletOrder who is told of an error, while no await has timed
\* out and the process has not died, has not paid and will not: sendPayment threw
\* before the transaction was sent, or Horizon answered that it failed. Asking
\* again is safe then. It takes a timeout or a crash to leave a payment in flight.
THEOREM FaultlessFailureMovesNothing == Spec => []FailureMovesNothing
<1> DEFINE Inv == faults = 0 => ToldInv
<1>1. Init => Inv
  <2> SUFFICES ASSUME Init, NEW c \in Tx PROVE Told(c)
    BY DEF ToldInv
  <2>1. call[c] = New /\ tx[c] = None
    BY DEF Init, Tx, Call
  <2> QED
    BY <2>1 DEF Told, New
<1>2. IInv /\ Inv /\ [Next]_vars => Inv'
  BY FaultsStay, ToldStep
<1>3. IInv /\ Inv => FailureMovesNothing
  <2> SUFFICES ASSUME IInv, ToldInv, NEW c \in PayCall, call[c].answer = "failed"
               PROVE  c \notin In("flying") \cup In("landed")
    BY DEF FailureMovesNothing
  <2>1. call[c].pc = "done" /\ c \in Tx
    BY DEF ToldInv, Told, Tx
  <2> QED
    BY <2>1 DEF ToldInv, Told, In
<1> HIDE DEF Inv
<1> QED
  BY <1>1, <1>2, <1>3, Invariant, PTL DEF Spec

=============================================================================
