------------------------ MODULE OrderCreationProofs ------------------------
(***************************************************************************)
(* The safety properties of OrderCreation for any number of concurrent     *)
(* calls, references, currencies and memos, however often awaits fail and  *)
(* the process dies, and that the endpoints implement OrderBook.           *)
(***************************************************************************)
EXTENDS OrderCreation, TLAPS

(* The inductive invariant. *)

Virtual(q) == q.service = "virtual"

\* Bridge was asked for the account of q, and has it with the memo m if it was
\* asked once.
Memorized(q, m) ==
  /\ asked[Key(q)] # "never"
  /\ asked[Key(q)] = "once" => bridge[Key(q)] = m

\* What a call knows at each step.
Sound(l) ==
  /\ l.pc # "idle" => l.request \in Request
  /\ l.pc \in {"find", "draw"} => l.account = None
  /\ l.pc \in {"findInactive", "reactivate", "create"} =>
       l.memo \in Memo /\ l.account = None /\ Virtual(l.request)
  /\ l.pc = "save" =>
       /\ l.memo \in Memo
       /\ l.account \in {None, Key(l.request)}
       /\ ~Virtual(l.request) => l.account = None
       /\ l.account # None => Memorized(l.request, l.memo)
  /\ l.pc = "answer" => l.order \in orders /\ Matches(l.order, l.request)

CallInv == \A c \in Client : Sound(call[c])

\* An order has the account of its own reference and currency, and Bridge has
\* it with the order's memo if it was asked once.
Kept(o) ==
  /\ o.account = IF Virtual(o.request) THEN Key(o.request) ELSE None
  /\ Virtual(o.request) => Memorized(o.request, o.memo)

OrderInv ==
  /\ \A o \in orders \ astray : Kept(o)
  /\ \A o, p \in orders : o.request = p.request \/ o.memo = p.memo => o = p

RowInv ==
  \A a \in Account :
    \/ rows[a] = 0
    \/ rows[a] = 1 /\ \E o \in orders \ astray : o.account = a

AskInv == \A a \in Account : asked[a] = "never" => bridge[a] = None

ToldInv == \A a \in told : a.order \in orders /\ Matches(a.order, a.request)

IInv == TypeOK /\ CallInv /\ OrderInv /\ RowInv /\ AskInv /\ ToldInv

-----------------------------------------------------------------------------
\* A request has one key, and it names an account; requests of one service
\* with one key are equal.
LEMMA KeyFacts ==
  /\ \A q \in Request : Key(q) \in Account /\ IdempotencyKey(q) = Key(q)
  /\ \A q, r \in Request : Key(q) = Key(r) /\ q.service = r.service => q = r
BY DEF Request, Key, IdempotencyKey, Account

\* A step that changes nothing but the locals of c, and leaves them sound.
LEMMA LocalStep ==
  ASSUME IInv, NEW c \in Client, NEW l \in Locals, Sound(l),
         call' = [call EXCEPT ![c] = l],
         UNCHANGED <<database, bridge, told, asked>>,
         calls' \in 0..MaxCalls, failures' \in 0..MaxFailures,
         crashes' \in 0..MaxCrashes
  PROVE  IInv'
<1>1. TypeOK'
  BY DEF IInv, TypeOK, database
<1>2. CallInv'
  <2> SUFFICES ASSUME NEW d \in Client PROVE Sound(call[d])'
    BY DEF CallInv
  <2>1. call'[d] = l \/ call'[d] = call[d]
    BY DEF IInv, TypeOK
  <2>2. Sound(call'[d])
    BY <2>1 DEF IInv, CallInv
  <2> QED
    BY <2>2 DEF Sound, Memorized, database
<1>3. OrderInv' /\ RowInv' /\ AskInv' /\ ToldInv'
  BY DEF IInv, OrderInv, Kept, Memorized, RowInv, AskInv, ToldInv, database
<1> QED
  BY <1>1, <1>2, <1>3 DEF IInv

\* The empty locals are sound.
LEMMA IdleSound == Idle \in Locals /\ Sound(Idle)
BY CreationAssumption DEF Idle, Locals, Pc, Sound

LEMMA InitInv == Init => IInv
<1> SUFFICES ASSUME Init PROVE IInv
  OBVIOUS
<1>1. TypeOK
  <2>1. orders \subseteq Order /\ told \subseteq Answer /\ inactive \in BOOLEAN
    BY DEF Init
  <2>2. rows \in [Account \cup {None} -> Nat] /\ astray \subseteq orders /\ bridge \in [Account -> Memo \cup {None}]
        /\ asked \in [Account -> {"never", "once", "again"}]
    BY DEF Init
  <2>3. call \in [Client -> Locals]
    BY IdleSound DEF Init
  <2>4. calls \in 0..MaxCalls /\ failures \in 0..MaxFailures /\ crashes \in 0..MaxCrashes
    BY CreationAssumption DEF Init
  <2> QED
    BY <2>1, <2>2, <2>3, <2>4 DEF TypeOK
<1>2. CallInv
  BY DEF Init, CallInv, Sound, Idle
<1>3. OrderInv /\ RowInv /\ AskInv /\ ToldInv
  BY DEF Init, OrderInv, RowInv, AskInv, ToldInv
<1> QED
  BY <1>1, <1>2, <1>3 DEF IInv

\* A step in which Bridge is asked for the account of k: it has it now, with
\* the memo m unless it had it before, or it did nothing.
LEMMA BridgeStep ==
  ASSUME IInv, NEW c \in Client, NEW l \in Locals, Sound(l)',
         NEW k \in Account, NEW m \in Memo,
         call' = [call EXCEPT ![c] = l],
         \/ bridge' = [bridge EXCEPT ![k] = IF @ = None THEN m ELSE @]
         \/ bridge' = bridge,
         asked' = [asked EXCEPT ![k] = AskedAgain(k)],
         UNCHANGED <<database, told>>, UNCHANGED <<calls, crashes>>,
         failures' \in 0..MaxFailures
  PROVE  IInv'
<1>1. TypeOK'
  BY CreationAssumption DEF IInv, TypeOK, database, AskedAgain
<1>2. AskInv'
  BY CreationAssumption DEF IInv, AskInv, TypeOK, AskedAgain
<1>3. \A j \in Account : asked[j] # "never" =>
        /\ asked'[j] # "never"
        /\ asked'[j] = "once" => asked[j] = "once" /\ bridge'[j] = bridge[j]
  BY DEF IInv, TypeOK, AskedAgain
<1>4. \A q, n : Key(q) \in Account /\ Memorized(q, n) => Memorized(q, n)'
  BY <1>3 DEF Memorized
<1>5. CallInv'
  <2> SUFFICES ASSUME NEW d \in Client PROVE Sound(call[d])'
    BY DEF CallInv
  <2>1. CASE call'[d] = l
    BY <2>1 DEF Sound
  <2>2. CASE call'[d] = call[d]
    <3>1. Sound(call[d])
      BY DEF IInv, CallInv
    <3>2. call[d].pc = "save" => call[d].request \in Request
      BY <3>1 DEF Sound
    <3>3. call[d].pc = "save" => Key(call[d].request) \in Account
      BY <3>2, KeyFacts
    <3> QED
      BY <2>2, <3>1, <3>3, <1>4 DEF Sound, database
  <2> QED
    BY <2>1, <2>2 DEF IInv, TypeOK
<1>6. OrderInv'
  <2>1. \A o \in orders \ astray : Kept(o)'
    <3> SUFFICES ASSUME NEW o \in orders \ astray PROVE Kept(o)'
      OBVIOUS
    <3>1. Kept(o) /\ o.request \in Request
      BY DEF IInv, OrderInv, TypeOK, Order
    <3>2. Key(o.request) \in Account
      BY <3>1, KeyFacts
    <3> QED
      BY <3>1, <3>2, <1>4 DEF Kept
  <2> QED
    BY <2>1 DEF IInv, OrderInv, database
<1>7. RowInv' /\ ToldInv'
  BY DEF IInv, RowInv, ToldInv, database
<1> QED
  BY <1>1, <1>2, <1>5, <1>6, <1>7 DEF IInv

\* The order that is inserted is one, and what orders promise of it is what
\* its call knew, unless Bridge's answer had no id.
LEMMA NewOrderFacts ==
  ASSUME IInv, NEW c \in Client, call[c].pc = "save", NEW a \in Found(c)
  PROVE  /\ NewOrder(c, a) \in Order
         /\ HasNoId(c) \/ (a = call[c].account /\ Kept(NewOrder(c, a)))
         /\ Matches(NewOrder(c, a), call[c].request)
<1>1. Sound(call[c]) /\ call[c] \in Locals
  BY DEF IInv, CallInv, TypeOK
<1>2. call[c].request \in Request /\ Key(call[c].request) \in Account
  BY <1>1, KeyFacts DEF Sound
<1>3. a \in Account \cup {None} /\ (HasNoId(c) \/ a = call[c].account)
  BY <1>1, <1>2 DEF Found, Sound
<1>4. HasNoId(c) \/ call[c].account =
        IF Virtual(call[c].request) THEN Key(call[c].request) ELSE None
  BY <1>1 DEF Sound, HasNoId, Virtual
<1> QED
  BY <1>1, <1>2, <1>3, <1>4, CreationAssumption DEF NewOrder, Order, Kept, Matches, Sound

\* A save that the indexes let in.
LEMMA SaveStep ==
  ASSUME IInv, NEW c \in Client, Save(c)
  PROVE  IInv'
<1>0. PICK n \in Found(c) :
        /\ Insertable(NewOrder(c, n))
        /\ orders' = orders \cup {NewOrder(c, n)}
        /\ astray' = IF HasNoId(c) THEN astray \cup {NewOrder(c, n)} ELSE astray
        /\ call' = [call EXCEPT ![c].pc = "answer", ![c].order = NewOrder(c, n)]
  BY DEF Save
<1> DEFINE o == NewOrder(c, n)
           l == [call[c] EXCEPT !.pc = "answer", !.order = o]
           q == call[c].request
<1>1. /\ o \in Order /\ Matches(o, q) /\ o.request = q /\ o.account = n
      /\ HasNoId(c) \/ (n = call[c].account /\ Kept(o))
  BY NewOrderFacts DEF Save, NewOrder
<1>2. /\ orders' = orders \cup {o}
      /\ UNCHANGED <<inactive, bridge, told, asked, bounds>>
      /\ \A p \in orders : p.memo # o.memo /\ p.request # o.request
      /\ call[c].pc = "save" /\ rows' = NewRows(c)
      /\ astray' = IF HasNoId(c) THEN astray \cup {o} ELSE astray
  BY <1>0 DEF Save, Insertable
<1>3. call' = [call EXCEPT ![c] = l]
  BY <1>0 DEF IInv, TypeOK
<1>4. call[c] \in Locals /\ Sound(call[c])
  BY DEF IInv, TypeOK, CallInv
<1>5. l \in Locals /\ l.pc = "answer" /\ l.order = o /\ l.request = q /\ q \in Request
  BY <1>1, <1>2, <1>4 DEF Locals, Pc, Sound
<1>6. o \notin orders /\ o \notin astray
      /\ orders' \ astray' = IF HasNoId(c) THEN orders \ astray ELSE (orders \ astray) \cup {o}
  BY <1>2 DEF IInv, TypeOK
<1> HIDE DEF o, l, q
<1>7. call'[c] = l /\ \A d \in Client \ {c} : call'[d] = call[d]
  BY <1>3 DEF IInv, TypeOK
<1>8. rows' \in [Account \cup {None} -> Nat] /\ RowInv'
  <2>1. CASE call[c].account = None
    <3>1. rows' \in [Account \cup {None} -> Nat] /\ \A a \in Account : rows'[a] = rows[a]
      BY <1>2, <2>1, CreationAssumption DEF NewRows, IInv, TypeOK
    <3> QED
      BY <3>1, <1>6 DEF IInv, RowInv
  <2>2. CASE call[c].account # None
    <3> DEFINE a == call[c].account
    <3>1. /\ Virtual(q) /\ a = Key(q) /\ a \in Account /\ ~HasNoId(c)
          /\ o.account = a /\ o.request = q
      BY <1>1, <1>2, <1>4, <1>5, <2>2, KeyFacts DEF Sound, Virtual, HasNoId, q
    <3>2. rows' = [rows EXCEPT ![a] = @ + 1]
      BY <1>2, <3>1 DEF NewRows, Virtual, q
    <3>3. \A p \in orders \ astray : p.account # a
      <4> SUFFICES ASSUME NEW p \in orders \ astray, p.account = a PROVE FALSE
        OBVIOUS
      <4>1. Kept(p) /\ p.request \in Request
        BY DEF IInv, OrderInv, TypeOK, Order
      <4>2. Virtual(p.request) /\ Key(p.request) = Key(q)
        BY <4>1, <3>1, <2>2 DEF Kept
      <4>3. p.request = q
        BY <4>1, <4>2, <3>1, <1>5, KeyFacts DEF Virtual
      <4> QED
        BY <4>3, <3>1, <1>2
    <3>4. rows[a] = 0
      BY <3>1, <3>3 DEF IInv, RowInv
    <3>5. rows' \in [Account \cup {None} -> Nat] /\ rows'[a] = 1
      BY <3>1, <3>2, <3>4 DEF IInv, TypeOK
    <3>6. \A b \in Account \ {a} : rows'[b] = rows[b]
      BY <3>2 DEF IInv, TypeOK
    <3>7. o \in orders' \ astray' /\ orders \ astray \subseteq orders' \ astray'
      BY <1>6, <3>1
    <3> HIDE DEF a
    <3>8. ASSUME NEW b \in Account
          PROVE  rows'[b] = 0 \/ (rows'[b] = 1 /\ \E p \in orders' \ astray' : p.account = b)
      <4>1. CASE b = a
        BY <4>1, <3>1, <3>5, <3>7
      <4>2. CASE b # a
        BY <4>2, <3>6, <3>7 DEF IInv, RowInv
      <4> QED
        BY <4>1, <4>2
    <3> QED
      BY <3>5, <3>8 DEF RowInv
  <2> QED
    BY <2>1, <2>2
<1>9. TypeOK'
  <2>1. orders' \subseteq Order /\ astray' \subseteq orders'
    BY <1>1, <1>2 DEF IInv, TypeOK
  <2>2. call' \in [Client -> Locals]
    BY <1>3, <1>5 DEF IInv, TypeOK
  <2> QED
    BY <1>2, <1>8, <2>1, <2>2 DEF IInv, TypeOK, bounds
<1>10. CallInv'
  <2> SUFFICES ASSUME NEW d \in Client PROVE Sound(call[d])'
    BY DEF CallInv
  <2>1. CASE d = c
    BY <2>1, <1>1, <1>2, <1>5, <1>7 DEF Sound
  <2>2. CASE d # c
    <3>1. Sound(call[d]) /\ call'[d] = call[d]
      BY <2>2, <1>7 DEF IInv, CallInv
    <3> QED
      BY <3>1, <1>2 DEF Sound, Memorized
  <2> QED
    BY <2>1, <2>2
<1>11. OrderInv'
  <2>1. \A p \in orders' \ astray' : Kept(p)
    BY <1>1, <1>6 DEF IInv, OrderInv
  <2>2. \A p \in orders' \ astray' : Kept(p)'
    BY <2>1, <1>2 DEF Kept, Memorized
  <2>3. \A p, r \in orders' : p.request = r.request \/ p.memo = r.memo => p = r
    BY <1>2 DEF IInv, OrderInv
  <2> QED
    BY <2>2, <2>3 DEF OrderInv
<1>12. AskInv' /\ ToldInv'
  BY <1>2 DEF IInv, AskInv, ToldInv
<1> QED
  BY <1>8, <1>9, <1>10, <1>11, <1>12 DEF IInv

\* The answer names the order that the call found or saved.
LEMMA RespondStep ==
  ASSUME IInv, NEW c \in Client, Respond(c)
  PROVE  IInv'
<1> DEFINE a == [request |-> call[c].request, order |-> call[c].order]
<1>1. /\ call[c].pc = "answer" /\ told' = told \cup {a}
      /\ call' = [call EXCEPT ![c] = Idle]
      /\ UNCHANGED <<database, bridge, asked, bounds>>
  BY DEF Respond
<1>2. Sound(call[c])
  BY DEF IInv, CallInv
<1>3. call[c].request \in Request /\ call[c].order \in orders
      /\ Matches(call[c].order, call[c].request)
  BY <1>1, <1>2 DEF Sound
<1>4. a \in Answer /\ a.order \in orders /\ Matches(a.order, a.request)
  BY <1>3 DEF IInv, TypeOK, Answer
<1> HIDE DEF a
<1>5. TypeOK'
  BY <1>1, <1>4, IdleSound DEF IInv, TypeOK, database, bounds
<1>6. CallInv'
  <2> SUFFICES ASSUME NEW d \in Client PROVE Sound(call[d])'
    BY DEF CallInv
  <2>1. call'[d] = Idle \/ call'[d] = call[d]
    BY <1>1 DEF IInv, TypeOK
  <2>2. Sound(call'[d])
    BY <2>1, IdleSound DEF IInv, CallInv
  <2> QED
    BY <2>2, <1>1 DEF Sound, Memorized, database
<1>7. OrderInv' /\ RowInv' /\ AskInv'
  BY <1>1 DEF IInv, OrderInv, Kept, Memorized, RowInv, AskInv, database
<1>8. ToldInv'
  BY <1>1, <1>4 DEF IInv, ToldInv, database
<1> QED
  BY <1>5, <1>6, <1>7, <1>8 DEF IInv

\* The invariant is kept by every step.
LEMMA Inductive == IInv /\ [Next]_vars => IInv'
<1> SUFFICES ASSUME IInv, [Next]_vars PROVE IInv'
  OBVIOUS
<1>1. \A c \in Client : call[c] \in Locals /\ Sound(call[c])
  BY DEF IInv, TypeOK, CallInv
<1>2. calls \in 0..MaxCalls /\ failures \in 0..MaxFailures /\ crashes \in 0..MaxCrashes
  BY DEF IInv, TypeOK
<1>3. ASSUME NEW c \in Client, Call(c) PROVE IInv'
  <2>1. PICK q \in Request :
          call' = [call EXCEPT ![c] = [Idle EXCEPT !.pc = "find", !.request = q]]
    BY <1>3 DEF Call
  <2> DEFINE l == [Idle EXCEPT !.pc = "find", !.request = q]
  <2>2. l \in Locals /\ Sound(l)
    BY IdleSound DEF Idle, Locals, Pc, Sound
  <2>3. /\ UNCHANGED <<database, bridge, told, asked>>
        /\ calls' \in 0..MaxCalls /\ failures' = failures /\ crashes' = crashes
    BY <1>2, <1>3, CreationAssumption DEF Call
  <2> HIDE DEF l
  <2> QED
    BY <2>1, <2>2, <2>3, <1>2, LocalStep DEF l
<1>4. ASSUME NEW c \in Client, FindOrder(c) PROVE IInv'
  <2>1. PICK o \in orders :
          /\ Matches(o, call[c].request)
          /\ call' = [call EXCEPT ![c].pc = "answer", ![c].order = o]
    BY <1>4 DEF FindOrder
  <2> DEFINE l == [call[c] EXCEPT !.pc = "answer", !.order = o]
  <2>2. l \in Locals /\ Sound(l)
    BY <1>1, <1>4, <2>1 DEF FindOrder, Locals, Pc, Sound, IInv, TypeOK
  <2>3. call' = [call EXCEPT ![c] = l]
    BY <2>1 DEF IInv, TypeOK
  <2>4. UNCHANGED <<database, bridge, told, asked, bounds>>
    BY <1>4 DEF FindOrder
  <2> HIDE DEF l
  <2> QED
    BY <2>2, <2>3, <2>4, <1>2, LocalStep DEF bounds
<1>5. ASSUME NEW c \in Client, FindNone(c) PROVE IInv'
  <2> DEFINE l == [call[c] EXCEPT !.pc = "draw"]
  <2>1. l \in Locals /\ Sound(l)
    BY <1>1, <1>5 DEF FindNone, Locals, Pc, Sound
  <2>2. call' = [call EXCEPT ![c] = l] /\ UNCHANGED <<database, bridge, told, asked, bounds>>
    BY <1>5 DEF FindNone
  <2> HIDE DEF l
  <2> QED
    BY <2>1, <2>2, <1>2, LocalStep DEF bounds
<1>6. ASSUME NEW c \in Client, DrawMemo(c) PROVE IInv'
  <2>1. PICK m \in Memo :
          \/ call' = [call EXCEPT ![c].pc = AfterMemo(call[c].request), ![c].memo = m]
          \/ call' = [call EXCEPT ![c].draws = @ + 1]
    BY <1>6 DEF DrawMemo
  <2>2. UNCHANGED <<database, bridge, told, asked, bounds>>
    BY <1>6 DEF DrawMemo
  <2>3. call[c].pc = "draw" /\ call[c].draws < MaxDraws
    BY <1>6 DEF DrawMemo
  <2>4. CASE call' = [call EXCEPT ![c].pc = AfterMemo(call[c].request), ![c].memo = m]
    <3> DEFINE l == [call[c] EXCEPT !.pc = AfterMemo(call[c].request), !.memo = m]
    <3>1. AfterMemo(call[c].request) =
            IF Virtual(call[c].request) THEN "findInactive" ELSE "save"
      BY <1>1, <2>3 DEF Sound, AfterMemo, Virtual, Request, Service
    <3>2. l \in Locals /\ Sound(l)
      BY <1>1, <2>3, <3>1 DEF Locals, Pc, Sound
    <3>3. call' = [call EXCEPT ![c] = l]
      BY <2>4 DEF IInv, TypeOK
    <3> HIDE DEF l
    <3> QED
      BY <3>2, <3>3, <2>2, <1>2, LocalStep DEF bounds
  <2>5. CASE call' = [call EXCEPT ![c].draws = @ + 1]
    <3> DEFINE l == [call[c] EXCEPT !.draws = @ + 1]
    <3>1. l \in Locals
      BY <1>1, <2>3, CreationAssumption DEF Locals
    <3>2. Sound(l)
      BY <1>1, <2>3 DEF Sound, Locals
    <3>3. call' = [call EXCEPT ![c] = l]
      BY <2>5 DEF IInv, TypeOK
    <3> HIDE DEF l
    <3> QED
      BY <3>1, <3>2, <3>3, <2>2, <1>2, LocalStep DEF bounds
  <2> QED
    BY <2>1, <2>4, <2>5
<1>7. ASSUME NEW c \in Client, NoMemo(c) \/ Reactivate(c) \/ Reject(c) PROVE IInv'
  <2>1. call' = [call EXCEPT ![c] = Idle] /\ UNCHANGED <<database, bridge, told, asked, bounds>>
    BY <1>7 DEF NoMemo, Reactivate, Reject
  <2> QED
    BY <2>1, <1>2, IdleSound, LocalStep DEF bounds
<1>8. ASSUME NEW c \in Client, FindInactive(c) PROVE IInv'
  <2> DEFINE l == [call[c] EXCEPT !.pc = IF inactive THEN "reactivate" ELSE "create"]
  <2>1. call[c].pc = "findInactive" /\ l.pc \in {"reactivate", "create"}
    BY <1>1, <1>8 DEF FindInactive, Locals
  <2>2. l \in Locals /\ Sound(l)
    BY <1>1, <2>1 DEF Locals, Pc, Sound
  <2>3. call' = [call EXCEPT ![c] = l] /\ UNCHANGED <<database, bridge, told, asked, bounds>>
    BY <1>8 DEF FindInactive
  <2> HIDE DEF l
  <2> QED
    BY <2>2, <2>3, <1>2, LocalStep DEF bounds
<1>9. ASSUME NEW c \in Client, call[c].pc = "create"
      PROVE  /\ call[c].memo \in Memo /\ call[c].request \in Request
             /\ Virtual(call[c].request) /\ Key(call[c].request) \in Account
             /\ IdempotencyKey(call[c].request) = Key(call[c].request)
  BY <1>1, <1>9, KeyFacts DEF Sound
<1>10. ASSUME NEW c \in Client, CreateAccount(c) PROVE IInv'
  <2>1. call[c].pc = "create"
    BY <1>10 DEF CreateAccount
  <2> DEFINE before == call[c]
             after  == [call[c] EXCEPT !.pc = "save", !.account = Key(call[c].request)]
  <2>0. after \in Locals /\ before \in Locals
    BY <1>1, <1>9, <2>1 DEF Locals, Pc
  <2>9. PICK l \in Locals, b \in Locals : l = after /\ b = before
    BY <2>0
  <2> DEFINE q == b.request
             k == Key(q)
  <2>2. /\ bridge' = [bridge EXCEPT ![k] = IF @ = None THEN b.memo ELSE @]
        /\ asked' = [asked EXCEPT ![k] = AskedAgain(k)]
        /\ call' = [call EXCEPT ![c] = l]
        /\ UNCHANGED <<database, told, calls, failures, crashes>>
    BY <1>10, <1>9, <2>1, <2>9 DEF CreateAccount, BridgeHas, bounds
  <2>3. l.pc = "save" /\ l.memo = b.memo /\ l.account = k /\ l.request = q
    BY <2>0, <2>9 DEF Locals, Pc
  <2>4. k \in Account /\ bridge \in [Account -> Memo \cup {None}]
        /\ asked \in [Account -> {"never", "once", "again"}]
        /\ (asked[k] = "never" => bridge[k] = None)
        /\ b.memo \in Memo /\ q \in Request /\ Virtual(q)
    BY <1>9, <2>1, <2>9 DEF IInv, TypeOK, AskInv
  <2>5. asked'[k] # "never" /\ (asked'[k] = "once" => bridge'[k] = b.memo)
    BY <2>2, <2>4 DEF AskedAgain
  <2>6. Sound(l)'
    BY <2>3, <2>4, <2>5 DEF Sound, Memorized
  <2>7. call' = [call EXCEPT ![c] = l]
    BY <2>2
  <2>8. failures' \in 0..MaxFailures
    BY <1>2, <2>2
  <2> HIDE DEF k
  <2> QED
    BY <2>2, <2>4, <2>6, <2>7, <2>8, BridgeStep
<1>11. ASSUME NEW c \in Client, Refuse(c) \/ LoseAnswer(c) PROVE IInv'
  <2> DEFINE k == Key(call[c].request)
  <2>1. call[c].pc = "create"
    BY <1>11 DEF Refuse, LoseAnswer
  <2>2. /\ bridge' = [bridge EXCEPT ![k] = IF @ = None THEN call[c].memo ELSE @]
        /\ asked' = [asked EXCEPT ![k] = AskedAgain(k)]
        /\ call' = [call EXCEPT ![c] = Idle]
        /\ UNCHANGED <<database, told, calls, crashes>>
        /\ failures' \in 0..MaxFailures
    <3>1. CASE Refuse(c)
      <4>1. bridge' = bridge /\ bridge[k] # None
        BY <3>1, <1>9, <2>1 DEF Refuse
      <4>2. bridge \in [Account -> Memo \cup {None}]
        BY DEF IInv, TypeOK
      <4>3. bridge' = [bridge EXCEPT ![k] = IF @ = None THEN call[c].memo ELSE @]
        BY <4>1, <4>2
      <4> QED
        BY <3>1, <4>3, <1>2, <1>9, <2>1 DEF Refuse, bounds
    <3>2. CASE LoseAnswer(c)
      <4>1. IdempotencyKey(call[c].request) = k
        BY <1>9, <2>1
      <4>2. /\ BridgeHas(k, call[c].memo)
            /\ asked' = [asked EXCEPT ![k] = AskedAgain(k)]
            /\ call' = [call EXCEPT ![c] = Idle]
            /\ UNCHANGED <<database, told, calls, crashes>>
        BY <3>2, <4>1 DEF LoseAnswer
      <4>3. failures' \in 0..MaxFailures
        BY <3>2, <1>2, CreationAssumption DEF LoseAnswer
      <4> QED
        BY <4>2, <4>3 DEF BridgeHas
    <3> QED
      BY <1>11, <3>1, <3>2
  <2>3. Idle \in Locals /\ Sound(Idle)'
    BY IdleSound DEF Idle, Sound
  <2>4. k \in Account /\ call[c].memo \in Memo
    BY <1>9, <2>1
  <2> HIDE DEF k
  <2> QED
    BY <2>2, <2>3, <2>4, BridgeStep
<1>16. ASSUME NEW c \in Client, AnswerWithoutId(c) PROVE IInv'
  <2> DEFINE k == Key(call[c].request)
             after == [call[c] EXCEPT !.pc = "save"]
  <2>1. call[c].pc = "create" /\ call[c].account = None
    BY <1>16, <1>1 DEF AnswerWithoutId, Sound
  <2>2. after \in Locals
    BY <1>1 DEF Locals, Pc
  <2>3. PICK l \in Locals : l = after
    BY <2>2
  <2>4. /\ l.pc = "save" /\ l.account = None /\ l.memo = call[c].memo
        /\ l.request = call[c].request
    BY <1>1, <2>1, <2>3 DEF Locals, Pc
  <2>5. Sound(l)'
    BY <1>9, <2>1, <2>4 DEF Sound
  <2>6. IdempotencyKey(call[c].request) = k /\ k \in Account /\ call[c].memo \in Memo
    BY <1>9, <2>1
  <2>7. /\ \/ bridge' = [bridge EXCEPT ![k] = IF @ = None THEN call[c].memo ELSE @]
           \/ bridge' = bridge
        /\ asked' = [asked EXCEPT ![k] = AskedAgain(k)]
        /\ UNCHANGED <<database, told, calls, crashes>>
    BY <1>16, <2>6 DEF AnswerWithoutId, BridgeHas
  <2>8. call' = [call EXCEPT ![c] = l]
    BY <1>16, <2>3 DEF AnswerWithoutId, IInv, TypeOK
  <2>9. failures' \in 0..MaxFailures
    BY <1>16, <1>2, CreationAssumption DEF AnswerWithoutId
  <2> HIDE DEF k, after
  <2> QED
    BY <2>5, <2>6, <2>7, <2>8, <2>9, BridgeStep
<1>12. ASSUME NEW c \in Client, Fail(c) PROVE IInv'
  <2>1. /\ call' = [call EXCEPT ![c] = Idle]
        /\ UNCHANGED <<database, bridge, told, asked, calls, crashes>>
        /\ failures' \in 0..MaxFailures
    BY <1>2, <1>12, CreationAssumption DEF Fail
  <2> QED
    BY <2>1, <1>2, IdleSound, LocalStep
<1>13. CASE Crash
  <2>1. /\ call' = [c \in Client |-> Idle]
        /\ UNCHANGED <<database, bridge, told, asked, calls, failures>>
        /\ crashes' \in 0..MaxCrashes
    BY <1>13, <1>2, CreationAssumption DEF Crash
  <2>2. TypeOK' /\ CallInv'
    <3>1. TypeOK'
      BY <2>1, IdleSound DEF IInv, TypeOK, database
    <3>2. CallInv'
      BY <2>1 DEF CallInv, Sound, Idle
    <3> QED
      BY <3>1, <3>2
  <2>3. OrderInv' /\ RowInv' /\ AskInv' /\ ToldInv'
    BY <2>1 DEF IInv, OrderInv, Kept, Memorized, RowInv, AskInv, ToldInv, database
  <2> QED
    BY <2>2, <2>3 DEF IInv
<1>14. CASE Deactivate
  BY <1>14 DEF Deactivate, IInv, TypeOK, CallInv, Sound, OrderInv, Kept, Memorized, RowInv,
               AskInv, ToldInv, bounds
<1>15. CASE UNCHANGED vars
  BY <1>15 DEF vars, IInv, TypeOK, CallInv, Sound, OrderInv, Kept, Memorized, RowInv,
               AskInv, ToldInv
<1> QED
  BY <1>3, <1>4, <1>5, <1>6, <1>7, <1>8, <1>10, <1>11, <1>12, <1>13, <1>14, <1>15,
     <1>16, SaveStep, RespondStep DEF Next, Handle

LEMMA Invariant == Spec => []IInv
BY InitInv, Inductive, PTL DEF Spec

-----------------------------------------------------------------------------
(* The theorems. *)

\* Every variable keeps its range.
THEOREM CreationTypeCorrect == Spec => []TypeOK
<1>1. IInv => TypeOK
  BY DEF IInv
<1> QED
  BY <1>1, Invariant, PTL

\* No two orders share an account of Bridge and no account has two rows,
\* although neither is indexed, except for orders that were saved after an
\* answer of Bridge without an id: createBridgeVirtualAccountOrder.
THEOREM AccountsAreNotShared == Spec => []AccountBelongsToOneOrder
<1>1. IInv => AccountBelongsToOneOrder
  <2> SUFFICES ASSUME IInv PROVE AccountBelongsToOneOrder
    OBVIOUS
  <2>1. \A a \in Account : rows[a] <= 1
    BY DEF IInv, RowInv
  <2>2. ASSUME NEW o \in orders \ astray, NEW p \in orders \ astray,
               o.account = p.account, o.account # None
        PROVE  o = p
    <3>1. Kept(o) /\ Kept(p) /\ o.request \in Request /\ p.request \in Request
      BY DEF IInv, OrderInv, TypeOK, Order
    <3>2. Virtual(o.request) /\ Virtual(p.request) /\ Key(o.request) = Key(p.request)
      BY <2>2, <3>1 DEF Kept
    <3>3. o.request = p.request
      BY <3>1, <3>2, KeyFacts DEF Virtual
    <3> QED
      BY <3>3 DEF IInv, OrderInv
  <2> QED
    BY <2>1, <2>2 DEF AccountBelongsToOneOrder
<1> QED
  BY <1>1, Invariant, PTL

\* Bridge puts the order's memo on the deposits of its account if it was
\* asked for the account once: createVirtualAccount and its idempotency key.
THEOREM DepositsCarryOrderMemo == Spec => []DepositCarriesOrderMemo
<1>1. IInv => DepositCarriesOrderMemo
  <2> SUFFICES ASSUME IInv, NEW o \in orders \ astray, o.account # None,
                      asked[Key(o.request)] = "once"
               PROVE  bridge[o.account] = o.memo
    BY DEF DepositCarriesOrderMemo
  <2>1. Kept(o)
    BY DEF IInv, OrderInv
  <2> QED
    BY <2>1 DEF Kept, Memorized
<1> QED
  BY <1>1, Invariant, PTL

\* Answers to equal requests name one order, unless the reference has Stellar
\* orders in two currencies: the lookups of the two endpoints.
THEOREM AnswersAlwaysAgree == Spec => []AnswersAgree
<1>1. IInv => AnswersAgree
  <2> SUFFICES ASSUME IInv, NEW a \in told, NEW b \in told,
                      a.request = b.request, a.order # b.order
               PROVE  /\ a.request.service = "stellar"
                      /\ \E o, p \in orders :
                           /\ {o.request.service, p.request.service} = {"stellar"}
                           /\ {o.request.reference, p.request.reference}
                                = {a.request.reference}
                           /\ o.request.currency # p.request.currency
    BY DEF AnswersAgree
  <2>1. /\ a.order \in orders /\ b.order \in orders
        /\ Matches(a.order, a.request) /\ Matches(b.order, a.request)
        /\ a.request \in Request /\ a.order.request \in Request /\ b.order.request \in Request
    BY DEF IInv, ToldInv, TypeOK, Answer, Order
  <2>2. a.order.request # b.order.request
    BY <2>1 DEF IInv, OrderInv
  <2>3. a.order.request.currency # b.order.request.currency
    BY <2>1, <2>2 DEF Matches, Request
  <2>4. a.request.service = "stellar"
    BY <2>1, <2>3 DEF Matches, Request, Service
  <2>5. /\ a.order.request.service = "stellar" /\ b.order.request.service = "stellar"
        /\ a.order.request.reference = a.request.reference
        /\ b.order.request.reference = a.request.reference
    BY <2>1, <2>4 DEF Matches
  <2> QED
    BY <2>1, <2>3, <2>4, <2>5
<1> QED
  BY <1>1, Invariant, PTL

\* In a deployment with one fiat currency the endpoints implement OrderBook, as
\* long as Bridge's answers have an id: an order enters the book whole, with a
\* memo and an account of its own, and whoever asks is told of the order he
\* asked for (createOrder, createBridgeVirtualAccountOrder).
THEOREM EndpointsImplementOrderBook ==
  ASSUME \A c, d \in Currency : c = d
  PROVE  Spec /\ [](astray = {}) => ImplementsOrderBook
<1>1. Init => Book!BookInit
  BY DEF Init, Book!BookInit
<1>2. ASSUME IInv, [Next]_vars, astray' = {} PROVE [Book!BookNext]_(Book!bookVars)
  <2> SUFFICES Book!BookNext \/ UNCHANGED <<orders, told>>
    BY DEF Book!bookVars
  <2> USE <1>2
  <2>0. ASSUME NEW c \in Client, Save(c) PROVE ~HasNoId(c) /\ astray = {}
    BY <2>0 DEF Save
  <2>1. ASSUME NEW c \in Client, Save(c) PROVE Book!BookNext
    <3>0. ~HasNoId(c) /\ astray = {}
      BY <2>0, <2>1
    <3>9. PICK n \in Found(c) :
            Insertable(NewOrder(c, n)) /\ orders' = orders \cup {NewOrder(c, n)}
      BY <2>1 DEF Save
    <3> DEFINE o == NewOrder(c, n)
    <3>1. o \in Order /\ Kept(o)
      BY <2>1, <3>0, NewOrderFacts DEF Save
    <3>2. /\ orders' = orders \cup {o} /\ UNCHANGED told
          /\ \A p \in orders : p.memo # o.memo /\ p.request # o.request
      BY <2>1, <3>9 DEF Save, Insertable
    <3>3. o \notin orders
      BY <3>2
    <3>4. ASSUME o.account # None, NEW p \in orders
          PROVE  p.account # o.account
      <4>1. Kept(p) /\ p.request \in Request /\ o.request \in Request
        BY <3>0, <3>1 DEF IInv, OrderInv, TypeOK, Order
      <4>2. Virtual(o.request) /\ o.account = Key(o.request) /\ Key(o.request) \in Account
        BY <3>1, <3>4, <4>1, KeyFacts DEF Kept, Virtual
      <4>3. ~Virtual(p.request) => p.account = None
        BY <4>1 DEF Kept
      <4>4. Virtual(p.request) => Key(p.request) # Key(o.request)
        BY <3>2, <4>1, <4>2, KeyFacts DEF Virtual
      <4> QED
        BY <4>1, <4>2, <4>3, <4>4, CreationAssumption DEF Kept
    <3>5. o \in Book!Entry
      BY <3>1 DEF Order, Book!Entry
    <3>6. o.request.service = "stellar" <=> o.account = None
      <4>1. o.request \in Request /\ Key(o.request) # None
        BY <3>1, KeyFacts, CreationAssumption DEF Order
      <4> QED
        BY <3>1, <4>1 DEF Kept, Virtual, Request, Service
    <3> HIDE DEF o
    <3>7. Book!Register(o)
      BY <3>2, <3>3, <3>4, <3>6 DEF Book!Register
    <3> QED
      BY <3>5, <3>7 DEF Book!BookNext
  <2>2. ASSUME NEW c \in Client, Respond(c) PROVE Book!BookNext
    <3> DEFINE q == call[c].request
               o == call[c].order
    <3>1. Sound(call[c]) /\ call[c].pc = "answer"
      BY <2>2 DEF IInv, CallInv, Respond
    <3>2. q \in Request /\ o \in orders /\ Matches(o, q)
      BY <3>1 DEF Sound
    <3>3. told' = told \cup {[request |-> q, order |-> o]} /\ orders' = orders
      BY <2>2 DEF Respond, database
    <3>4. o \in Book!Entry /\ o.request \in Request
      BY <3>2 DEF IInv, TypeOK, Order, Book!Entry
    <3> HIDE DEF q, o
    <3>6. o.request = q
      BY <3>2, <3>4 DEF Matches, Request
    <3>5. Book!Tell(q, o)
      BY <3>2, <3>3, <3>6 DEF Book!Tell
    <3> QED
      BY <3>2, <3>4, <3>5 DEF Book!BookNext
  <2>3. ASSUME NEW c \in Client,
               \/ Call(c) \/ FindOrder(c) \/ FindNone(c) \/ DrawMemo(c) \/ NoMemo(c)
               \/ FindInactive(c) \/ Reactivate(c) \/ CreateAccount(c) \/ Refuse(c)
               \/ Reject(c) \/ AnswerWithoutId(c) \/ LoseAnswer(c) \/ Fail(c)
        PROVE  UNCHANGED <<orders, told>>
    BY <2>3 DEF Call, FindOrder, FindNone, DrawMemo, NoMemo, FindInactive, Reactivate,
                CreateAccount, Refuse, Reject, AnswerWithoutId, LoseAnswer, Fail, database
  <2>4. Crash \/ Deactivate \/ UNCHANGED vars => UNCHANGED <<orders, told>>
    BY DEF Crash, Deactivate, database, vars
  <2> QED
    BY <2>1, <2>2, <2>3, <2>4 DEF Next, Handle
<1> QED
  <2> DEFINE A == astray = {}
  <2>1. IInv /\ [Next]_vars /\ A' => [Book!BookNext]_(Book!bookVars)
    BY <1>2
  <2> HIDE DEF A
  <2>2. Spec /\ []A => ImplementsOrderBook
    BY <1>1, <2>1, Invariant, PTL DEF Spec, ImplementsOrderBook, Book!BookSpec
  <2> QED
    BY <2>2 DEF A
-----------------------------------------------------------------------------
(* Calls that do not overlap. *)

\* A call that has looked for its order goes on only when there is none, and
\* with a memo that no order has.
Ahead(l) ==
  /\ l.pc \in {"draw", "findInactive", "reactivate", "create", "save"}
       => \A o \in orders : ~Matches(o, l.request)
  /\ l.pc \in {"findInactive", "reactivate", "create", "save"}
       => \A o \in orders : o.memo # l.memo
  /\ l.pc = "save" /\ Virtual(l.request) => l.account # None

\* The account a has come back to the handler that asked for it.
Arrived(a) ==
  \/ \E o \in orders : Virtual(o.request) /\ Key(o.request) = a
  \/ \E c \in Client :
       call[c].pc = "save" /\ Virtual(call[c].request) /\ Key(call[c].request) = a

\* With one call at a time, and nothing failed yet, Bridge was never asked for an
\* account again, and each account it was asked for has an order, or is about to.
SoloInv ==
  /\ astray = {}
  /\ \A c \in Client : Ahead(call[c])
  /\ \A a \in Account : asked[a] # "again" /\ (asked[a] = "once" => Arrived(a))

\* A step of the only call that changes its locals and no order.
LEMMA SoloLocalStep ==
  ASSUME IInv, SoloInv, NEW c \in Client, \A d \in Client : d = c,
         NEW l \in Locals, Ahead(l), call[c].pc # "save",
         call' = [call EXCEPT ![c] = l], UNCHANGED <<orders, asked, astray>>
  PROVE  SoloInv'
<1>1. \A d \in Client : call'[d] = l
  BY DEF IInv, TypeOK
<1>2. \A d \in Client : Ahead(call[d])'
  BY <1>1 DEF Ahead
<1>3. \A a \in Account : Arrived(a) => Arrived(a)'
  BY DEF Arrived
<1> QED
  BY <1>2, <1>3 DEF SoloInv

\* The only call saves what no order stands in the way of.
LEMMA SoloSaves ==
  ASSUME IInv, SoloInv, NEW c \in Client, call[c].pc = "save"
  PROVE  Insertable(NewOrder(c, call[c].account)) /\ ~HasNoId(c)
<1>1. /\ Ahead(call[c]) /\ NewOrder(c, call[c].account).memo = call[c].memo
      /\ NewOrder(c, call[c].account).request = call[c].request
  BY DEF SoloInv, NewOrder
<1>2. \A o \in orders : ~Matches(o, call[c].request) /\ o.memo # call[c].memo
  BY <1>1 DEF Ahead
<1>3. \A o \in orders : o.request # call[c].request
  BY <1>2 DEF Matches
<1> QED
  BY <1>1, <1>2, <1>3 DEF Insertable, Ahead, HasNoId, Virtual

\* The only call asks Bridge for an account nobody has asked for.
LEMMA SoloAsks ==
  ASSUME IInv, SoloInv, NEW c \in Client, \A d \in Client : d = c, call[c].pc = "create"
  PROVE  /\ Key(call[c].request) \in Account /\ Virtual(call[c].request)
         /\ IdempotencyKey(call[c].request) = Key(call[c].request)
         /\ asked[Key(call[c].request)] = "never" /\ bridge[Key(call[c].request)] = None
<1>1. /\ Sound(call[c]) /\ Ahead(call[c])
      /\ asked \in [Account -> {"never", "once", "again"}]
  BY DEF IInv, CallInv, SoloInv, TypeOK
<1>2. call[c].request \in Request /\ Virtual(call[c].request)
  BY <1>1 DEF Sound
<1>3. /\ Key(call[c].request) \in Account
      /\ IdempotencyKey(call[c].request) = Key(call[c].request)
  BY <1>2, KeyFacts
<1>4. \A o \in orders : ~(Virtual(o.request) /\ Key(o.request) = Key(call[c].request))
  <2> SUFFICES ASSUME NEW o \in orders, Virtual(o.request),
                      Key(o.request) = Key(call[c].request)
               PROVE  FALSE
    OBVIOUS
  <2>1. o.request \in Request
    BY DEF IInv, TypeOK, Order
  <2>2. o.request = call[c].request
    BY <1>2, <2>1, KeyFacts DEF Virtual
  <2> QED
    BY <1>1, <2>2 DEF Ahead, Matches
<1>5. ~Arrived(Key(call[c].request))
  BY <1>4 DEF Arrived
<1> QED
  BY <1>1, <1>2, <1>3, <1>5 DEF SoloInv, IInv, AskInv

LEMMA SoloStep ==
  ASSUME IInv, SoloInv, \A c, d \in Client : c = d, [Next]_vars,
         failures' = 0, crashes' = 0
  PROVE  SoloInv'
<1>1. /\ \A c \in Client : call[c] \in Locals /\ Sound(call[c]) /\ Ahead(call[c])
      /\ failures \in Nat /\ crashes \in Nat
      /\ asked \in [Account -> {"never", "once", "again"}]
  BY CreationAssumption DEF IInv, TypeOK, CallInv, SoloInv
<1>2. ASSUME NEW c \in Client, Call(c) PROVE SoloInv'
  <2>1. PICK q \in Request :
          call' = [call EXCEPT ![c] = [Idle EXCEPT !.pc = "find", !.request = q]]
    BY <1>2 DEF Call
  <2> DEFINE l == [Idle EXCEPT !.pc = "find", !.request = q]
  <2>2. l \in Locals /\ Ahead(l)
    BY IdleSound DEF Idle, Locals, Pc, Ahead
  <2>3. call[c].pc # "save" /\ UNCHANGED <<orders, asked, astray>>
    BY <1>2 DEF Call, database
  <2> HIDE DEF l
  <2>4. call' = [call EXCEPT ![c] = l]
    BY <2>1 DEF l
  <2>5. \A d \in Client : d = c
    OBVIOUS
  <2> QED
    BY <2>2, <2>3, <2>4, <2>5, SoloLocalStep
<1>3. ASSUME NEW c \in Client, FindOrder(c) PROVE SoloInv'
  <2>1. PICK o \in orders :
          call' = [call EXCEPT ![c].pc = "answer", ![c].order = o]
    BY <1>3 DEF FindOrder
  <2> DEFINE l == [call[c] EXCEPT !.pc = "answer", !.order = o]
  <2>2. l \in Locals /\ Ahead(l)
    <3>1. call[c] \in Locals /\ o \in Order
      BY <1>1, <2>1 DEF IInv, TypeOK
    <3>2. l \in Locals /\ l.pc = "answer"
      BY <3>1 DEF Locals, Pc
    <3> QED
      BY <3>2 DEF Ahead
  <2>3. call' = [call EXCEPT ![c] = l]
    BY <2>1 DEF IInv, TypeOK
  <2>4. call[c].pc # "save" /\ UNCHANGED <<orders, asked, astray>>
    BY <1>3 DEF FindOrder, database
  <2> HIDE DEF l
  <2> QED
    BY <2>2, <2>3, <2>4, SoloLocalStep
<1>4. ASSUME NEW c \in Client, FindNone(c) PROVE SoloInv'
  <2> DEFINE l == [call[c] EXCEPT !.pc = "draw"]
  <2>1. /\ call[c].pc = "find" /\ \A o \in orders : ~Matches(o, call[c].request)
        /\ call' = [call EXCEPT ![c] = l] /\ UNCHANGED <<orders, asked, astray>>
    BY <1>4 DEF FindNone, database
  <2>2. l \in Locals /\ Ahead(l)
    BY <1>1, <2>1 DEF Locals, Pc, Ahead
  <2> HIDE DEF l
  <2> QED
    BY <2>1, <2>2, SoloLocalStep
<1>5. ASSUME NEW c \in Client, DrawMemo(c) PROVE SoloInv'
  <2>1. PICK m \in Memo :
          \/ /\ \A o \in orders : o.memo # m
             /\ call' = [call EXCEPT ![c].pc = AfterMemo(call[c].request), ![c].memo = m]
          \/ call' = [call EXCEPT ![c].draws = @ + 1]
    BY <1>5 DEF DrawMemo
  <2>2. /\ call[c].pc = "draw" /\ call[c].draws < MaxDraws /\ UNCHANGED <<orders, asked, astray>>
        /\ \A o \in orders : ~Matches(o, call[c].request)
    BY <1>1, <1>5 DEF DrawMemo, database, Ahead
  <2>3. CASE /\ \A o \in orders : o.memo # m
             /\ call' = [call EXCEPT ![c].pc = AfterMemo(call[c].request), ![c].memo = m]
    <3> DEFINE l == [call[c] EXCEPT !.pc = AfterMemo(call[c].request), !.memo = m]
    <3>1. /\ AfterMemo(call[c].request) \in {"findInactive", "save"}
          /\ AfterMemo(call[c].request) = "save" => ~Virtual(call[c].request)
      BY DEF AfterMemo, Virtual
    <3>2. /\ l \in Locals /\ l.request = call[c].request /\ l.memo = m
          /\ l.pc = AfterMemo(call[c].request)
      BY <1>1, <3>1 DEF Locals, Pc
    <3>3. Ahead(l)
      BY <2>2, <2>3, <3>1, <3>2 DEF Ahead
    <3>4. call' = [call EXCEPT ![c] = l]
      BY <2>3 DEF IInv, TypeOK
    <3> HIDE DEF l
    <3> QED
      BY <2>2, <3>2, <3>3, <3>4, SoloLocalStep
  <2>4. CASE call' = [call EXCEPT ![c].draws = @ + 1]
    <3> DEFINE l == [call[c] EXCEPT !.draws = @ + 1]
    <3>1. l \in Locals /\ l.pc = "draw" /\ l.request = call[c].request
      BY <1>1, <2>2, CreationAssumption DEF Locals
    <3>2. Ahead(l)
      BY <2>2, <3>1 DEF Ahead
    <3>3. call' = [call EXCEPT ![c] = l]
      BY <2>4 DEF IInv, TypeOK
    <3> HIDE DEF l
    <3> QED
      BY <2>2, <3>1, <3>2, <3>3, SoloLocalStep
  <2> QED
    BY <2>1, <2>3, <2>4
<1>6. ASSUME NEW c \in Client, FindInactive(c) PROVE SoloInv'
  <2> DEFINE l == [call[c] EXCEPT !.pc = IF inactive THEN "reactivate" ELSE "create"]
  <2>1. /\ call[c].pc = "findInactive" /\ call' = [call EXCEPT ![c] = l]
        /\ UNCHANGED <<orders, asked, astray>>
    BY <1>6 DEF FindInactive, database
  <2>2. /\ l \in Locals /\ l.pc \in {"reactivate", "create"}
        /\ l.request = call[c].request /\ l.memo = call[c].memo
    BY <1>1 DEF Locals, Pc
  <2>3. Ahead(l)
    BY <1>1, <2>1, <2>2 DEF Ahead
  <2> HIDE DEF l
  <2> QED
    BY <2>1, <2>2, <2>3, SoloLocalStep
<1>7. ASSUME NEW c \in Client, NoMemo(c) \/ Reactivate(c) \/ Respond(c) PROVE SoloInv'
  <2>1. call[c].pc # "save" /\ call' = [call EXCEPT ![c] = Idle] /\ UNCHANGED <<orders, asked, astray>>
    BY <1>7 DEF NoMemo, Reactivate, Respond, database
  <2>2. Ahead(Idle)
    BY DEF Ahead, Idle
  <2> QED
    BY <2>1, <2>2, IdleSound, SoloLocalStep
<1>8. ASSUME NEW c \in Client, CreateAccount(c) PROVE SoloInv'
  <2>1. call[c].pc = "create"
    BY <1>8 DEF CreateAccount
  <2>2. PICK k \in Account :
          k = Key(call[c].request) /\ IdempotencyKey(call[c].request) = k /\ asked[k] = "never"
    BY <2>1, SoloAsks
  <2> DEFINE l == [call[c] EXCEPT !.pc = "save", !.account = k]
  <2>3. /\ call' = [call EXCEPT ![c] = l]
        /\ asked' = [asked EXCEPT ![k] = "once"] /\ UNCHANGED <<orders, astray>>
    BY <1>8, <2>2 DEF CreateAccount, AskedAgain, database
  <2>4. /\ l.pc = "save" /\ l.request = call[c].request /\ l.memo = call[c].memo
        /\ l.account # None
    BY <1>1, CreationAssumption DEF Locals
  <2> HIDE DEF l
  <2>5. \A d \in Client : call'[d] = l
    BY <2>3 DEF IInv, TypeOK
  <2>6. \A d \in Client : Ahead(call[d])'
    BY <1>1, <2>1, <2>3, <2>4, <2>5 DEF Ahead
  <2>7. Arrived(k)'
    <3>1. Virtual(call[c].request)
      BY <2>1, SoloAsks
    <3> QED
      BY <2>2, <2>4, <2>5, <3>1 DEF Arrived
  <2>8. ASSUME NEW a \in Account, a # k
        PROVE  asked'[a] # "again" /\ (asked'[a] = "once" => Arrived(a)')
    <3>1. asked'[a] = asked[a]
      BY <1>1, <2>3, <2>8
    <3>2. Arrived(a) => Arrived(a)'
      BY <2>1, <2>3 DEF Arrived
    <3> QED
      BY <3>1, <3>2 DEF SoloInv
  <2>9. asked'[k] = "once"
    BY <1>1, <2>3
  <2> QED
    BY <2>3, <2>6, <2>7, <2>8, <2>9 DEF SoloInv
<1>9. ASSUME NEW c \in Client, Save(c) PROVE SoloInv'
  <2>0. PICK n \in Found(c) :
          /\ orders' = orders \cup {NewOrder(c, n)}
          /\ call' = [call EXCEPT ![c].pc = "answer", ![c].order = NewOrder(c, n)]
    BY <1>9 DEF Save
  <2> DEFINE o == NewOrder(c, n)
             l == [call[c] EXCEPT !.pc = "answer", !.order = o]
  <2>1. /\ call[c].pc = "save" /\ orders' = orders \cup {o} /\ UNCHANGED <<asked, astray>>
        /\ call' = [call EXCEPT ![c] = l] /\ o.request = call[c].request
    BY <1>9, <2>0, SoloSaves DEF Save, NewOrder, IInv, TypeOK
  <2>2. l.pc = "answer"
    BY <1>1 DEF Locals
  <2> HIDE DEF o, l
  <2>3. \A d \in Client : call'[d] = l
    BY <2>1 DEF IInv, TypeOK
  <2>4. \A d \in Client : Ahead(call[d])'
    BY <2>2, <2>3 DEF Ahead
  <2>5. ASSUME NEW a \in Account, Arrived(a) PROVE Arrived(a)'
    BY <2>1, <2>5 DEF Arrived
  <2> QED
    BY <2>1, <2>4, <2>5 DEF SoloInv
<1>10. \A c \in Client : ~Reject(c) /\ ~Refuse(c)
  <2> SUFFICES ASSUME NEW c \in Client, Reject(c) \/ Refuse(c) PROVE FALSE
    OBVIOUS
  <2>1. CASE Reject(c)
    BY <2>1, SoloSaves DEF Reject
  <2>2. CASE Refuse(c)
    BY <2>2, SoloAsks DEF Refuse
  <2> QED
    BY <2>1, <2>2
<1>11. ~Crash /\ \A c \in Client : ~AnswerWithoutId(c) /\ ~LoseAnswer(c) /\ ~Fail(c)
  BY <1>1 DEF Crash, AnswerWithoutId, LoseAnswer, Fail
<1>12. CASE Deactivate \/ UNCHANGED vars
  BY <1>12 DEF Deactivate, vars, SoloInv, Ahead, Arrived
<1> QED
  BY <1>2, <1>3, <1>4, <1>5, <1>6, <1>7, <1>8, <1>9, <1>10, <1>11, <1>12 DEF Next, Handle

\* While calls do not overlap and nothing fails, Bridge puts on the deposits of
\* every virtual-account order the memo of that order
\* (createBridgeVirtualAccountOrder): only a call that raced another, or was
\* repeated after a fault, can leave deposits with a memo that no order has.
THEOREM SoloDepositsCarryOrderMemo ==
  ASSUME \A c, d \in Client : c = d
  PROVE  Spec => [](failures = 0 /\ crashes = 0 =>
                      \A o \in orders : o.account # None => bridge[o.account] = o.memo)
<1> DEFINE Solo == failures = 0 /\ crashes = 0 => SoloInv
           Carried == failures = 0 /\ crashes = 0 =>
                        \A o \in orders : o.account # None => bridge[o.account] = o.memo
<1>1. Init => Solo
  <2> SUFFICES ASSUME Init PROVE SoloInv
    OBVIOUS
  <2>1. \A c \in Client : Ahead(call[c])
    BY DEF Init, Ahead, Idle
  <2>2. astray = {} /\ \A a \in Account : asked[a] = "never"
    BY DEF Init
  <2> QED
    BY <2>1, <2>2 DEF SoloInv
<1>2. IInv /\ Solo /\ [Next]_vars => Solo'
  <2> SUFFICES ASSUME IInv, Solo, [Next]_vars, failures' = 0, crashes' = 0
               PROVE  SoloInv'
    OBVIOUS
  <2>1. failures \in Nat /\ crashes \in Nat
    BY CreationAssumption DEF IInv, TypeOK
  <2>2. failures = 0 /\ crashes = 0
    <3>1. /\ failures' = failures \/ failures' = failures + 1
          /\ crashes' = crashes \/ crashes' = crashes + 1
      BY DEF Next, Handle, vars, bounds, Call, FindOrder, FindNone, DrawMemo, NoMemo,
             FindInactive, Reactivate, CreateAccount, Refuse, AnswerWithoutId, LoseAnswer, Save, Reject,
             Respond, Fail, Crash, Deactivate
    <3> QED
      BY <2>1, <3>1
  <2> QED
    BY <2>2, SoloStep
<1>3. IInv /\ Solo => Carried
  <2> SUFFICES ASSUME IInv, SoloInv, NEW o \in orders, o.account # None
               PROVE  bridge[o.account] = o.memo
    OBVIOUS
  <2>1. Kept(o) /\ o.request \in Request
    BY DEF IInv, OrderInv, TypeOK, Order, SoloInv
  <2>2. Virtual(o.request) /\ Key(o.request) \in Account /\ o.account = Key(o.request)
    BY <2>1, KeyFacts DEF Kept
  <2>3. asked[Key(o.request)] = "once"
    BY <2>1, <2>2 DEF Kept, Memorized, SoloInv, IInv, TypeOK
  <2> QED
    BY <2>1, <2>2, <2>3 DEF Kept, Memorized
<1> HIDE DEF Solo, Carried
<1>4. Spec => []Carried
  BY <1>1, <1>2, <1>3, Invariant, PTL DEF Spec
<1> QED
  BY <1>4 DEF Carried

\* In a deployment with one fiat currency every repeated request is answered with
\* the same order: the lookup of createOrder, which leaves the currency out, then
\* says as much as the unique index.
THEOREM OneCurrencyAnswersAgree ==
  ASSUME \A c, d \in Currency : c = d
  PROVE  Spec => [](\A a, b \in told : a.request = b.request => a.order = b.order)
<1>1. IInv => \A a, b \in told : a.request = b.request => a.order = b.order
  <2> SUFFICES ASSUME IInv, NEW a \in told, NEW b \in told, a.request = b.request
               PROVE  a.order = b.order
    OBVIOUS
  <2>1. /\ a.order \in orders /\ b.order \in orders
        /\ Matches(a.order, a.request) /\ Matches(b.order, a.request)
        /\ a.order.request \in Request /\ b.order.request \in Request
    BY DEF IInv, ToldInv, TypeOK, Order
  <2>2. a.order.request = b.order.request
    BY <2>1 DEF Matches, Request
  <2> QED
    BY <2>1, <2>2 DEF IInv, OrderInv
<1> QED
  BY <1>1, Invariant, PTL

=============================================================================
