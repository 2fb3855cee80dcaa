----------------------- MODULE StellarListenerProofs -----------------------
(***************************************************************************)
(* Theorems about StellarListener, for any number of operations, handlers, *)
(* wallets, crashes and errors: the types, how long a wallet's payments    *)
(* can be missed, how far back the cursor can go, what it passes, and when *)
(* a payment is queued twice.                                              *)
(***************************************************************************)
EXTENDS StellarListener, FiniteSetTheorems, TLAPS

-----------------------------------------------------------------------------
(* Sets and sequences. *)

\* Jobs are counted: the operations are finitely many.
LEMMA OpsAreFinite ==
  ASSUME NEW S \in SUBSET Op
  PROVE  IsFiniteSet(S) /\ Cardinality(S) \in Nat
<1>1. IsFiniteSet(Op)
  BY ListenerAssumption, FS_Interval DEF Op
<1> QED
  BY <1>1, FS_Subset, FS_CardinalityType

\* BullMQ's removeOnComplete keeps the youngest of the completed jobs.
LEMMA NewestFacts ==
  ASSUME NEW s \in Seq(Op)
  PROVE  Newest(s) \in Seq(Op) /\ Elements(Newest(s)) \subseteq Elements(s)
<1>1. Retained \in Nat
  BY ListenerAssumption
<1>2. CASE Len(s) <= Retained
  BY <1>2 DEF Newest
<1>3. CASE Len(s) > Retained
  <2> DEFINE m == Len(s) - Retained + 1
  <2>1. m \in 1..Len(s) + 1 /\ Newest(s) = SubSeq(s, m, Len(s))
    BY <1>1, <1>3 DEF Newest
  <2>2. SubSeq(s, m, Len(s)) \in Seq(Op)
    BY <2>1
  <2>3. ASSUME NEW i \in DOMAIN SubSeq(s, m, Len(s))
        PROVE  SubSeq(s, m, Len(s))[i] \in Elements(s)
    <3>1. i \in 1..(Len(s) - m + 1) /\ SubSeq(s, m, Len(s))[i] = s[m + i - 1]
      BY <2>1, <2>3
    <3>2. m + i - 1 \in DOMAIN s
      BY <2>1, <3>1
    <3> QED
      BY <3>1, <3>2 DEF Elements
  <2> QED
    BY <2>1, <2>2, <2>3 DEF Elements
<1> QED
  BY <1>1, <1>2, <1>3

\* A job is added at the end of the queue.
LEMMA AppendElements ==
  ASSUME NEW s \in Seq(Op), NEW e \in Op
  PROVE  Append(s, e) \in Seq(Op) /\ Elements(Append(s, e)) = Elements(s) \cup {e}
<1>1. /\ Append(s, e) \in Seq(Op)
      /\ DOMAIN Append(s, e) = DOMAIN s \cup {Len(s) + 1}
      /\ \A i \in DOMAIN s : Append(s, e)[i] = s[i]
      /\ Append(s, e)[Len(s) + 1] = e
  OBVIOUS
<1> QED
  BY <1>1 DEF Elements

\* The oldest job leaves the queue.
LEMMA TailElements ==
  ASSUME NEW s \in Seq(Op), s # <<>>
  PROVE  /\ Head(s) \in Op /\ Tail(s) \in Seq(Op)
         /\ Elements(s) = Elements(Tail(s)) \cup {Head(s)}
<1>1. /\ Head(s) \in Op /\ Tail(s) \in Seq(Op) /\ Head(s) = s[1]
      /\ 1 \in DOMAIN s
      /\ \A i \in DOMAIN Tail(s) : i + 1 \in DOMAIN s /\ Tail(s)[i] = s[i + 1]
      /\ \A j \in DOMAIN s : j = 1 \/ (j - 1 \in DOMAIN Tail(s) /\ Tail(s)[j - 1] = s[j])
  OBVIOUS
<1>2. ASSUME NEW x \in Elements(s)
      PROVE  x \in Elements(Tail(s)) \cup {Head(s)}
  <2>1. PICK j \in DOMAIN s : x = s[j]
    BY <1>2 DEF Elements
  <2> DEFINE k == j - 1
  <2>2. j = 1 \/ (k \in DOMAIN Tail(s) /\ Tail(s)[k] = x)
    BY <1>1, <2>1
  <2> HIDE DEF k
  <2> QED
    BY <1>1, <2>1, <2>2 DEF Elements
<1>3. ASSUME NEW x \in Elements(Tail(s))
      PROVE  x \in Elements(s)
  <2>1. PICK i \in DOMAIN Tail(s) : x = Tail(s)[i]
    BY <1>3 DEF Elements
  <2> DEFINE k == i + 1
  <2>2. k \in DOMAIN s /\ s[k] = x
    BY <1>1, <2>1
  <2> HIDE DEF k
  <2> QED
    BY <2>2 DEF Elements
<1>4. Head(s) \in Elements(s)
  BY <1>1 DEF Elements
<1> QED
  BY <1>1, <1>2, <1>3, <1>4

\* Stalled jobs go before the others.
LEMMA ConcatElements ==
  ASSUME NEW s \in Seq(Op), NEW t \in Seq(Op)
  PROVE  s \o t \in Seq(Op) /\ Elements(s \o t) = Elements(s) \cup Elements(t)
<1>1. s \o t \in Seq(Op)
  OBVIOUS
<1>2. ASSUME NEW i \in DOMAIN s
      PROVE  s[i] \in Elements(s \o t)
  <2>1. i \in DOMAIN (s \o t) /\ (s \o t)[i] = s[i]
    BY <1>2
  <2> QED
    BY <2>1 DEF Elements
<1>3. ASSUME NEW i \in DOMAIN t
      PROVE  t[i] \in Elements(s \o t)
  <2> DEFINE k == i + Len(s)
  <2>1. k \in DOMAIN (s \o t) /\ (s \o t)[k] = t[i]
    BY <1>3
  <2> HIDE DEF k
  <2> QED
    BY <2>1 DEF Elements
<1>4. ASSUME NEW j \in DOMAIN (s \o t)
      PROVE  (s \o t)[j] \in Elements(s) \cup Elements(t)
  <2> DEFINE k == j - Len(s)
  <2>1. \/ j \in DOMAIN s /\ (s \o t)[j] = s[j]
        \/ k \in DOMAIN t /\ (s \o t)[j] = t[k]
    BY <1>4
  <2> HIDE DEF k
  <2> QED
    BY <2>1 DEF Elements
<1>5. Elements(s) \cup Elements(t) \subseteq Elements(s \o t)
  BY <1>2, <1>3 DEF Elements
<1>6. Elements(s \o t) \subseteq Elements(s) \cup Elements(t)
  <2> SUFFICES ASSUME NEW x \in Elements(s \o t)
               PROVE  x \in Elements(s) \cup Elements(t)
    OBVIOUS
  <2>1. PICK j \in DOMAIN (s \o t) : x = (s \o t)[j]
    BY DEF Elements
  <2> QED
    BY <1>4, <2>1
<1> QED
  BY <1>1, <1>5, <1>6

\* The locals a handler can have after the filter.
LEMMA FilterFacts ==
  ASSUME NEW e \in Op, NEW set
  PROVE  /\ AfterFilter(e, set) \in Locals
         /\ AfterFilter(e, set) = [pc |-> IF Tracks(e, set) THEN "add" ELSE "find",
                                   since |-> 0, snapshot |-> {}, row |-> 0]
         /\ DroppedBy(e, set) = IF Tracks(e, set) THEN {} ELSE {e}
<1> QED
  BY ListenerAssumption DEF AfterFilter, Idle, Locals, Pc, Row, DroppedBy

\* When the process dies, the active jobs are a part of the new queue.
LEMMA StalledJobs ==
  ASSUME NEW q \in Seq(Op), NEW a \in SUBSET Op,
         NEW s \in [1..Cardinality(a) -> a], Elements(s) = a
  PROVE  s \o q \in Seq(Op) /\ Elements(s \o q) = a \cup Elements(q)
<1>1. s \in Seq(Op)
  BY OpsAreFinite
<1> QED
  BY <1>1, ConcatElements

-----------------------------------------------------------------------------
(* Types. *)

\* No refresh began in the future, and handlers live with their process and
\* follow the stream.
HandlerInv ==
  \A e \in Op :
    /\ handler[e].since <= clock
    /\ handler[e].pc # "idle" => phase = "up" /\ e <= position

\* No start and no saved cursor is ahead of the ledger.
CursorInv ==
  /\ start <= closed
  /\ \A r \in DOMAIN rows : rows[r] <= closed
  /\ rows = <<>> \/ first \in DOMAIN rows

TypeInv == TypeOK /\ HandlerInv /\ CursorInv

LEMMA TypeInit == Init => TypeInv
<1> SUFFICES ASSUME Init PROVE TypeInv
  OBVIOUS
<1>1. Idle \in Locals /\ Idle.since = 0 /\ Idle.pc = "idle"
  BY ListenerAssumption DEF Idle, Locals, Pc, Row
<1>2. <<>> \in Seq(Op) /\ DOMAIN <<>> = {}
  OBVIOUS
<1> QED
  BY <1>1, <1>2, ListenerAssumption DEF Init, TypeInv, TypeOK, HandlerInv, CursorInv, Row

\* A step of the environment keeps the types.
LEMMA TypeWorld ==
  ASSUME TypeInv, Tick \/ Close \/ (\E a \in UserWallet : CreateWallet(a))
  PROVE  TypeInv'
<1> USE ListenerAssumption DEF TypeInv, TypeOK, HandlerInv, CursorInv, process, state, queue, bounds, history
<1>1. CASE Tick
  <2>1. clock' \in 0..MaxClock /\ clock' > clock
    BY <1>1 DEF Tick
  <2>2. \A e \in Op : handler[e].since \in 0..MaxClock
    BY DEF Locals
  <2> QED
    BY <1>1, <2>1, <2>2 DEF Tick
<1>2. CASE Close
  <2>1. closed' \in 0..Last /\ closed' > closed
    BY <1>2 DEF Close
  <2> QED
    BY <1>2, <2>1 DEF Close
<1>3. CASE \E a \in UserWallet : CreateWallet(a)
  BY <1>3 DEF CreateWallet
<1> QED
  BY <1>1, <1>2, <1>3

\* Starting and dying keeps the types.
LEMMA TypeLife ==
  ASSUME TypeInv, ReadCursor \/ ReadCursorFails \/ Open \/ Crash
  PROVE  TypeInv'
<1> USE ListenerAssumption DEF TypeInv, TypeOK, HandlerInv, CursorInv
<1>1. CASE ReadCursor
  <2> USE <1>1 DEF ReadCursor, world, queue, bounds, history
  <2>1. CASE rows = <<>>
    <3>1. DOMAIN rows' = {0} /\ rows'[0] = 0
      BY <2>1 DEF NewRow
    <3>2. first' = 0 /\ start' = 0
      BY <2>1
    <3> QED
      BY <3>1, <3>2 DEF Row
  <2>2. CASE rows # <<>>
    <3>1. rows[first] \in 0..Last /\ rows[first] <= closed
      BY <2>2
    <3> QED
      BY <2>2, <3>1 DEF state
  <2> QED
    BY <2>1, <2>2
<1>2. CASE ReadCursorFails
  BY <1>2 DEF ReadCursorFails, world, queue, state, history
<1>3. CASE Open
  <2> USE <1>3 DEF Open, world, queue, state, bounds
  <2>1. position' \in 0..closed /\ origin' \in 0..Last
    OBVIOUS
  <2>2. \A e \in Op : handler'[e].pc = "idle"
    OBVIOUS
  <2> QED
    BY <2>1, <2>2
<1>4. CASE Crash
  <2> USE <1>4 DEF Crash, world, state
  <2>1. Idle \in Locals /\ Idle.since = 0 /\ Idle.pc = "idle"
    BY DEF Idle, Locals, Pc, Row
  <2>2. waiting' \in Seq(Op)
    <3>1. PICK s \in [1..Cardinality(active) -> active] :
            Elements(s) = active /\ waiting' = s \o waiting
      OBVIOUS
    <3> QED
      BY ONLY <3>1, TypeInv, StalledJobs DEF TypeInv, TypeOK, HandlerInv, CursorInv
  <2>3. position' \in 0..closed /\ refreshedAt' \in 0..clock
    OBVIOUS
  <2>4. handler' \in [Op -> Locals] /\ \A e \in Op : handler'[e] = Idle
    BY <2>1
  <2>5. cut' \subseteq Op
    BY DEF InFlight
  <2>6. HandlerInv' /\ CursorInv'
    BY <2>1, <2>4
  <2> QED
    BY <2>2, <2>3, <2>4, <2>5, <2>6
<1> QED
  BY <1>1, <1>2, <1>3, <1>4

\* A step of the queue keeps the types.
LEMMA TypeQueue ==
  ASSUME TypeInv, Process \/ (\E e \in Op : Complete(e))
  PROVE  TypeInv'
<1> USE DEF TypeInv, TypeOK, HandlerInv, CursorInv, world, process, state, bounds, history
<1>1. CASE Process
  BY <1>1, TailElements DEF Process
<1>2. CASE \E e \in Op : Complete(e)
  <2>1. PICK e \in Op : Complete(e)
    BY <1>2
  <2>2. completed' \in Seq(Op)
    BY <2>1, AppendElements, NewestFacts DEF Complete
  <2> QED
    BY <2>1, <2>2 DEF Complete
<1> QED
  BY <1>1, <1>2

\* A handler takes new locals.
LEMMA LocalsStep ==
  ASSUME TypeInv, NEW e \in Op,
         handler' \in [Op -> Locals], \A i \in Op \ {e} : handler'[i] = handler[i],
         handler'[e].since <= clock, handler'[e].pc # "idle" => phase = "up" /\ e <= position',
         position' \in Nat, position <= position',
         clock' = clock, phase' = phase
  PROVE  HandlerInv'
<1>1. HandlerInv /\ position \in Nat
  BY ListenerAssumption DEF TypeInv, TypeOK
<1>2. ASSUME NEW i \in Op
      PROVE  /\ handler'[i].since <= clock'
             /\ handler'[i].pc # "idle" => phase' = "up" /\ i <= position'
  <2>1. CASE i = e
    BY <2>1
  <2>2. CASE i # e
    <3>1. handler'[i] = handler[i] /\ i \in Nat
      BY <2>2 DEF Op
    <3> QED
      BY <1>1, <3>1 DEF HandlerInv
  <2> QED
    BY <2>1, <2>2
<1> QED
  BY <1>2 DEF HandlerInv

\* Locals from locals.
LEMMA LocalsFacts ==
  ASSUME NEW l \in Locals, NEW p \in Pc
  PROVE  /\ [l EXCEPT !.pc = p] \in Locals
         /\ [l EXCEPT !.pc = p].since = l.since
         /\ \A n \in 0..MaxClock :
              /\ [l EXCEPT !.pc = p, !.since = n] \in Locals
              /\ [l EXCEPT !.pc = p, !.since = n].since = n
         /\ \A w \in SUBSET UserWallet :
              /\ [l EXCEPT !.pc = p, !.snapshot = w] \in Locals
              /\ [l EXCEPT !.pc = p, !.snapshot = w].since = l.since
         /\ \A r \in Row :
              /\ [l EXCEPT !.pc = p, !.row = r] \in Locals
              /\ [l EXCEPT !.pc = p, !.row = r].since = l.since
<1> QED
  BY DEF Locals

\* The stream's next operation keeps the types.
LEMMA TypeReceive ==
  ASSUME TypeInv, NEW e \in Op, Receive(e)
  PROVE  TypeInv'
<1>1. /\ clock \in 0..MaxClock /\ position \in Nat /\ closed \in 0..Last
      /\ dropped \subseteq Op /\ cut \subseteq Op /\ receivedAt \in [Op -> 0..MaxClock]
      /\ handler \in [Op -> Locals]
  BY ListenerAssumption DEF TypeInv, TypeOK
<1>2. /\ phase = "up" /\ phase' = phase /\ UNCHANGED world
      /\ e = position + 1 /\ e <= closed /\ position' = e
      /\ receivedAt' = [receivedAt EXCEPT ![e] = clock]
  BY DEF Receive
<1>3. position <= position' /\ position' \in 0..closed
  BY <1>1, <1>2
<1>4. Idle \in Locals /\ Idle.since = 0 /\ "load" \in Pc
  BY ListenerAssumption DEF Idle, Locals, Pc, Row
<1>5. /\ handler' \in [Op -> Locals] /\ \A i \in Op \ {e} : handler'[i] = handler[i]
      /\ handler'[e].since <= clock
  <2>1. CASE clock - refreshedAt < RefreshAfter
    <3> DEFINE l == AfterFilter(e, tracked)
    <3>1. l \in Locals /\ l.since = 0
      BY FilterFacts
    <3>2. handler' = [handler EXCEPT ![e] = l]
      BY <2>1 DEF Receive
    <3> HIDE DEF l
    <3> QED
      BY <1>1, <3>1, <3>2
  <2>2. CASE ~(clock - refreshedAt < RefreshAfter)
    <3> DEFINE l == [Idle EXCEPT !.pc = "load", !.since = clock]
    <3>1. l \in Locals /\ l.since = clock
      <4>1. PICK i \in Locals : i = Idle
        BY <1>4
      <4>2. /\ [i EXCEPT !.pc = "load", !.since = clock] \in Locals
            /\ [i EXCEPT !.pc = "load", !.since = clock].since = clock
        BY <1>1 DEF Locals, Pc
      <4> QED
        BY <4>1, <4>2
    <3>2. handler' = [handler EXCEPT ![e] = l]
      BY <2>2 DEF Receive
    <3> HIDE DEF l
    <3> QED
      BY <1>1, <3>1, <3>2
  <2> QED
    BY <2>1, <2>2
<1>6. HandlerInv'
  <2>1. clock' = clock /\ phase' = phase /\ phase = "up" /\ e <= position' /\ position' \in Nat
    BY <1>1, <1>2 DEF world
  <2> QED
    BY <1>3, <1>5, <2>1, LocalsStep
<1>7. dropped' \subseteq Op /\ cut' \subseteq Op /\ receivedAt' \in [Op -> 0..MaxClock]
  BY <1>1, <1>2 DEF Receive, DroppedBy
<1>8. UNCHANGED <<start, tracked, refreshedAt, origin, state, queue, bounds>>
  BY DEF Receive
<1> QED
  BY <1>2, <1>3, <1>5, <1>6, <1>7, <1>8
     DEF TypeInv, TypeOK, CursorInv, world, state, queue, bounds

\* A step of a handler keeps the types.
LEMMA TypeHandler ==
  ASSUME TypeInv, NEW e \in Op, Handle(e) \/ HandlerFails(e)
  PROVE  TypeInv'
<1>1. /\ handler[e] \in Locals /\ handler[e].since <= clock
      /\ clock \in 0..MaxClock /\ position \in 0..closed /\ closed \in 0..Last
      /\ wallets \subseteq UserWallet /\ first \in Row
      /\ waiting \in Seq(Op) /\ adds \in [Op -> Nat] /\ dropped \subseteq Op
      /\ handler \in [Op -> Locals]
  BY DEF TypeInv, TypeOK, HandlerInv
<1>2. handler[e].pc # "idle" => phase = "up" /\ e <= position
  BY DEF TypeInv, HandlerInv
<1>3. /\ handler[e].since \in 0..MaxClock /\ handler[e].snapshot \subseteq UserWallet
      /\ handler[e].row \in Row /\ Pc = {"idle", "load", "loaded", "add", "find", "create", "save"}
  BY <1>1 DEF Locals, Pc
<1>4. Idle \in Locals /\ Idle.since = 0 /\ Idle.pc = "idle"
  BY ListenerAssumption DEF Idle, Locals, Pc, Row
<1>5. ASSUME handler[e].pc # "idle", UNCHANGED <<clock, phase, position>>,
             handler' \in [Op -> Locals], \A i \in Op \ {e} : handler'[i] = handler[i],
             handler'[e].since <= clock
      PROVE  HandlerInv'
  BY <1>1, <1>2, <1>5, LocalsStep, ListenerAssumption
<1>6. CASE LoadWallets(e)
  <2>0. handler[e].pc # "idle" /\ UNCHANGED <<clock, phase, position>>
    BY <1>6 DEF LoadWallets, world, process
  <2> DEFINE l == [handler[e] EXCEPT !.pc = "loaded", !.snapshot = wallets]
  <2>1. l \in Locals /\ l.since = handler[e].since
    BY <1>1, <1>3, LocalsFacts
  <2>2. handler' = [handler EXCEPT ![e] = l]
    BY <1>6 DEF LoadWallets
  <2>3. handler' \in [Op -> Locals] /\ HandlerInv'
    <3> HIDE DEF l
    <3> QED
      BY <1>1, <1>5, <2>0, <2>1, <2>2
  <2> QED
    BY <1>6, <2>3 DEF LoadWallets, TypeInv, TypeOK, CursorInv,
                      world, state, queue, bounds, history
<1>7. CASE Refresh(e)
  <2>0. handler[e].pc # "idle" /\ UNCHANGED <<clock, phase, position>>
    BY <1>7 DEF Refresh, world, process
  <2> DEFINE l == AfterFilter(e, tracked')
  <2>1. l \in Locals /\ l.since = 0
    BY FilterFacts
  <2>2. handler' = [handler EXCEPT ![e] = l]
    BY <1>7 DEF Refresh
  <2>3. handler' \in [Op -> Locals] /\ HandlerInv'
    BY <1>1, <1>5, <2>0, <2>1, <2>2
  <2>4. /\ dropped' \subseteq Op /\ refreshedAt' \in 0..clock
        /\ tracked' \subseteq UserWallet \cup Platform
    BY <1>1, <1>3, <1>7 DEF Refresh, DroppedBy
  <2> QED
    BY <1>7, <2>3, <2>4 DEF Refresh, TypeInv, TypeOK, CursorInv,
                            world, state, queue, bounds
<1>8. CASE Add(e)
  <2>0. handler[e].pc # "idle" /\ UNCHANGED <<clock, phase, position>>
    BY <1>8 DEF Add, world, process
  <2> DEFINE l == [handler[e] EXCEPT !.pc = "find"]
  <2>1. l \in Locals /\ l.since = handler[e].since
    BY <1>1, <1>3, LocalsFacts
  <2>2. handler' = [handler EXCEPT ![e] = l]
    BY <1>8, Zenon DEF Add
  <2>3. handler' \in [Op -> Locals] /\ HandlerInv'
    <3> HIDE DEF l
    <3> QED
      BY <1>1, <1>5, <2>0, <2>1, <2>2
  <2>4. /\ waiting' = waiting \/ waiting' = Append(waiting, e)
        /\ adds' = adds \/ adds' = [adds EXCEPT ![e] = adds[e] + 1]
    BY <1>8 DEF Add
  <2>5. waiting' \in Seq(Op)
    BY <1>1, <2>4, AppendElements
  <2>6. adds' \in [Op -> Nat]
    BY <1>1, <2>4
  <2> QED
    BY <1>8, <2>3, <2>5, <2>6 DEF Add, TypeInv, TypeOK, CursorInv,
                            world, state, bounds, history
<1>9. CASE FindState(e)
  <2>0. handler[e].pc # "idle" /\ UNCHANGED <<clock, phase, position>>
    BY <1>9 DEF FindState, world, process
  <2> DEFINE l1 == [handler[e] EXCEPT !.pc = "create"]
             l2 == [handler[e] EXCEPT !.pc = "save", !.row = first]
  <2>1. l1 \in Locals /\ l2 \in Locals /\ l1.since = handler[e].since /\ l2.since = handler[e].since
    BY <1>1, <1>3, LocalsFacts
  <2>2. handler' = [handler EXCEPT ![e] = l1] \/ handler' = [handler EXCEPT ![e] = l2]
    BY <1>9 DEF FindState
  <2>3. handler' \in [Op -> Locals] /\ HandlerInv'
    <3> HIDE DEF l1, l2
    <3> QED
      BY <1>1, <1>5, <2>0, <2>1, <2>2
  <2> QED
    BY <1>9, <2>3 DEF FindState, TypeInv, TypeOK, CursorInv,
                      world, state, queue, bounds, history
<1>10. CASE CreateState(e)
  <2>0. handler[e].pc # "idle" /\ UNCHANGED <<clock, phase, position>>
    BY <1>10 DEF CreateState, world, process
  <2> DEFINE l == [handler[e] EXCEPT !.pc = "save", !.row = e]
  <2>1. e \in Row
    BY DEF Op, Row
  <2>2. l \in Locals /\ l.since = handler[e].since
    BY <1>1, <1>3, <2>1, LocalsFacts
  <2>3. handler' = [handler EXCEPT ![e] = l]
    BY <1>10 DEF CreateState
  <2>4. handler' \in [Op -> Locals] /\ HandlerInv'
    <3> HIDE DEF l
    <3> QED
      BY <1>1, <1>5, <2>0, <2>2, <2>3
  <2>5. /\ DOMAIN rows' = DOMAIN rows \cup {e}
        /\ \A r \in DOMAIN rows' : rows'[r] = IF r = e THEN 0 ELSE rows[r]
    BY <1>10 DEF CreateState, NewRow
  <2>6. first' \in Row /\ first' \in DOMAIN rows'
    BY <1>1, <1>10, <2>1, <2>5 DEF CreateState, TypeInv, CursorInv
  <2>7. DOMAIN rows' \subseteq Row
    BY <2>1, <2>5 DEF TypeInv, TypeOK
  <2>8. ASSUME NEW r \in DOMAIN rows'
        PROVE  rows'[r] \in 0..Last /\ rows'[r] <= closed
    <3>1. CASE r = e
      <4>1. rows'[r] = 0 /\ 0 \in 0..Last
        BY <2>5, <3>1, ListenerAssumption
      <4> QED
        BY <1>1, <4>1
    <3>2. CASE r # e
      <4>1. rows'[r] = rows[r] /\ r \in DOMAIN rows
        BY <2>5, <3>2
      <4> QED
        BY <4>1 DEF TypeInv, TypeOK, CursorInv
    <3> QED
      BY <3>1, <3>2
  <2> QED
    BY <1>10, <2>4, <2>6, <2>7, <2>8 DEF CreateState, TypeInv, TypeOK, CursorInv,
                                         world, queue, bounds, history
<1>11. CASE SaveCursor(e)
  <2>0. handler[e].pc # "idle" /\ UNCHANGED <<clock, phase, position>>
    BY <1>11 DEF SaveCursor, world, process
  <2>1. handler' \in [Op -> Locals] /\ HandlerInv'
    BY <1>1, <1>4, <1>5, <1>11, <2>0 DEF SaveCursor
  <2>2. e \in 0..Last /\ e <= closed
    BY <1>1, <1>2, <1>11 DEF Op, SaveCursor
  <2>3. /\ DOMAIN rows' = DOMAIN rows
        /\ \A r \in DOMAIN rows' : rows'[r] = IF r = handler[e].row THEN e ELSE rows[r]
        /\ rows = <<>> => rows' = <<>>
    BY <1>11 DEF SaveCursor
  <2>4. ASSUME NEW r \in DOMAIN rows'
        PROVE  rows'[r] \in 0..Last /\ rows'[r] <= closed
    <3>1. rows[r] \in 0..Last /\ rows[r] <= closed
      BY <2>3 DEF TypeInv, TypeOK, CursorInv
    <3>2. rows'[r] = e \/ rows'[r] = rows[r]
      BY <2>3
    <3> QED
      BY <2>2, <3>1, <3>2
  <2> QED
    BY <1>11, <2>1, <2>3, <2>4 DEF SaveCursor, TypeInv, TypeOK, CursorInv,
                                   world, queue, bounds, history
<1>12. CASE HandlerFails(e)
  <2>0. handler[e].pc # "idle" /\ UNCHANGED <<clock, phase, position>>
    BY <1>12 DEF HandlerFails, world, process
  <2>1. handler' \in [Op -> Locals] /\ HandlerInv'
    BY <1>1, <1>4, <1>5, <1>12, <2>0 DEF HandlerFails
  <2>2. failures' \in 0..MaxFailures /\ cut' \subseteq Op
    BY <1>12, ListenerAssumption DEF HandlerFails, TypeInv, TypeOK
  <2> QED
    BY <1>12, <2>1, <2>2 DEF HandlerFails, TypeInv, TypeOK, CursorInv,
                             world, state, queue
<1> QED
  BY <1>6, <1>7, <1>8, <1>9, <1>10, <1>11, <1>12 DEF Handle

\* Every step keeps the types.
LEMMA TypeStep == TypeInv /\ [Next]_vars => TypeInv'
<1> SUFFICES ASSUME TypeInv, [Next]_vars
             PROVE  TypeInv'
  OBVIOUS
<1>1. CASE UNCHANGED vars
  BY <1>1 DEF vars, world, process, state, queue, bounds, history, TypeInv, TypeOK,
                 HandlerInv, CursorInv
<1> QED
  BY <1>1, TypeWorld, TypeLife, TypeReceive, TypeHandler, TypeQueue DEF Next

\* Every variable of the listener keeps to its range: the cursors and handlers
\* stay behind the ledger, and no refresh is stamped with a time to come.
THEOREM ListenerTypeCorrect == Spec => []TypeOK
<1>1. TypeInv => TypeOK
  BY DEF TypeInv
<1> QED
  BY <1>1, TypeInit, TypeStep, PTL DEF Spec

-----------------------------------------------------------------------------
(* What the steps of a handler do to its locals. *)

\* The stream's next operation gets a handler.
LEMMA ReceiveFacts ==
  ASSUME TypeInv, NEW e \in Op, Receive(e)
  PROVE  /\ phase = "up" /\ e = position + 1 /\ e <= closed /\ position' = e
         /\ receivedAt' = [receivedAt EXCEPT ![e] = clock]
         /\ UNCHANGED <<phase, start, tracked, refreshedAt, origin, world, state, queue, bounds>>
         /\ \A i \in Op \ {e} : handler'[i] = handler[i]
         /\ \/ /\ clock - refreshedAt < RefreshAfter
               /\ handler'[e].pc = IF Tracks(e, tracked) THEN "add" ELSE "find"
               /\ dropped' = IF Tracks(e, tracked) THEN dropped \ {e} ELSE dropped \cup {e}
            \/ /\ handler'[e].pc = "load"
               /\ dropped' = dropped \ {e}
<1>1. handler \in [Op -> Locals]
  BY DEF TypeInv, TypeOK
<1>2. CASE clock - refreshedAt < RefreshAfter
  <2>1. handler' = [handler EXCEPT ![e] = AfterFilter(e, tracked)]
    BY <1>2 DEF Receive
  <2>2. handler'[e] = AfterFilter(e, tracked) /\ \A i \in Op \ {e} : handler'[i] = handler[i]
    BY <1>1, <2>1
  <2>3. dropped' = (dropped \ {e}) \cup DroppedBy(e, tracked)
    BY <1>2 DEF Receive
  <2>4. handler'[e].pc = IF Tracks(e, tracked) THEN "add" ELSE "find"
    BY <2>2, FilterFacts
  <2>5. dropped' = IF Tracks(e, tracked) THEN dropped \ {e} ELSE dropped \cup {e}
    BY <2>3, FilterFacts
  <2> QED
    BY <1>2, <2>2, <2>4, <2>5 DEF Receive
<1>3. CASE ~(clock - refreshedAt < RefreshAfter)
  <2> DEFINE l == [Idle EXCEPT !.pc = "load", !.since = clock]
  <2>1. l.pc = "load"
    BY DEF Idle
  <2>2. handler' = [handler EXCEPT ![e] = l]
    BY <1>3 DEF Receive
  <2>3. handler'[e] = l /\ \A i \in Op \ {e} : handler'[i] = handler[i]
    BY <1>1, <2>2
  <2> QED
    BY <1>3, <2>1, <2>3 DEF Receive
<1> QED
  BY <1>2, <1>3

\* The later steps, each with where it leaves its handler.
LEMMA HandlerFacts ==
  ASSUME TypeInv, NEW e \in Op, Handle(e) \/ HandlerFails(e)
  PROVE  /\ phase = "up" /\ e <= position /\ handler[e].pc # "idle"
         /\ UNCHANGED <<phase, start, position, origin, receivedAt, world>>
         /\ \A i \in Op \ {e} : handler'[i] = handler[i]
         /\ LoadWallets(e) => /\ handler'[e].pc = "loaded" /\ handler'[e].snapshot = wallets
                              /\ handler'[e].since = handler[e].since
         /\ Refresh(e) => /\ handler'[e].pc = IF Tracks(e, tracked') THEN "add" ELSE "find"
                          /\ dropped' = IF Tracks(e, tracked') THEN dropped ELSE dropped \cup {e}
         /\ Add(e) => handler'[e].pc = "find"
         /\ FindState(e) => \/ rows = <<>> /\ handler'[e].pc = "create"
                            \/ /\ rows # <<>>
                               /\ handler'[e].pc = "save" /\ handler'[e].row = first
         /\ CreateState(e) => handler'[e].pc = "save"
         /\ SaveCursor(e) \/ HandlerFails(e) => handler'[e].pc = "idle"
<1>1. handler \in [Op -> Locals] /\ HandlerInv
  BY DEF TypeInv, TypeOK
<1>2. handler[e] \in Locals
  BY <1>1
<1>3. handler[e].pc # "idle"
  BY DEF Handle, LoadWallets, Refresh, Add, FindState, CreateState, SaveCursor, HandlerFails
<1>4. UNCHANGED <<phase, start, position, origin, receivedAt, world>>
  BY DEF Handle, LoadWallets, Refresh, Add, FindState, CreateState, SaveCursor, HandlerFails,
         history, process
<1>5. ASSUME NEW i \in Op \ {e}
      PROVE  handler'[i] = handler[i]
  BY <1>1, <1>5
     DEF Handle, LoadWallets, Refresh, Add, FindState, CreateState, SaveCursor, HandlerFails
<1>6. \A i \in Op \ {e} : handler'[i] = handler[i]
  BY <1>5
<1>7. ASSUME LoadWallets(e)
      PROVE  /\ handler'[e].pc = "loaded" /\ handler'[e].snapshot = wallets
             /\ handler'[e].since = handler[e].since
  BY <1>1, <1>2, <1>7 DEF LoadWallets, Locals
<1>8. ASSUME Refresh(e)
      PROVE  /\ handler'[e].pc = IF Tracks(e, tracked') THEN "add" ELSE "find"
             /\ dropped' = IF Tracks(e, tracked') THEN dropped ELSE dropped \cup {e}
  <2>1. /\ handler' = [handler EXCEPT ![e] = AfterFilter(e, tracked')]
        /\ dropped' = dropped \cup DroppedBy(e, tracked')
    BY <1>8 DEF Refresh
  <2>2. handler'[e].pc = IF Tracks(e, tracked') THEN "add" ELSE "find"
    <3>1. handler'[e] = AfterFilter(e, tracked')
      BY <1>1, <2>1
    <3> QED
      BY <3>1, FilterFacts
  <2>3. dropped' = IF Tracks(e, tracked') THEN dropped ELSE dropped \cup {e}
    BY <2>1 DEF DroppedBy
  <2> QED
    BY <2>2, <2>3
<1>9. ASSUME Add(e) PROVE handler'[e].pc = "find"
  BY <1>1, <1>2, <1>9 DEF Add, Locals
<1>10. ASSUME FindState(e)
       PROVE  \/ rows = <<>> /\ handler'[e].pc = "create"
              \/ rows # <<>> /\ handler'[e].pc = "save" /\ handler'[e].row = first
  BY <1>1, <1>2, <1>10 DEF FindState, Locals
<1>11. ASSUME CreateState(e) PROVE handler'[e].pc = "save"
  BY <1>1, <1>2, <1>11 DEF CreateState, Locals
<1>12. ASSUME SaveCursor(e) \/ HandlerFails(e) PROVE handler'[e].pc = "idle"
  BY <1>1, <1>12 DEF SaveCursor, HandlerFails, Idle
<1> QED
  BY <1>1, <1>3, <1>4, <1>6, <1>7, <1>8, <1>9, <1>10, <1>11, <1>12 DEF HandlerInv

-----------------------------------------------------------------------------
(* How long a wallet is missed. *)

UserParties(e) == {Sender[e], Receiver[e]} \cap UserWallet

\* A wallet exists before it takes part in a payment, and an operation that
\* was dropped is on the ledger.
WalletInv ==
  /\ \A a \in wallets : createdAt[a] <= clock
  /\ \A e \in Op : e <= closed => UserParties(e) \subseteq wallets
  /\ \A e \in dropped : e <= closed

\* What the cache lacks is no older than the cache, and what a refresh under
\* way lacks is no older than that refresh, nor needed by its own operation.
CacheInv ==
  /\ phase = "up" => \A a \in wallets \ tracked : createdAt[a] >= refreshedAt
  /\ \A e \in Op : handler[e].pc = "loaded" =>
       /\ UserParties(e) \subseteq handler[e].snapshot
       /\ \A a \in wallets \ handler[e].snapshot : createdAt[a] >= handler[e].since

TrackInv == TypeInv /\ WalletInv /\ CacheInv /\ OnlyNewWalletsAreMissed

LEMMA TrackInit == Init => WalletInv /\ CacheInv /\ OnlyNewWalletsAreMissed
<1> SUFFICES ASSUME Init PROVE WalletInv /\ CacheInv /\ OnlyNewWalletsAreMissed
  OBVIOUS
<1>1. closed = 0 /\ wallets = {} /\ dropped = {} /\ phase = "down"
  BY DEF Init
<1>2. \A e \in Op : handler[e].pc = "idle" /\ ~(e <= closed)
  BY <1>1 DEF Init, Idle, Op
<1>3. WalletInv
  BY <1>1, <1>2 DEF WalletInv
<1>4. CacheInv
  BY <1>1, <1>2 DEF CacheInv
<1>5. OnlyNewWalletsAreMissed
  BY <1>1 DEF OnlyNewWalletsAreMissed
<1> QED
  BY <1>3, <1>4, <1>5

\* What the proof uses of the types.
TrackTypes ==
  /\ clock \in Nat /\ closed \in Nat /\ position \in 0..closed
  /\ createdAt \in [UserWallet -> Nat] /\ receivedAt \in [Op -> Nat]
  /\ refreshedAt \in 0..clock /\ wallets \subseteq UserWallet
  /\ dropped \subseteq Op /\ Op \subseteq Nat \ {0} /\ RefreshAfter \in Nat
  /\ \A e \in Op : handler[e].since \in 0..clock
  /\ \A e \in Op : handler[e].pc # "idle" => phase = "up" /\ e <= position

LEMMA TrackTypesHold == TypeInv => TrackTypes
<1> SUFFICES ASSUME TypeInv PROVE TrackTypes
  OBVIOUS
<1>1. \A e \in Op : handler[e] \in Locals
  BY DEF TypeInv, TypeOK
<1>2. \A e \in Op : handler[e].since \in 0..clock
  BY <1>1, ListenerAssumption DEF TypeInv, TypeOK, HandlerInv, Locals
<1> QED
  BY <1>2, ListenerAssumption DEF TypeInv, TypeOK, HandlerInv, TrackTypes, Op

\* The environment: time passes, wallets and operations appear.
LEMMA TrackWorld ==
  ASSUME TrackInv, Tick \/ Close \/ (\E a \in UserWallet : CreateWallet(a))
  PROVE  (WalletInv /\ CacheInv /\ OnlyNewWalletsAreMissed)'
<1>1. TrackTypes /\ WalletInv /\ CacheInv /\ OnlyNewWalletsAreMissed
  BY TrackTypesHold DEF TrackInv
<1>2. UNCHANGED <<process, history>>
  BY DEF Tick, Close, CreateWallet
<1>3. CASE Tick
  <2>1. clock' = clock + 1 /\ UNCHANGED <<closed, wallets, createdAt>>
    BY <1>3 DEF Tick
  <2>2. WalletInv'
    BY <1>1, <1>2, <2>1 DEF WalletInv, TrackTypes, history
  <2> QED
    BY <1>1, <1>2, <2>1, <2>2 DEF CacheInv, OnlyNewWalletsAreMissed, process, history
<1>4. CASE Close
  <2>1. /\ closed' = closed + 1 /\ UNCHANGED <<clock, wallets, createdAt>>
        /\ {Sender[closed + 1], Receiver[closed + 1]} \cap UserWallet \subseteq wallets
    BY <1>4 DEF Close
  <2>2. ASSUME NEW e \in Op, e <= closed'
        PROVE  UserParties(e) \subseteq wallets
    <3>1. e <= closed \/ e = closed + 1
      BY <1>1, <2>1, <2>2 DEF TrackTypes
    <3> QED
      BY <1>1, <2>1, <3>1 DEF WalletInv, UserParties
  <2>3. \A e \in dropped : e <= closed'
    BY <1>1, <2>1 DEF WalletInv, TrackTypes
  <2>4. WalletInv'
    BY <1>1, <1>2, <2>1, <2>2, <2>3 DEF WalletInv, history
  <2> QED
    BY <1>1, <1>2, <2>1, <2>4 DEF CacheInv, OnlyNewWalletsAreMissed, process, history
<1>5. ASSUME NEW a \in UserWallet, CreateWallet(a)
      PROVE  (WalletInv /\ CacheInv /\ OnlyNewWalletsAreMissed)'
  <2>1. /\ a \notin wallets /\ wallets' = wallets \cup {a}
        /\ createdAt' = [createdAt EXCEPT ![a] = clock] /\ UNCHANGED <<clock, closed>>
    BY <1>5 DEF CreateWallet
  <2>2. createdAt'[a] = clock /\ \A b \in wallets : b # a /\ createdAt'[b] = createdAt[b]
    BY <1>1, <2>1 DEF TrackTypes
  <2>3. WalletInv'
    BY <1>1, <1>2, <2>1, <2>2 DEF WalletInv, TrackTypes, history
  <2>4. CacheInv'
    <3>1. \A b \in wallets' \ tracked : phase = "up" => createdAt'[b] >= refreshedAt
      BY <1>1, <2>1, <2>2 DEF CacheInv, TrackTypes
    <3>2. ASSUME NEW e \in Op, handler[e].pc = "loaded"
          PROVE  /\ UserParties(e) \subseteq handler[e].snapshot
                 /\ \A b \in wallets' \ handler[e].snapshot : createdAt'[b] >= handler[e].since
      BY <1>1, <2>1, <2>2, <3>2 DEF CacheInv, TrackTypes
    <3> QED
      BY <1>2, <3>1, <3>2 DEF CacheInv, process
  <2>5. OnlyNewWalletsAreMissed'
    <3> SUFFICES ASSUME NEW e \in dropped \cap Payments, NEW b \in UserParties(e)
                 PROVE  receivedAt[e] - createdAt'[b] < RefreshAfter
      BY <1>2 DEF OnlyNewWalletsAreMissed, UserParties, history
    <3>1. b \in wallets
      BY <1>1 DEF WalletInv, TrackTypes
    <3> QED
      BY <1>1, <2>2, <3>1 DEF OnlyNewWalletsAreMissed, UserParties
  <2> QED
    BY <2>3, <2>4, <2>5
<1> QED
  BY <1>3, <1>4, <1>5

\* An operation is looked for in the cache, or waits for a refresh.
LEMMA TrackReceive ==
  ASSUME TrackInv, NEW e \in Op, Receive(e)
  PROVE  (WalletInv /\ CacheInv /\ OnlyNewWalletsAreMissed)'
<1>1. TypeInv /\ TrackTypes /\ WalletInv /\ CacheInv /\ OnlyNewWalletsAreMissed
  BY TrackTypesHold DEF TrackInv
<1>2. /\ phase = "up" /\ e <= closed
      /\ UNCHANGED <<phase, tracked, refreshedAt, closed, wallets, clock, createdAt>>
      /\ receivedAt' = [receivedAt EXCEPT ![e] = clock]
      /\ \A i \in Op \ {e} : handler'[i] = handler[i]
      /\ handler'[e].pc # "loaded"
      /\ dropped' \subseteq dropped \cup {e}
      /\ e \in dropped' => clock - refreshedAt < RefreshAfter /\ ~Tracks(e, tracked)
  <2>1. handler'[e].pc \in {"add", "find", "load"}
    BY <1>1, ReceiveFacts
  <2> QED
    BY <1>1, <2>1, ReceiveFacts DEF world
<1>3. WalletInv'
  BY <1>1, <1>2 DEF WalletInv
<1>4. CacheInv'
  BY <1>1, <1>2 DEF CacheInv
<1>5. OnlyNewWalletsAreMissed'
  <2> SUFFICES ASSUME NEW i \in dropped' \cap Payments, NEW a \in UserParties(i)
               PROVE  receivedAt'[i] - createdAt[a] < RefreshAfter
    BY <1>2 DEF OnlyNewWalletsAreMissed, UserParties
  <2>1. CASE i # e
    <3>1. receivedAt'[i] = receivedAt[i] /\ i \in dropped
      BY <1>1, <1>2, <2>1 DEF TrackTypes
    <3> QED
      BY <1>1, <3>1 DEF OnlyNewWalletsAreMissed, UserParties
  <2>2. CASE i = e
    <3>1. a \in wallets \ tracked
      BY <1>1, <1>2, <2>2 DEF WalletInv, Tracks, UserParties
    <3>2. createdAt[a] >= refreshedAt /\ createdAt[a] \in Nat
      BY <1>1, <1>2, <3>1 DEF CacheInv, TrackTypes
    <3>3. receivedAt'[i] = clock /\ clock - refreshedAt < RefreshAfter
      BY <1>1, <1>2, <2>2 DEF TrackTypes
    <3> QED
      BY <1>1, <3>2, <3>3 DEF TrackTypes
  <2> QED
    BY <2>1, <2>2
<1> QED
  BY <1>3, <1>4, <1>5

\* The refresh and what follows it.
LEMMA TrackHandler ==
  ASSUME TrackInv, NEW e \in Op, Handle(e) \/ HandlerFails(e)
  PROVE  (WalletInv /\ CacheInv /\ OnlyNewWalletsAreMissed)'
<1>1. TypeInv /\ TrackTypes /\ WalletInv /\ CacheInv /\ OnlyNewWalletsAreMissed
  BY TrackTypesHold DEF TrackInv
<1>2. /\ phase = "up" /\ e <= closed
      /\ UNCHANGED <<phase, closed, wallets, clock, createdAt, receivedAt>>
      /\ \A i \in Op \ {e} : handler'[i] = handler[i]
  BY <1>1, HandlerFacts DEF world, TrackTypes
<1>3. CASE LoadWallets(e)
  <2>1. UNCHANGED <<tracked, refreshedAt, dropped>>
    BY <1>3 DEF LoadWallets, history
  <2>2. handler'[e].snapshot = wallets
    BY <1>1, <1>3, HandlerFacts
  <2>3. UserParties(e) \subseteq wallets
    BY <1>1, <1>2 DEF WalletInv
  <2>4. CacheInv'
    BY <1>1, <1>2, <2>1, <2>2, <2>3 DEF CacheInv
  <2> QED
    BY <1>1, <1>2, <2>1, <2>4 DEF WalletInv, OnlyNewWalletsAreMissed
<1>4. CASE Refresh(e)
  <2>1. /\ handler[e].pc = "loaded"
        /\ tracked' = handler[e].snapshot \cup Platform /\ refreshedAt' = handler[e].since
    BY <1>4 DEF Refresh
  <2>2. /\ handler'[e].pc # "loaded" /\ dropped' \subseteq dropped \cup {e}
        /\ e \in dropped' => e \in dropped \/ ~Tracks(e, tracked')
    <3>1. handler'[e].pc \in {"add", "find"}
      BY <1>1, <1>4, HandlerFacts
    <3> QED
      BY <1>1, <1>4, <3>1, HandlerFacts
  <2>3. WalletInv'
    BY <1>1, <1>2, <2>2 DEF WalletInv
  <2>4. CacheInv'
    BY <1>1, <1>2, <2>1, <2>2 DEF CacheInv
  <2>5. OnlyNewWalletsAreMissed'
    <3> SUFFICES ASSUME NEW i \in dropped' \cap Payments, NEW a \in UserParties(i)
                 PROVE  receivedAt[i] - createdAt[a] < RefreshAfter
      BY <1>2 DEF OnlyNewWalletsAreMissed, UserParties
    <3>1. UserParties(e) \subseteq tracked'
      BY <1>1, <2>1 DEF CacheInv
    <3>2. i \in dropped
      BY <2>2, <3>1 DEF Tracks, UserParties
    <3> QED
      BY <1>1, <3>2 DEF OnlyNewWalletsAreMissed, UserParties
  <2> QED
    BY <2>3, <2>4, <2>5
<1>5. CASE ~LoadWallets(e) /\ ~Refresh(e)
  <2>1. UNCHANGED <<tracked, refreshedAt, dropped>>
    BY <1>5 DEF Handle, Add, FindState, CreateState, SaveCursor, HandlerFails, history
  <2>2. handler'[e].pc # "loaded"
    <3>1. handler'[e].pc \in {"find", "create", "save", "idle"}
      BY <1>1, <1>5, HandlerFacts DEF Handle
    <3> QED
      BY <3>1
  <2>3. CacheInv'
    BY <1>1, <1>2, <2>1, <2>2 DEF CacheInv
  <2> QED
    BY <1>1, <1>2, <2>1, <2>3 DEF WalletInv, OnlyNewWalletsAreMissed
<1> QED
  BY <1>3, <1>4, <1>5

LEMMA TrackStep == TrackInv /\ [Next]_vars => TrackInv'
<1> SUFFICES ASSUME TrackInv, [Next]_vars
             PROVE  TrackInv'
  OBVIOUS
<1>1. TypeInv /\ WalletInv /\ CacheInv /\ OnlyNewWalletsAreMissed /\ TypeInv'
  BY TypeStep DEF TrackInv
<1>2. CASE \/ UNCHANGED vars \/ ReadCursor \/ ReadCursorFails
           \/ Process \/ \E e \in Op : Complete(e)
  <2>1. UNCHANGED <<world, tracked, refreshedAt, handler, history>> /\ (phase' = "up" => phase = "up")
    BY <1>2 DEF vars, ReadCursor, ReadCursorFails, Process, Complete, process
  <2> QED
    BY <1>1, <2>1 DEF TrackInv, WalletInv, CacheInv, OnlyNewWalletsAreMissed, world, history
<1>3. CASE Open \/ Crash
  <2>1. /\ UNCHANGED <<world, dropped, receivedAt>>
        /\ \A e \in Op : handler'[e].pc = "idle"
        /\ phase' = "up" => tracked' = wallets \cup Platform
    BY <1>1, <1>3 DEF Open, Crash, TypeInv, HandlerInv, Idle, history
  <2> QED
    BY <1>1, <2>1 DEF TrackInv, WalletInv, CacheInv, OnlyNewWalletsAreMissed, world
<1> QED
  BY <1>1, <1>2, <1>3, TrackWorld, TrackReceive, TrackHandler DEF Next, TrackInv

\* However refreshes of the cache overlap, a payment of a wallet as old as the
\* refresh interval is never taken for irrelevant.
THEOREM OldWalletsAreNotMissed == Spec => []OnlyNewWalletsAreMissed
<1>1. Init => TrackInv
  BY TypeInit, TrackInit DEF TrackInv
<1>2. TrackInv => OnlyNewWalletsAreMissed
  BY DEF TrackInv
<1> QED
  BY <1>1, <1>2, TrackStep, PTL DEF Spec

-----------------------------------------------------------------------------
(* How far back the cursor goes. *)

\* After a resumption at a cursor, the row in use stays at or after it, and
\* so does whatever the handlers will save; none of them makes another row.
StartInv ==
  start # 0 =>
    /\ first \in DOMAIN rows /\ rows[first] >= start
    /\ phase = "up" => position >= start
    /\ \A e \in Op : handler[e].pc # "idle" => e > start /\ handler[e].pc # "create"

LEMMA StartStep == TypeInv /\ StartInv /\ [Next]_vars => StartInv'
<1> SUFFICES ASSUME TypeInv, StartInv, [Next]_vars
             PROVE  StartInv'
  OBVIOUS
<1>1. /\ handler \in [Op -> Locals] /\ \A i \in Op : i \in Nat
      /\ rows = <<>> \/ first \in DOMAIN rows
      /\ phase # "up" => \A i \in Op : handler[i].pc = "idle"
      /\ position \in Nat /\ closed \in Nat /\ start \in Nat
      /\ \A r \in DOMAIN rows : rows[r] \in Nat
  BY ListenerAssumption DEF TypeInv, TypeOK, CursorInv, HandlerInv, Op
<1>2. CASE UNCHANGED <<process, state>>
  BY <1>2 DEF StartInv, process, state
<1>3. CASE ReadCursor
  <2>1. CASE rows = <<>>
    BY <1>3, <2>1 DEF ReadCursor, StartInv
  <2>2. CASE rows # <<>>
    <3>1. start' = rows[first] /\ UNCHANGED <<rows, first, handler, position>>
      BY <1>3, <2>2 DEF ReadCursor, state
    <3> QED
      BY <1>1, <1>3, <2>2, <3>1 DEF ReadCursor, StartInv
  <2> QED
    BY <2>1, <2>2
<1>4. CASE ReadCursorFails
  BY <1>4 DEF ReadCursorFails, StartInv
<1>5. CASE Open
  <2>1. phase # "up" /\ UNCHANGED <<start, handler, rows, first>> /\ (start # 0 => position' = start)
    BY <1>5 DEF Open, state
  <2> QED
    BY <1>1, <2>1 DEF StartInv
<1>6. CASE Crash
  BY <1>6 DEF Crash, StartInv
<1>7. ASSUME NEW e \in Op, Receive(e)
      PROVE  StartInv'
  <2>1. /\ phase = "up" /\ e = position + 1 /\ position' = e
        /\ UNCHANGED <<phase, start, rows, first>>
        /\ \A i \in Op \ {e} : handler'[i] = handler[i]
        /\ handler'[e].pc # "create"
    <3>1. handler'[e].pc \in {"add", "find", "load"}
      BY <1>7, ReceiveFacts
    <3> QED
      BY <1>7, <3>1, ReceiveFacts DEF state
  <2> SUFFICES ASSUME start # 0
               PROVE  StartInv'
    BY <2>1 DEF StartInv
  <2>2. /\ first \in DOMAIN rows /\ rows[first] >= start /\ position >= start
        /\ \A i \in Op : handler[i].pc # "idle" => i > start /\ handler[i].pc # "create"
    BY <2>1 DEF StartInv
  <2>3. position' >= start /\ e > start
    BY <1>1, <2>1, <2>2
  <2>4. \A i \in Op : handler'[i].pc # "idle" => i > start /\ handler'[i].pc # "create"
    BY <2>1, <2>2, <2>3
  <2> QED
    BY <2>1, <2>2, <2>3, <2>4 DEF StartInv
<1>8. ASSUME NEW e \in Op, Handle(e) \/ HandlerFails(e)
      PROVE  StartInv'
  <2>1. /\ handler[e].pc # "idle" /\ phase = "up"
        /\ UNCHANGED <<phase, start, position>>
        /\ \A i \in Op \ {e} : handler'[i] = handler[i]
    BY <1>8, HandlerFacts
  <2> SUFFICES ASSUME start # 0
               PROVE  StartInv'
    BY <2>1 DEF StartInv
  <2>2. e > start /\ first \in DOMAIN rows /\ rows[first] >= start
    BY <2>1 DEF StartInv
  <2>3. handler[e].pc # "create" /\ rows # <<>>
    BY <2>1, <2>2 DEF StartInv
  <2>4. handler'[e].pc # "create"
    BY <1>8, <2>3, HandlerFacts DEF Handle
  <2>5. first' = first /\ first \in DOMAIN rows' /\ rows'[first] >= start
    <3>1. CASE SaveCursor(e)
      BY <1>1, <2>2, <3>1 DEF SaveCursor
    <3>2. CASE ~SaveCursor(e)
      <4>1. UNCHANGED <<rows, first>>
        BY <1>8, <2>3, <3>2
           DEF Handle, LoadWallets, Refresh, Add, FindState, CreateState, HandlerFails, state
      <4> QED
        BY <2>2, <4>1
    <3> QED
      BY <3>1, <3>2
  <2> QED
    BY <2>1, <2>2, <2>4, <2>5 DEF StartInv
<1>9. CASE UNCHANGED vars
  BY <1>2, <1>9 DEF vars
<1>10. CASE \/ Tick \/ Close \/ (\E a \in UserWallet : CreateWallet(a))
            \/ Process \/ (\E e \in Op : Complete(e))
  <2>1. UNCHANGED process /\ UNCHANGED state
    BY <1>10 DEF Tick, Close, CreateWallet, Process, Complete
  <2> QED
    BY <1>2, <2>1
<1> QED
  BY <1>3, <1>4, <1>5, <1>6, <1>7, <1>8, <1>9, <1>10 DEF Next

\* However handlers overlap and fail, the saved cursor never falls behind the
\* point its process resumed from.
THEOREM CursorNeverBehindStart == Spec => []NotBehindStart
<1>1. Init => StartInv
  BY DEF Init, StartInv
<1>2. TypeInv /\ StartInv => NotBehindStart
  <2> SUFFICES ASSUME TypeInv, StartInv, start # 0
               PROVE  SavedCursor >= start
    BY DEF NotBehindStart
  <2>1. first \in DOMAIN rows /\ rows[first] >= start
    BY DEF StartInv
  <2>2. rows # <<>>
    BY <2>1
  <2> QED
    BY <2>1, <2>2 DEF SavedCursor
<1> QED
  BY <1>1, <1>2, TypeInit, TypeStep, StartStep, PTL DEF Spec

-----------------------------------------------------------------------------
(* What the saved cursor passes. *)

\* The queue has or had the operation, if it is one that belongs there.
Queued(e) == e \in Payments /\ (OfPlatform(e) \/ e \notin dropped) => adds[e] > 0

\* The listener has done with the operation.
Settled(e) == Queued(e) \/ e \in cut

\* The saved cursor is not ahead of the stream, and the stream resumes from it.
ResumeInv ==
  /\ phase = "up" => SavedCursor <= position
  /\ phase = "opening" /\ start # 0 => SavedCursor = start

\* What a living process has dealt with is settled; a handler that has passed
\* its add has queued its operation; a restart takes up whatever is not settled.
SettledInv ==
  /\ phase = "up" =>
       /\ Platform \subseteq tracked
       /\ \A e \in Op : origin < e /\ e <= position /\ handler[e].pc = "idle" => Settled(e)
  /\ phase # "up" => \A e \in Op : origin < e /\ e <= SavedCursor => Settled(e)
  /\ \A e \in Op : handler[e].pc \in {"find", "create", "save"} => Queued(e)

\* Redis knows no job that was not added.
KnownInv == \A e \in Op : IsKnown(e) => adds[e] > 0

GapInv == TypeInv /\ ResumeInv /\ SettledInv /\ KnownInv

\* What the proof uses of the types.
GapTypes ==
  /\ position \in Nat /\ closed \in Nat /\ origin \in Nat /\ start \in Nat
  /\ start <= closed /\ position <= closed /\ SavedCursor \in Nat /\ SavedCursor <= closed
  /\ rows = <<>> \/ first \in DOMAIN rows
  /\ adds \in [Op -> Nat] /\ Op \subseteq Nat \ {0} /\ handler \in [Op -> Locals]
  /\ waiting \in Seq(Op) /\ completed \in Seq(Op) /\ active \subseteq Op
  /\ \A e \in Op : handler[e].pc # "idle" => phase = "up" /\ e <= position

LEMMA GapTypesHold == TypeInv => GapTypes
<1> SUFFICES ASSUME TypeInv PROVE GapTypes
  OBVIOUS
<1>1. SavedCursor \in Nat /\ SavedCursor <= closed
  BY ListenerAssumption DEF TypeInv, TypeOK, CursorInv, SavedCursor
<1> QED
  BY <1>1, ListenerAssumption DEF TypeInv, TypeOK, HandlerInv, CursorInv, GapTypes, Op

LEMMA GapInit == Init => ResumeInv /\ SettledInv /\ KnownInv
<1> SUFFICES ASSUME Init PROVE ResumeInv /\ SettledInv /\ KnownInv
  OBVIOUS
<1>1. /\ phase = "down" /\ SavedCursor = 0
      /\ \A e \in Op : handler[e].pc = "idle" /\ e > 0
  BY DEF Init, Idle, Op, SavedCursor
<1>2. ResumeInv /\ SettledInv
  BY <1>1 DEF ResumeInv, SettledInv, Op
<1>3. Elements(<<>>) = {}
  BY DEF Elements
<1>4. KnownInv
  BY <1>3 DEF KnownInv, IsKnown, Init
<1> QED
  BY <1>2, <1>4

\* The queue: jobs move on, and what is known was added.
LEMMA GapQueue ==
  ASSUME GapInv, Process \/ (\E e \in Op : Complete(e))
  PROVE  (ResumeInv /\ SettledInv /\ KnownInv)'
<1>1. GapTypes /\ ResumeInv /\ SettledInv /\ KnownInv
  BY GapTypesHold DEF GapInv
<1>2. UNCHANGED <<process, state, history, adds>>
  BY DEF Process, Complete
<1>3. (ResumeInv /\ SettledInv)'
  BY <1>1, <1>2
     DEF ResumeInv, SettledInv, SavedCursor, Settled, Queued, process, state, history
<1>4. \A i \in Op : IsKnown(i)' => IsKnown(i)
  <2>1. CASE Process
    <3>1. Elements(waiting) = Elements(waiting') \cup {Head(waiting)}
      BY <1>1, <2>1, TailElements DEF Process, GapTypes
    <3> QED
      BY <2>1, <3>1 DEF Process, IsKnown, Elements
  <2>2. ASSUME NEW e \in Op, Complete(e)
        PROVE  \A i \in Op : IsKnown(i)' => IsKnown(i)
    <3>1. completed' = Newest(Append(completed, e)) /\ waiting' = waiting
          /\ active' = active \ {e} /\ e \in active
      BY <2>2 DEF Complete
    <3>2. Elements(completed') \subseteq Elements(completed) \cup {e}
      <4> DEFINE s == Append(completed, e)
      <4>1. s \in Seq(Op) /\ Elements(s) = Elements(completed) \cup {e}
        BY <1>1, AppendElements DEF GapTypes
      <4>2. completed' = Newest(s)
        BY <3>1
      <4> HIDE DEF s
      <4>3. Elements(Newest(s)) \subseteq Elements(s)
        BY <4>1, NewestFacts
      <4>4. Elements(completed') = Elements(Newest(s))
        BY <4>2 DEF Elements
      <4> QED
        BY <4>1, <4>3, <4>4
    <3> QED
      BY <3>1, <3>2 DEF IsKnown, Elements
  <2> QED
    BY <2>1, <2>2
<1>5. KnownInv'
  BY <1>1, <1>2, <1>4 DEF KnownInv
<1> QED
  BY <1>3, <1>5

\* Starting and dying: what is behind the cursor is settled, and a handler that
\* dies behind the cursor is cut.
LEMMA GapLife ==
  ASSUME GapInv, ReadCursor \/ ReadCursorFails \/ Open \/ Crash
  PROVE  (ResumeInv /\ SettledInv /\ KnownInv)'
<1>1. GapTypes /\ ResumeInv /\ SettledInv /\ KnownInv
  BY GapTypesHold DEF GapInv
<1>2. CASE ReadCursor \/ ReadCursorFails
  <2>1. /\ phase = "down" /\ phase' = "opening" /\ \A e \in Op : handler[e].pc = "idle"
        /\ UNCHANGED <<handler, adds, dropped, cut, origin, waiting, active, completed>>
    BY <1>1, <1>2 DEF ReadCursor, ReadCursorFails, GapTypes, queue, history
  <2>2. SavedCursor' = SavedCursor /\ (start' # 0 => start' = SavedCursor)
    <3>1. CASE ReadCursorFails
      BY <3>1 DEF ReadCursorFails, SavedCursor, state
    <3>2. CASE ReadCursor /\ rows = <<>>
      <4>1. DOMAIN rows' = {0} /\ rows'[0] = 0 /\ first' = 0 /\ start' = 0
        BY <3>2 DEF ReadCursor, NewRow
      <4>2. rows' # <<>>
        BY <4>1
      <4> QED
        BY <3>2, <4>1, <4>2 DEF SavedCursor
    <3>3. CASE ReadCursor /\ rows # <<>>
      BY <3>3 DEF ReadCursor, SavedCursor, state
    <3> QED
      BY <1>2, <3>1, <3>2, <3>3
  <2>3. ResumeInv'
    BY <2>1, <2>2 DEF ResumeInv
  <2>4. \A e \in Op : Settled(e)' <=> Settled(e)
    BY <2>1 DEF Settled, Queued
  <2>5. SettledInv'
    BY <1>1, <2>1, <2>2, <2>4 DEF SettledInv
  <2>6. KnownInv'
    BY <1>1, <2>1 DEF KnownInv, IsKnown, Elements
  <2> QED
    BY <2>3, <2>5, <2>6
<1>3. CASE Open
  <2>1. /\ phase = "opening" /\ phase' = "up" /\ \A e \in Op : handler[e].pc = "idle"
        /\ tracked' = wallets \cup Platform
        /\ position' = (IF start = 0 THEN closed ELSE start)
        /\ origin' = (IF start = 0 THEN closed ELSE origin)
        /\ UNCHANGED <<handler, adds, dropped, cut, waiting, active, completed>>
        /\ SavedCursor' = SavedCursor
    BY <1>1, <1>3 DEF Open, GapTypes, queue, state, SavedCursor
  <2>2. ResumeInv'
    BY <1>1, <2>1 DEF ResumeInv, GapTypes
  <2>3. ASSUME NEW e \in Op, origin' < e, e <= position'
        PROVE  Settled(e)
    <3>1. start # 0 /\ origin < e /\ e <= start /\ SavedCursor = start
      BY <1>1, <2>1, <2>3 DEF GapTypes, ResumeInv
    <3> QED
      BY <1>1, <2>1, <3>1 DEF SettledInv
  <2>4. \A e \in Op : Settled(e)' <=> Settled(e)
    BY <2>1 DEF Settled, Queued
  <2>5. SettledInv'
    BY <2>1, <2>3, <2>4 DEF SettledInv
  <2>6. KnownInv'
    BY <1>1, <2>1 DEF KnownInv, IsKnown, Elements
  <2> QED
    BY <2>2, <2>5, <2>6
<1>4. CASE Crash
  <2>1. /\ phase = "up" /\ phase' = "down"
        /\ \A e \in Op : handler'[e].pc = "idle"
        /\ UNCHANGED <<adds, dropped, origin, completed>> /\ SavedCursor' = SavedCursor
        /\ active' = {} /\ cut' = cut \cup {e \in InFlight : e <= SavedCursor}
    BY <1>4 DEF Crash, state, Idle, SavedCursor
  <2>2. ASSUME NEW e \in Op, origin < e, e <= SavedCursor
        PROVE  Settled(e)'
    <3>1. CASE handler[e].pc = "idle"
      <4>1. e <= position
        BY <1>1, <2>1, <2>2 DEF ResumeInv, GapTypes
      <4>2. Settled(e)
        BY <1>1, <2>1, <2>2, <3>1, <4>1 DEF SettledInv
      <4> QED
        BY <2>1, <4>2 DEF Settled, Queued
    <3>2. CASE handler[e].pc # "idle"
      BY <2>1, <2>2, <3>2 DEF InFlight, Settled
    <3> QED
      BY <3>1, <3>2
  <2>3. ResumeInv' /\ SettledInv'
    BY <2>1, <2>2 DEF ResumeInv, SettledInv
  <2>4. Elements(waiting') = active \cup Elements(waiting)
    <3>1. PICK s \in [1..Cardinality(active) -> active] :
            Elements(s) = active /\ waiting' = s \o waiting
      BY <1>4 DEF Crash
    <3> QED
      BY <1>1, <3>1, StalledJobs DEF GapTypes
  <2>5. KnownInv'
    BY <1>1, <2>1, <2>4 DEF KnownInv, IsKnown, Elements
  <2> QED
    BY <2>3, <2>5
<1> QED
  BY <1>2, <1>3, <1>4

\* A handler starts: what it drops at once belongs to no platform address.
LEMMA GapReceive ==
  ASSUME GapInv, NEW e \in Op, Receive(e)
  PROVE  (ResumeInv /\ SettledInv /\ KnownInv)'
<1>1. TypeInv /\ GapTypes /\ ResumeInv /\ SettledInv /\ KnownInv
  BY GapTypesHold DEF GapInv
<1>2. /\ phase = "up" /\ e = position + 1 /\ position' = e
      /\ UNCHANGED <<phase, start, tracked, origin, rows, first, waiting, active, completed, adds>>
      /\ \A i \in Op \ {e} : handler'[i] = handler[i]
      /\ \A i \in Op \ {e} : i \in dropped' <=> i \in dropped
      /\ \/ handler'[e].pc = "find" /\ ~Tracks(e, tracked) /\ e \in dropped'
         \/ handler'[e].pc \in {"add", "load"}
  BY <1>1, ReceiveFacts DEF state, queue
<1>3. cut' = cut \ {e} /\ SavedCursor' = SavedCursor
  BY <1>2 DEF Receive, SavedCursor
<1>4. ResumeInv' /\ KnownInv'
  BY <1>1, <1>2, <1>3 DEF ResumeInv, KnownInv, IsKnown, Elements, GapTypes
<1>5. \A i \in Op \ {e} : (Queued(i)' <=> Queued(i)) /\ (Settled(i)' <=> Settled(i))
  BY <1>2, <1>3 DEF Queued, Settled
<1>6. handler'[e].pc = "find" => Queued(e)'
  BY <1>1, <1>2 DEF Queued, OfPlatform, Tracks, SettledInv
<1>7. \A i \in Op : origin < i /\ i <= position' /\ handler'[i].pc = "idle" => Settled(i)'
  <2> SUFFICES ASSUME NEW i \in Op, origin < i, i <= position', handler'[i].pc = "idle"
               PROVE  Settled(i)'
    OBVIOUS
  <2>1. i # e
    BY <1>2
  <2>2. i <= position
    BY <1>1, <1>2, <2>1 DEF GapTypes
  <2> QED
    BY <1>1, <1>2, <1>5, <2>1, <2>2 DEF SettledInv
<1>8. \A i \in Op : handler'[i].pc \in {"find", "create", "save"} => Queued(i)'
  BY <1>1, <1>2, <1>5, <1>6 DEF SettledInv
<1>9. Platform \subseteq tracked'
  BY <1>1, <1>2 DEF SettledInv
<1>10. SettledInv'
  BY <1>2, <1>7, <1>8, <1>9 DEF SettledInv
<1> QED
  BY <1>4, <1>10

\* A handler goes on: it queues its operation before it moves the cursor, and
\* when it fails its operation is cut.
LEMMA GapHandler ==
  ASSUME GapInv, NEW e \in Op, Handle(e) \/ HandlerFails(e)
  PROVE  (ResumeInv /\ SettledInv /\ KnownInv)'
<1>1. TypeInv /\ GapTypes /\ ResumeInv /\ SettledInv /\ KnownInv
  BY GapTypesHold DEF GapInv
<1>2. /\ phase = "up" /\ e <= position /\ handler[e].pc # "idle"
      /\ UNCHANGED <<phase, start, position, origin>>
      /\ \A i \in Op \ {e} : handler'[i] = handler[i]
  BY <1>1, HandlerFacts
<1>3. Platform \subseteq tracked /\ SavedCursor <= position /\ SavedCursor \in Nat /\ e \in Nat
  BY <1>1, <1>2 DEF SettledInv, ResumeInv, GapTypes
\* What is left to show of a step: the cursor, its own operation and the queue.
<1>4. ASSUME SavedCursor' <= position, Platform \subseteq tracked', cut \subseteq cut',
             \A i \in Op \ {e} : i \in dropped' <=> i \in dropped,
             \A i \in Op : adds'[i] > 0 \/ adds'[i] = adds[i],
             handler'[e].pc \in {"find", "create", "save"} => Queued(e)',
             handler'[e].pc = "idle" => Settled(e)',
             \A i \in Op : IsKnown(i)' => adds'[i] > 0
      PROVE  (ResumeInv /\ SettledInv /\ KnownInv)'
  <2>1. ResumeInv' /\ KnownInv'
    BY <1>2, <1>4 DEF ResumeInv, KnownInv
  <2>2. \A i \in Op \ {e} : (Queued(i) => Queued(i)') /\ (Settled(i) => Settled(i)')
    BY <1>4 DEF Queued, Settled
  <2>3. \A i \in Op : origin < i /\ i <= position /\ handler'[i].pc = "idle" => Settled(i)'
    BY <1>1, <1>2, <1>4, <2>2 DEF SettledInv
  <2>4. \A i \in Op : handler'[i].pc \in {"find", "create", "save"} => Queued(i)'
    BY <1>1, <1>2, <1>4, <2>2 DEF SettledInv
  <2>5. SettledInv'
    BY <1>2, <1>4, <2>3, <2>4 DEF SettledInv
  <2> QED
    BY <2>1, <2>5
\* Of a step that leaves the queue and the wallets it compares with alone.
<1>5. ASSUME UNCHANGED <<tracked, dropped, adds, waiting, active, completed>>, cut \subseteq cut',
             SavedCursor' <= position,
             handler'[e].pc \in {"create", "save"} => Queued(e), handler'[e].pc # "find",
             handler'[e].pc = "idle" => Settled(e)'
      PROVE  (ResumeInv /\ SettledInv /\ KnownInv)'
  <2>1. \A i \in Op : IsKnown(i)' => adds'[i] > 0
    BY <1>1, <1>5 DEF KnownInv, IsKnown, Elements
  <2>2. Queued(e)' <=> Queued(e)
    BY <1>5 DEF Queued
  <2> QED
    BY <1>3, <1>4, <1>5, <2>1, <2>2
<1>6. CASE LoadWallets(e)
  <2>1. /\ UNCHANGED <<tracked, dropped, adds, waiting, active, completed, cut>>
        /\ SavedCursor' = SavedCursor
    BY <1>6 DEF LoadWallets, state, queue, history, SavedCursor
  <2>2. handler'[e].pc = "loaded"
    BY <1>1, <1>6, HandlerFacts
  <2> QED
    BY <1>3, <1>5, <2>1, <2>2
<1>7. CASE Refresh(e)
  <2>1. /\ UNCHANGED <<adds, waiting, active, completed, cut>> /\ SavedCursor' = SavedCursor
        /\ Platform \subseteq tracked'
    BY <1>7 DEF Refresh, state, queue, SavedCursor
  <2>2. /\ \/ handler'[e].pc = "find" /\ ~Tracks(e, tracked') /\ e \in dropped'
           \/ handler'[e].pc = "add"
        /\ \A i \in Op \ {e} : i \in dropped' <=> i \in dropped
    BY <1>1, <1>7, HandlerFacts
  <2>3. \A i \in Op : IsKnown(i)' => adds'[i] > 0
    BY <1>1, <2>1 DEF KnownInv, IsKnown, Elements
  <2>4. handler'[e].pc = "find" => Queued(e)'
    BY <2>1, <2>2 DEF Queued, OfPlatform, Tracks
  <2> QED
    BY <1>3, <1>4, <2>1, <2>2, <2>3, <2>4
<1>8. CASE Add(e)
  <2>1. UNCHANGED <<tracked, dropped, active, completed, cut>> /\ SavedCursor' = SavedCursor
    BY <1>8 DEF Add, state, history, SavedCursor
  <2>2. handler'[e].pc = "find"
    BY <1>1, <1>8, HandlerFacts
  <2>3. /\ adds' \in [Op -> Nat] /\ adds'[e] > 0
        /\ \A i \in Op \ {e} : adds'[i] = adds[i] /\ (IsKnown(i)' => IsKnown(i))
    <3>1. CASE IsKnown(e)
      BY <1>1, <1>8, <2>1, <3>1 DEF Add, KnownInv, GapTypes, IsKnown, Elements
    <3>2. CASE ~IsKnown(e)
      <4>1. waiting' = Append(waiting, e) /\ adds' = [adds EXCEPT ![e] = adds[e] + 1]
        BY <1>8, <3>2 DEF Add
      <4>2. Elements(waiting') = Elements(waiting) \cup {e}
        BY <1>1, <4>1, AppendElements DEF GapTypes
      <4>3. \A i \in Op \ {e} : IsKnown(i)' => IsKnown(i)
        BY <2>1, <4>2 DEF IsKnown, Elements
      <4> QED
        BY <1>1, <4>1, <4>3 DEF GapTypes
    <3> QED
      BY <3>1, <3>2
  <2>4. \A i \in Op : IsKnown(i)' => adds'[i] > 0
    BY <1>1, <2>3 DEF KnownInv
  <2>5. Queued(e)'
    BY <2>3 DEF Queued
  <2> QED
    BY <1>3, <1>4, <2>1, <2>2, <2>3, <2>4, <2>5
<1>9. CASE FindState(e)
  <2>1. /\ UNCHANGED <<tracked, dropped, adds, waiting, active, completed, cut>>
        /\ SavedCursor' = SavedCursor
    BY <1>9 DEF FindState, state, queue, history, SavedCursor
  <2>2. handler'[e].pc \in {"create", "save"} /\ handler[e].pc = "find"
    BY <1>1, <1>9, HandlerFacts DEF FindState
  <2>3. Queued(e)
    BY <1>1, <2>2 DEF SettledInv
  <2> QED
    BY <1>3, <1>5, <2>1, <2>2, <2>3
<1>10. CASE CreateState(e)
  <2>1. UNCHANGED <<tracked, dropped, adds, waiting, active, completed, cut>>
    BY <1>10 DEF CreateState, queue, history, process
  <2>2. handler'[e].pc = "save" /\ handler[e].pc = "create"
    BY <1>1, <1>10, HandlerFacts DEF CreateState
  <2>3. Queued(e)
    BY <1>1, <2>2 DEF SettledInv
  <2>4. SavedCursor' <= position
    <3>1. /\ DOMAIN rows' = DOMAIN rows \cup {e} /\ rows'[e] = 0
          /\ \A r \in DOMAIN rows : r # e => rows'[r] = rows[r]
      BY <1>10 DEF CreateState, NewRow
    <3>2. rows' # <<>>
      BY <3>1
    <3>3. SavedCursor' = 0 \/ (rows # <<>> /\ first' = first /\ first # e /\ SavedCursor' = rows[first])
      BY <1>1, <1>10, <3>1, <3>2 DEF CreateState, SavedCursor, GapTypes
    <3>4. SavedCursor' = 0 \/ SavedCursor' = SavedCursor
      BY <3>3 DEF SavedCursor
    <3> QED
      BY <1>1, <1>3, <3>4 DEF GapTypes
  <2> QED
    BY <1>5, <2>1, <2>2, <2>3, <2>4
<1>11. CASE SaveCursor(e)
  <2>1. UNCHANGED <<tracked, dropped, adds, waiting, active, completed, cut>>
    BY <1>11 DEF SaveCursor, queue, history
  <2>2. handler[e].pc = "save" /\ handler'[e].pc = "idle"
    BY <1>1, <1>11, HandlerFacts DEF SaveCursor
  <2>3. Queued(e) /\ Settled(e)'
    BY <1>1, <2>1, <2>2 DEF SettledInv, Settled, Queued
  <2>4. SavedCursor' <= position
    <3>1. rows' = [rows EXCEPT ![handler[e].row] = e] /\ first' = first
      BY <1>11 DEF SaveCursor
    <3>2. CASE rows = <<>>
      <4>1. DOMAIN rows' = {}
        BY <3>1, <3>2
      <4>2. rows' = <<>>
        BY <3>1, <4>1
      <4> QED
        BY <1>1, <4>2 DEF SavedCursor, GapTypes
    <3>3. CASE rows # <<>>
      <4>1. first \in DOMAIN rows /\ DOMAIN rows' = DOMAIN rows
        BY <1>1, <3>1, <3>3 DEF GapTypes
      <4>2. rows' # <<>>
        BY <4>1
      <4>3. SavedCursor' = e \/ SavedCursor' = SavedCursor
        BY <3>1, <3>3, <4>1, <4>2 DEF SavedCursor
      <4> QED
        BY <1>2, <1>3, <4>3
    <3> QED
      BY <3>2, <3>3
  <2> QED
    BY <1>5, <2>1, <2>2, <2>3, <2>4
<1>12. CASE HandlerFails(e)
  <2>1. /\ UNCHANGED <<tracked, dropped, adds, waiting, active, completed>>
        /\ SavedCursor' = SavedCursor /\ cut' = cut \cup {e}
    BY <1>12 DEF HandlerFails, state, queue, SavedCursor
  <2>2. handler'[e].pc = "idle" /\ Settled(e)'
    BY <1>1, <1>12, <2>1, HandlerFacts DEF Settled
  <2> QED
    BY <1>3, <1>5, <2>1, <2>2
<1> QED
  BY <1>6, <1>7, <1>8, <1>9, <1>10, <1>11, <1>12 DEF Handle

LEMMA GapStep == GapInv /\ [Next]_vars => GapInv'
<1> SUFFICES ASSUME GapInv, [Next]_vars PROVE GapInv'
  OBVIOUS
<1>1. TypeInv /\ ResumeInv /\ SettledInv /\ KnownInv /\ TypeInv'
  BY TypeStep DEF GapInv
<1>2. CASE UNCHANGED vars \/ Tick \/ Close \/ (\E a \in UserWallet : CreateWallet(a))
  <2>1. UNCHANGED <<process, state, queue, history>>
    BY <1>2 DEF vars, Tick, Close, CreateWallet
  <2>2. (ResumeInv /\ SettledInv /\ KnownInv)'
    BY <1>1, <2>1 DEF ResumeInv, SettledInv, KnownInv, Settled, Queued, SavedCursor, IsKnown,
                      Elements, process, state, queue, history
  <2> QED
    BY <1>1, <2>2 DEF GapInv
<1> QED
  BY <1>1, <1>2, GapLife, GapReceive, GapHandler, GapQueue DEF Next, GapInv

\* However the handlers of startListener overlap, fail and die, the saved cursor
\* passes no payment that is not queued but those whose own handler was cut
\* short; the rest is taken up by the next start.
THEOREM OnlyFaultsSkip == Spec => []SkippedOnlyByFault
<1>1. Init => GapInv
  BY TypeInit, GapInit DEF GapInv
<1>2. GapInv => SkippedOnlyByFault
  <2> SUFFICES ASSUME GapInv, NEW e \in Passed
               PROVE  adds[e] > 0 \/ e \in cut
    BY DEF SkippedOnlyByFault
  <2>1. GapTypes /\ ResumeInv /\ SettledInv /\ e \in Op /\ e \in Payments
    BY GapTypesHold, ListenerAssumption DEF GapInv, Passed
  <2>2. /\ origin < e /\ e <= SavedCursor /\ handler[e].pc = "idle"
        /\ OfPlatform(e) \/ e \notin dropped
    BY DEF Passed
  <2>3. Settled(e)
    <3>1. phase = "up" => e <= position
      BY <2>1, <2>2 DEF ResumeInv, GapTypes
    <3> QED
      BY <2>1, <2>2, <3>1 DEF SettledInv
  <2> QED
    BY <2>1, <2>2, <2>3 DEF Settled, Queued
<1> QED
  BY <1>1, <1>2, GapStep, PTL DEF Spec
-----------------------------------------------------------------------------
(* When a payment is queued twice. *)

\* One operation is delivered once in the life of a process.
DeliveryInv ==
  /\ \A e \in Op : adds[e] <= crashes + 1
  /\ phase # "up" => \A e \in Op : adds[e] <= crashes
  /\ phase = "up" => \A e \in Op : e > position => adds[e] <= crashes
  /\ \A e \in Op : handler[e].pc \in {"load", "loaded", "add"} => adds[e] <= crashes

\* Redis has one job for an operation at most.
JobsInv ==
  /\ IsInjective(waiting) /\ IsInjective(completed)
  /\ Elements(waiting) \cap active = {}
  /\ (Elements(waiting) \cup active) \cap Elements(completed) = {}

\* The other operations that have been queued.
Others(e) == {f \in Op \ {e} : adds[f] > 0}

\* An operation is forgotten, or was once, only when enough others were queued.
ForgottenInv ==
  \A e \in Op :
    adds[e] > 1 \/ (adds[e] > 0 /\ ~IsKnown(e)) => Cardinality(Others(e)) >= Retained

RequeueInv == GapInv /\ DeliveryInv /\ JobsInv /\ ForgottenInv

\* A job that is not in the queue joins it at its end.
LEMMA AppendInjective ==
  ASSUME NEW s \in Seq(Op), NEW e \in Op, IsInjective(s), e \notin Elements(s)
  PROVE  IsInjective(Append(s, e))
<1>1. /\ DOMAIN Append(s, e) = DOMAIN s \cup {Len(s) + 1}
      /\ \A i \in DOMAIN s : Append(s, e)[i] = s[i]
      /\ Append(s, e)[Len(s) + 1] = e
  OBVIOUS
<1>2. \A i \in DOMAIN s : s[i] # e
  BY DEF Elements
<1> QED
  BY <1>1, <1>2 DEF IsInjective

\* The oldest job leaves the queue for good.
LEMMA TailInjective ==
  ASSUME NEW s \in Seq(Op), s # <<>>, IsInjective(s)
  PROVE  IsInjective(Tail(s)) /\ Head(s) \notin Elements(Tail(s))
<1>1. /\ Head(s) = s[1] /\ 1 \in DOMAIN s /\ DOMAIN Tail(s) \subseteq Nat \ {0}
      /\ \A i \in DOMAIN Tail(s) : i + 1 \in DOMAIN s /\ Tail(s)[i] = s[i + 1]
  OBVIOUS
<1>2. \A i \in DOMAIN Tail(s) : i + 1 # 1
  BY <1>1
<1>3. \A i \in DOMAIN Tail(s) : Tail(s)[i] # s[1]
  BY <1>1, <1>2 DEF IsInjective
<1>4. ASSUME NEW i \in DOMAIN Tail(s), NEW j \in DOMAIN Tail(s), Tail(s)[i] = Tail(s)[j]
      PROVE  i = j
  <2>1. i + 1 = j + 1
    BY <1>1, <1>4 DEF IsInjective
  <2> QED
    BY <1>1, <2>1
<1> QED
  BY <1>1, <1>3, <1>4 DEF IsInjective, Elements

\* The completed jobs that are kept are as many as are kept at most, once one
\* is forgotten.
LEMMA NewestInjective ==
  ASSUME NEW s \in Seq(Op), IsInjective(s)
  PROVE  /\ IsInjective(Newest(s))
         /\ \A x \in Elements(s) \ Elements(Newest(s)) : Len(Newest(s)) = Retained
<1>1. Retained \in Nat /\ Len(s) \in Nat
  BY ListenerAssumption
<1>2. CASE Len(s) <= Retained
  BY <1>2 DEF Newest
<1>3. CASE Len(s) > Retained
  <2> DEFINE m == Len(s) - Retained + 1
             t == SubSeq(s, m, Len(s))
  <2>1. m \in 1..Len(s) + 1 /\ Newest(s) = t
    BY <1>1, <1>3 DEF Newest
  <2>2. Len(t) = Retained /\ DOMAIN t = 1..Retained
    BY <1>1, <2>1
  <2>3. ASSUME NEW i \in 1..Retained
        PROVE  t[i] = s[m + i - 1] /\ m + i - 1 \in DOMAIN s
    BY <1>1, <1>3, <2>1, <2>2, <2>3
  <2>4. ASSUME NEW i \in 1..Retained, NEW j \in 1..Retained, t[i] = t[j]
        PROVE  i = j
    <3>1. m + i - 1 = m + j - 1
      BY <2>3, <2>4 DEF IsInjective
    <3> QED
      BY <1>1, <3>1
  <2> QED
    BY <2>1, <2>2, <2>4 DEF IsInjective
<1> QED
  BY <1>1, <1>2, <1>3

\* The jobs of a dead process, each once, go before those that wait.
LEMMA StalledInjective ==
  ASSUME NEW q \in Seq(Op), NEW a \in SUBSET Op, IsInjective(q), Elements(q) \cap a = {},
         NEW s \in [1..Cardinality(a) -> a], Elements(s) = a
  PROVE  IsInjective(s \o q)
<1>1. s \in Seq(Op) /\ DOMAIN s = 1..Cardinality(a) /\ Cardinality(a) \in Nat
  BY OpsAreFinite
<1>2. s \in Surjection(1..Cardinality(a), a)
  BY DEF Surjection, Elements
<1>3. IsFiniteSet(1..Cardinality(a)) /\ Cardinality(1..Cardinality(a)) = Cardinality(a)
  BY <1>1, FS_Interval
<1>4. IsInjective(s)
  BY <1>2, <1>3, FS_Surjection DEF Injection
<1>5. ASSUME NEW i \in DOMAIN (s \o q), NEW j \in DOMAIN (s \o q), (s \o q)[i] = (s \o q)[j]
      PROVE  i = j
  <2> DEFINE k == i - Len(s)
             l == j - Len(s)
  <2>1. \/ i \in DOMAIN s /\ (s \o q)[i] = s[i]
        \/ i \notin DOMAIN s /\ k \in DOMAIN q /\ (s \o q)[i] = q[k]
    BY <1>1
  <2>2. \/ j \in DOMAIN s /\ (s \o q)[j] = s[j]
        \/ j \notin DOMAIN s /\ l \in DOMAIN q /\ (s \o q)[j] = q[l]
    BY <1>1
  <2>3. k = l => i = j
    BY <1>1
  <2> HIDE DEF k, l
  <2>4. ASSUME NEW x \in DOMAIN s, NEW y \in DOMAIN q PROVE s[x] # q[y]
    BY <1>1 DEF Elements
  <2> QED
    BY <1>4, <1>5, <2>1, <2>2, <2>3, <2>4 DEF IsInjective
<1> QED
  BY <1>5 DEF IsInjective

\* As many operations as an injective sequence is long have been queued.
LEMMA EnoughOthers ==
  ASSUME NEW e \in Op, NEW s \in Seq(Op), IsInjective(s), Elements(s) \subseteq Others(e)
  PROVE  Cardinality(Others(e)) >= Len(s)
<1>1. Others(e) \in SUBSET Op /\ Len(s) \in Nat /\ DOMAIN s = 1..Len(s)
  BY DEF Others
<1>2. s \in [1..Len(s) -> Others(e)]
  BY <1>1 DEF Elements
<1>3. s \in Injection(1..Len(s), Others(e))
  BY <1>2 DEF Injection
<1>4. IsFiniteSet(Others(e)) /\ IsFiniteSet(1..Len(s)) /\ Cardinality(1..Len(s)) = Len(s)
  <2>1. IsFiniteSet(Others(e))
    BY <1>1, OpsAreFinite
  <2>2. IsFiniteSet(1..Len(s)) /\ Cardinality(1..Len(s)) = Len(s)
    BY <1>1, FS_Interval
  <2> QED
    BY <2>1, <2>2
<1>5. Cardinality(1..Len(s)) <= Cardinality(Others(e))
  BY <1>3, <1>4, FS_Injection
<1>6. Cardinality(Others(e)) \in Nat
  BY <1>1, OpsAreFinite
<1> QED
  BY <1>1, <1>4, <1>5, <1>6

\* What has been queued stays so.
LEMMA OthersStay ==
  ASSUME NEW e \in Op, Cardinality(Others(e)) >= Retained,
         \A f \in Op : adds[f] > 0 => adds'[f] > 0
  PROVE  Cardinality(Others(e))' >= Retained
<1>1. Others(e) \in SUBSET Op /\ Others(e)' \in SUBSET Op /\ Others(e) \subseteq Others(e)'
  BY DEF Others
<1>2. IsFiniteSet(Others(e)') /\ Cardinality(Others(e)') \in Nat /\ Cardinality(Others(e)) \in Nat
  BY <1>1, OpsAreFinite
<1>3. Cardinality(Others(e)) <= Cardinality(Others(e)')
  BY <1>1, <1>2, FS_Subset
<1> QED
  BY <1>2, <1>3, ListenerAssumption

\* One disjunct of a step at a time: what the stream and its handlers add.
LEMMA DeliveryStep ==
  ASSUME GapInv, DeliveryInv, [Next]_vars
  PROVE  DeliveryInv'
<1>1. TypeInv /\ GapTypes /\ handler \in [Op -> Locals] /\ crashes \in Nat
  BY GapTypesHold, ListenerAssumption DEF GapInv, TypeInv, TypeOK
<1>2. CASE \/ UNCHANGED vars \/ Tick \/ Close \/ (\E a \in UserWallet : CreateWallet(a))
           \/ Process \/ \E e \in Op : Complete(e)
  <2>1. UNCHANGED <<phase, position, handler, adds, crashes>>
    BY <1>2 DEF vars, process, queue, bounds, Tick, Close, CreateWallet, Process, Complete
  <2> QED
    BY <2>1 DEF DeliveryInv
<1>3. CASE ReadCursor \/ ReadCursorFails \/ Open
  <2>1. phase # "up" /\ UNCHANGED <<handler, adds, crashes>>
    BY <1>3 DEF ReadCursor, ReadCursorFails, Open, queue, bounds
  <2> QED
    BY <1>1, <2>1 DEF DeliveryInv, GapTypes
<1>4. CASE Crash
  <2>1. /\ phase' = "down" /\ crashes' = crashes + 1 /\ adds' = adds
        /\ \A e \in Op : handler'[e].pc = "idle"
    BY <1>4 DEF Crash, Idle
  <2>2. \A e \in Op : adds[e] \in Nat
    BY <1>1 DEF GapTypes
  <2> QED
    BY <1>1, <2>1, <2>2 DEF DeliveryInv
<1>5. ASSUME NEW e \in Op, Receive(e)
      PROVE  DeliveryInv'
  <2>1. /\ phase = "up" /\ e = position + 1 /\ position' = e
        /\ UNCHANGED <<phase, adds, crashes>>
        /\ \A i \in Op \ {e} : handler'[i] = handler[i]
    BY <1>1, <1>5, ReceiveFacts DEF queue, bounds
  <2>2. adds[e] <= crashes
    BY <1>1, <2>1 DEF DeliveryInv, GapTypes
  <2>3. \A i \in Op : i > position' => adds'[i] <= crashes
    BY <1>1, <2>1 DEF DeliveryInv, GapTypes
  <2> QED
    BY <2>1, <2>2, <2>3 DEF DeliveryInv
<1>6. ASSUME NEW e \in Op, Handle(e) \/ HandlerFails(e)
      PROVE  DeliveryInv'
  <2>1. /\ phase = "up" /\ e <= position /\ UNCHANGED <<phase, position>>
        /\ \A i \in Op \ {e} : handler'[i] = handler[i]
    BY <1>1, <1>6, HandlerFacts
  <2>2. crashes' = crashes
    BY <1>6 DEF Handle, LoadWallets, Refresh, Add, FindState, CreateState, SaveCursor,
                HandlerFails, bounds
  <2>3. CASE Add(e)
    <3>1. handler'[e].pc = "find" /\ adds[e] <= crashes
      BY <1>1, <1>6, <2>3, HandlerFacts DEF DeliveryInv, Add
    <3>2. adds'[e] <= crashes + 1 /\ \A i \in Op \ {e} : adds'[i] = adds[i]
      BY <1>1, <2>3, <3>1 DEF Add, GapTypes
    <3>3. \A i \in Op : i > position => i # e
      BY <1>1, <2>1 DEF GapTypes
    <3> QED
      BY <2>1, <2>2, <3>1, <3>2, <3>3 DEF DeliveryInv
  <2>4. CASE ~Add(e)
    <3>1. adds' = adds
      BY <1>6, <2>4
         DEF Handle, LoadWallets, Refresh, FindState, CreateState, SaveCursor, HandlerFails, queue
    <3>2. handler'[e].pc \in {"loaded", "add"} => adds[e] <= crashes
      <4>1. CASE LoadWallets(e) \/ Refresh(e)
        BY <4>1 DEF DeliveryInv, LoadWallets, Refresh
      <4>2. CASE ~LoadWallets(e) /\ ~Refresh(e)
        <5>1. handler'[e].pc \in {"create", "save", "idle"}
          BY <1>1, <1>6, <2>4, <4>2, HandlerFacts DEF Handle
        <5> QED
          BY <5>1
      <4> QED
        BY <4>1, <4>2
    <3>3. handler'[e].pc # "load"
      <4>1. handler'[e].pc \in {"loaded", "add", "find", "create", "save", "idle"}
        BY <1>1, <1>6, HandlerFacts DEF Handle
      <4> QED
        BY <4>1
    <3> QED
      BY <2>1, <2>2, <3>1, <3>2, <3>3 DEF DeliveryInv
  <2> QED
    BY <2>3, <2>4
<1> QED
  BY <1>2, <1>3, <1>4, <1>5, <1>6 DEF Next

\* The steps of the queue and of its workers: a job is forgotten when it is
\* pushed out of the completed ones.
LEMMA ForgottenStep ==
  ASSUME GapInv, JobsInv, ForgottenInv, [Next]_vars
  PROVE  JobsInv' /\ ForgottenInv'
<1>1. TypeInv /\ GapTypes /\ KnownInv /\ Retained \in Nat
  BY GapTypesHold, ListenerAssumption DEF GapInv
<1>2. ASSUME UNCHANGED <<waiting, active, completed, adds>>
      PROVE  JobsInv' /\ ForgottenInv'
  BY <1>2 DEF JobsInv, ForgottenInv, IsKnown, Others, Elements, IsInjective
<1>3. CASE Process
  <2>1. /\ active' = active \cup {Head(waiting)} /\ waiting' = Tail(waiting)
        /\ waiting # <<>> /\ UNCHANGED <<completed, adds>>
    BY <1>3 DEF Process
  <2>2. /\ Elements(waiting) = Elements(waiting') \cup {Head(waiting)}
        /\ IsInjective(waiting') /\ Head(waiting) \notin Elements(waiting')
    <3>1. /\ Elements(waiting) = Elements(Tail(waiting)) \cup {Head(waiting)}
          /\ IsInjective(Tail(waiting)) /\ Head(waiting) \notin Elements(Tail(waiting))
      BY <1>1, <2>1, TailElements, TailInjective DEF GapTypes, JobsInv
    <3>2. Elements(waiting') = Elements(Tail(waiting))
      BY <2>1 DEF Elements
    <3>3. IsInjective(waiting') <=> IsInjective(Tail(waiting))
      BY <2>1 DEF IsInjective
    <3> QED
      BY <3>1, <3>2, <3>3
  <2>3. JobsInv'
    BY <2>1, <2>2 DEF JobsInv, Elements, IsInjective
  <2>4. \A e \in Op : IsKnown(e)' <=> IsKnown(e)
    BY <2>1, <2>2 DEF IsKnown, Elements
  <2> QED
    BY <2>1, <2>3, <2>4 DEF ForgottenInv, Others
<1>4. ASSUME NEW e \in Op, Complete(e)
      PROVE  JobsInv' /\ ForgottenInv'
  <2> DEFINE s == Append(completed, e)
  <2>1. /\ e \in active /\ active' = active \ {e} /\ completed' = Newest(s)
        /\ UNCHANGED <<waiting, adds>>
    BY <1>4 DEF Complete
  <2>2. s \in Seq(Op) /\ Elements(s) = Elements(completed) \cup {e} /\ IsInjective(s)
    BY <1>1, <2>1, AppendElements, AppendInjective DEF GapTypes, JobsInv
  <2> HIDE DEF s
  <2>3. /\ Newest(s) \in Seq(Op) /\ Elements(Newest(s)) \subseteq Elements(s)
        /\ IsInjective(Newest(s))
        /\ \A x \in Elements(s) \ Elements(Newest(s)) : Len(Newest(s)) = Retained
    BY <2>2, NewestFacts, NewestInjective
  <2>4. /\ completed' \in Seq(Op) /\ IsInjective(completed')
        /\ Elements(completed') \subseteq Elements(completed) \cup {e}
        /\ \A x \in (Elements(completed) \cup {e}) \ Elements(completed') : Len(completed') = Retained
    <3>1. Elements(completed') = Elements(Newest(s))
      BY <2>1 DEF Elements
    <3>2. IsInjective(completed') <=> IsInjective(Newest(s))
      BY <2>1 DEF IsInjective
    <3>3. completed' \in Seq(Op) /\ Len(completed') = Len(Newest(s))
      BY <2>1, <2>3
    <3> QED
      BY <2>2, <2>3, <3>1, <3>2, <3>3
  <2>5. JobsInv'
    BY <2>1, <2>4 DEF JobsInv, Elements, IsInjective
  <2>6. ASSUME NEW x \in Op, adds'[x] > 1 \/ (adds'[x] > 0 /\ ~IsKnown(x)')
        PROVE  Cardinality(Others(x))' >= Retained
    <3>1. CASE adds[x] > 1 \/ ~IsKnown(x)
      BY <2>1, <2>6, <3>1 DEF ForgottenInv, Others
    <3>2. CASE IsKnown(x) /\ ~IsKnown(x)'
      <4>1. x \in (Elements(completed) \cup {e}) \ Elements(completed')
        BY <2>1, <2>4, <3>2 DEF IsKnown, Elements
      <4>2. Elements(completed') \subseteq Others(x)
        <5>1. ASSUME NEW y \in Elements(completed')
              PROVE  y \in Op /\ y # x /\ adds[y] > 0
          <6>1. y \in Op
            BY <2>4, <5>1 DEF Elements
          <6>2. IsKnown(y) /\ y # x
            BY <2>1, <2>4, <4>1, <5>1 DEF IsKnown
          <6> QED
            BY <1>1, <6>1, <6>2 DEF KnownInv
        <5> QED
          BY <5>1 DEF Others
      <4>3. PICK t : t = completed'
        OBVIOUS
      <4>4. /\ t \in Seq(Op) /\ IsInjective(t) /\ Elements(t) \subseteq Others(x)
            /\ Len(t) = Retained
        BY <2>4, <4>1, <4>2, <4>3 DEF Elements, IsInjective
      <4>5. Cardinality(Others(x)) >= Retained
        BY <4>4, EnoughOthers
      <4> QED
        BY <2>1, <4>5 DEF Others
    <3> QED
      BY <2>1, <2>6, <3>1, <3>2
  <2> QED
    BY <2>5, <2>6 DEF ForgottenInv
<1>5. CASE Crash
  <2>1. PICK s \in [1..Cardinality(active) -> active] :
          Elements(s) = active /\ waiting' = s \o waiting
    BY <1>5 DEF Crash
  <2>2. active' = {} /\ UNCHANGED <<completed, adds>>
    BY <1>5 DEF Crash
  <2>3. Elements(s \o waiting) = active \cup Elements(waiting)
    BY <1>1, <2>1, StalledJobs DEF GapTypes
  <2>4. IsInjective(s \o waiting)
    BY <1>1, <2>1, StalledInjective DEF GapTypes, JobsInv
  <2>5. Elements(waiting') = active \cup Elements(waiting) /\ IsInjective(waiting')
    BY <2>1, <2>3, <2>4 DEF Elements, IsInjective
  <2>6. JobsInv'
    BY <2>2, <2>5 DEF JobsInv, Elements, IsInjective
  <2>7. \A e \in Op : IsKnown(e)' <=> IsKnown(e)
    BY <2>2, <2>5 DEF IsKnown, Elements
  <2> QED
    BY <2>2, <2>6, <2>7 DEF ForgottenInv, Others
<1>6. ASSUME NEW e \in Op, Add(e)
      PROVE  JobsInv' /\ ForgottenInv'
  <2>1. CASE IsKnown(e)
    BY <1>2, <1>6, <2>1 DEF Add
  <2>2. CASE ~IsKnown(e)
    <3>1. /\ waiting' = Append(waiting, e) /\ adds' = [adds EXCEPT ![e] = adds[e] + 1]
          /\ UNCHANGED <<active, completed>>
      BY <1>6, <2>2 DEF Add
    <3>2. Elements(Append(waiting, e)) = Elements(waiting) \cup {e}
      BY <1>1, AppendElements DEF GapTypes
    <3>3. IsInjective(Append(waiting, e))
      BY <1>1, <2>2, AppendInjective DEF GapTypes, JobsInv, IsKnown
    <3>4. Elements(waiting') = Elements(waiting) \cup {e} /\ IsInjective(waiting')
      BY <3>1, <3>2, <3>3 DEF Elements, IsInjective
    <3>5. JobsInv'
      BY <2>2, <3>1, <3>4 DEF JobsInv, IsKnown, Elements, IsInjective
    <3>6. adds'[e] = adds[e] + 1 /\ \A f \in Op \ {e} : adds'[f] = adds[f]
      BY <1>1, <3>1 DEF GapTypes
    <3>7. \A f \in Op : adds[f] \in Nat
      BY <1>1 DEF GapTypes
    <3>8. \A f \in Op : adds[f] > 0 => adds'[f] > 0
      BY <3>6, <3>7
    <3>9. ASSUME NEW x \in Op, adds'[x] > 1 \/ (adds'[x] > 0 /\ ~IsKnown(x)')
          PROVE  Cardinality(Others(x))' >= Retained
      <4>1. CASE x = e
        <5>1. IsKnown(e)'
          BY <3>4 DEF IsKnown, Elements
        <5>2. adds[e] > 0
          BY <3>6, <3>7, <3>9, <4>1, <5>1
        <5> QED
          BY <2>2, <3>8, <4>1, <5>2, OthersStay DEF ForgottenInv
      <4>2. CASE x # e
        <5>1. adds[x] > 1 \/ (adds[x] > 0 /\ ~IsKnown(x))
          BY <3>1, <3>4, <3>6, <3>9, <4>2 DEF IsKnown, Elements
        <5> QED
          BY <3>8, <5>1, OthersStay DEF ForgottenInv
      <4> QED
        BY <4>1, <4>2
    <3> QED
      BY <3>5, <3>9 DEF ForgottenInv
  <2> QED
    BY <2>1, <2>2
<1>7. CASE \/ UNCHANGED vars \/ Tick \/ Close \/ (\E a \in UserWallet : CreateWallet(a))
           \/ ReadCursor \/ ReadCursorFails \/ Open
  <2>1. UNCHANGED queue
    BY <1>7 DEF vars, Tick, Close, CreateWallet, ReadCursor, ReadCursorFails, Open
  <2> QED
    BY <1>2, <2>1 DEF queue
<1>8. ASSUME NEW e \in Op, Receive(e) \/ (Handle(e) /\ ~Add(e)) \/ HandlerFails(e)
      PROVE  JobsInv' /\ ForgottenInv'
  <2>1. UNCHANGED queue
    BY <1>8 DEF Receive, Handle, LoadWallets, Refresh, FindState, CreateState, SaveCursor,
                HandlerFails
  <2> QED
    BY <1>2, <2>1 DEF queue
<1> QED
  BY <1>3, <1>4, <1>5, <1>6, <1>7, <1>8 DEF Next, Handle

\* incomingTransactionQueue.add with the paging token as its id: whatever
\* overlaps, fails and dies, an operation leads to one job a life of the process
\* at most, and to a second one only when Redis has forgotten the first, which
\* takes as many other jobs as BULL_INCOMING_REMOVE_ON_COMPLETE_COUNT keeps.
THEOREM RequeuesAreRare == Spec => []RequeuedOnlyIfForgotten
<1>1. Init => RequeueInv
  <2> SUFFICES ASSUME Init PROVE RequeueInv
    OBVIOUS
  <2>1. GapInv
    BY TypeInit, GapInit DEF GapInv
  <2>2. DeliveryInv /\ ForgottenInv
    BY DEF Init, DeliveryInv, ForgottenInv, Idle
  <2>3. waiting = <<>> /\ completed = <<>> /\ DOMAIN <<>> = {} /\ active = {}
    BY DEF Init
  <2>4. JobsInv
    BY <2>3 DEF JobsInv, IsInjective, Elements
  <2> QED
    BY <2>1, <2>2, <2>4 DEF RequeueInv
<1>2. RequeueInv /\ [Next]_vars => RequeueInv'
  BY GapStep, DeliveryStep, ForgottenStep DEF RequeueInv
<1>3. RequeueInv => RequeuedOnlyIfForgotten
  <2> SUFFICES ASSUME RequeueInv, NEW e \in Op, adds[e] > 1
               PROVE  /\ adds[e] - 1 <= crashes
                      /\ Cardinality({f \in Op \ {e} : adds[f] > 0}) >= Retained
    BY DEF RequeuedOnlyIfForgotten
  <2>1. adds[e] \in Nat /\ crashes \in Nat /\ adds[e] <= crashes + 1
    BY ListenerAssumption DEF RequeueInv, GapInv, DeliveryInv, TypeInv, TypeOK
  <2>2. Cardinality(Others(e)) >= Retained
    BY DEF RequeueInv, ForgottenInv
  <2> QED
    BY <2>1, <2>2 DEF Others
<1> QED
  BY <1>1, <1>2, <1>3, PTL DEF Spec

=============================================================================
