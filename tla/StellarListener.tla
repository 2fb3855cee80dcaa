-------------------------- MODULE StellarListener --------------------------
(***************************************************************************)
(* The producer side of the bridge: the Horizon payment stream, one        *)
(* asynchronous onmessage handler per operation, the cache of tracked      *)
(* addresses, the saved cursor and the queue of incoming transactions      *)
(* (src/stellar/stellar.service.ts, src/stellar-listener-state).           *)
(*                                                                         *)
(* The stream calls onmessage in ledger order and does not wait for it, so *)
(* the handlers of successive operations interleave at their awaits.       *)
(* Operations are numbered by paging token; cursor 0 is a null cursor.     *)
(***************************************************************************)
EXTENDS Integers, Sequences, FiniteSets

CONSTANTS
  Last,          \* number of operations that ever reach the ledger
  Payments,      \* those of type 'payment' with a sender and a receiver
  Address,       \* Stellar public keys
  Sender, Receiver,  \* of each operation
  Platform,      \* STELLAR_PUBLIC_KEY and STELLAR_BRIDGE_PUBLIC_KEY
  UserWallet,    \* keys generated for wallets, whether created yet or not
  RefreshAfter,  \* STELLAR_TRACKED_ADDRESS_REFRESH_MS, in ticks of the clock
  Retained,      \* BULL_INCOMING_REMOVE_ON_COMPLETE_COUNT
  Concurrency,   \* BULL_INCOMING_CONCURRENCY
  MaxInFlight,   \* bound on the handlers awaiting something at a time
  MaxClock, MaxCrashes, MaxFailures  \* bounds on what is explored

Op  == 1..Last
Row == 0..Last   \* a row's id: the operation whose handler made it, 0 on start

ASSUME ListenerAssumption ==
  /\ Last \in Nat
  /\ Payments \subseteq Op
  /\ Sender \in [Op -> Address] /\ Receiver \in [Op -> Address]
  /\ Platform \subseteq Address /\ UserWallet \subseteq Address \ Platform
  /\ RefreshAfter \in Nat /\ Retained \in Nat
  /\ Concurrency \in Nat \ {0} /\ MaxInFlight \in Nat \ {0}
  /\ MaxClock \in Nat /\ MaxCrashes \in Nat /\ MaxFailures \in Nat

VARIABLES
  closed,       \* operations on the ledger so far
  wallets,      \* user wallets in the database
  clock,
  phase,        \* of the process
  start,        \* startCursor, 0 for 'now'
  position,     \* last operation the stream delivered in this life
  tracked,      \* trackedAddressSet
  refreshedAt,  \* lastTrackedAddressRefreshAt
  handler,      \* the locals of each operation's onmessage
  rows,         \* stellar_listener_state: the cursor of each row
  first,        \* the row that findOne returns
  waiting,      \* the incoming queue, oldest first
  active,       \* jobs being processed
  completed,    \* completed jobs still kept, oldest first
  crashes, failures,  \* counters for the bounds
  adds,         \* history: how often a job was really added for an operation
  dropped,      \* history: operations their last handler took for irrelevant
  cut,          \* history: those whose last handler failed, or was killed by a
                \* crash after the cursor had passed them
  origin,       \* history: where the last stream opened at 'now' began
  createdAt, receivedAt  \* history: times of wallets and operations

world   == <<closed, wallets, clock, createdAt>>
process == <<phase, start, position, tracked, refreshedAt, handler>>
state   == <<rows, first>>
queue   == <<waiting, active, completed, adds>>
bounds  == <<crashes, failures>>
history == <<dropped, cut, origin, receivedAt>>

vars == <<world, process, state, queue, bounds, history>>

-----------------------------------------------------------------------------
Elements(s) == {s[i] : i \in DOMAIN s}

Pc == {"idle", "load", "loaded", "add", "find", "create", "save"}

\* since is now in refreshTrackedAddressCache, snapshot the wallets it read,
\* row the state entity's id.
Locals == [pc : Pc, since : 0..MaxClock, snapshot : SUBSET UserWallet, row : Row]

Idle == [pc |-> "idle", since |-> 0, snapshot |-> {}, row |-> 0]

InFlight == {e \in Op : handler[e].pc # "idle"}

\* Variant: looks at the receiver only.
TracksReceiver(e, set) == e \in Payments /\ Receiver[e] \in set

\* Whether an operation concerns one of the addresses.
Tracks(e, set) == e \in Payments /\ (Sender[e] \in set \/ Receiver[e] \in set)

\* Locals of a handler that has compared its operation with the set.
AfterFilter(e, set) ==
  [Idle EXCEPT !.pc = IF Tracks(e, set) THEN "add" ELSE "find"]

\* The same, for the history.
DroppedBy(e, set) == IF Tracks(e, set) THEN {} ELSE {e}

Init ==
  /\ closed = 0 /\ clock = 0
  /\ wallets = {} /\ createdAt = [a \in UserWallet |-> 0]
  /\ phase = "down" /\ start = 0 /\ position = 0
  /\ tracked = {} /\ refreshedAt = 0
  /\ handler = [e \in Op |-> Idle]
  /\ rows = <<>> /\ first = 0
  /\ waiting = <<>> /\ active = {} /\ completed = <<>>
  /\ adds = [e \in Op |-> 0]
  /\ crashes = 0 /\ failures = 0
  /\ dropped = {} /\ cut = {} /\ origin = 0
  /\ receivedAt = [e \in Op |-> 0]

-----------------------------------------------------------------------------
(* The world around the process. *)

Tick ==
  /\ clock < MaxClock
  /\ clock' = clock + 1
  /\ UNCHANGED <<closed, wallets, createdAt, process, state, queue, bounds, history>>

\* POST /wallets generates the key and commits its row before it answers.
CreateWallet(a) ==
  /\ phase = "up"
  /\ a \notin wallets
  /\ wallets' = wallets \cup {a}
  /\ createdAt' = [createdAt EXCEPT ![a] = clock]
  /\ UNCHANGED <<closed, clock, process, state, queue, bounds, history>>

\* The next operation reaches the ledger. Nobody can pay from or to a wallet
\* whose key has not been handed out.
Close ==
  /\ closed < Last
  /\ {Sender[closed + 1], Receiver[closed + 1]} \cap UserWallet \subseteq wallets
  /\ closed' = closed + 1
  /\ UNCHANGED <<wallets, clock, createdAt, process, state, queue, bounds, history>>

-----------------------------------------------------------------------------
(* The life of the process. *)

NewRow(r) == [q \in DOMAIN rows \cup {r} |-> IF q = r THEN 0 ELSE rows[q]]

\* Variant: always 'now'.
ReadCursorNow ==
  /\ phase = "down"
  /\ phase' = "opening"
  /\ start' = 0
  /\ UNCHANGED <<position, tracked, refreshedAt, handler, state>>
  /\ UNCHANGED <<world, queue, bounds, history>>

\* getResumeCursor: getListenerState finds the row or makes it.
ReadCursor ==
  /\ phase = "down"
  /\ phase' = "opening"
  /\ IF rows = <<>>
     THEN /\ rows' = NewRow(0) /\ first' = 0
          /\ start' = 0
     ELSE /\ start' = rows[first]
          /\ UNCHANGED state
  /\ UNCHANGED <<position, tracked, refreshedAt, handler>>
  /\ UNCHANGED <<world, queue, bounds, history>>

\* getResumeCursor catches the error and answers 'now'.
ReadCursorFails ==
  /\ phase = "down"
  /\ failures < MaxFailures
  /\ failures' = failures + 1
  /\ phase' = "opening"
  /\ start' = 0
  /\ UNCHANGED <<position, tracked, refreshedAt, handler>>
  /\ UNCHANGED <<world, state, queue, crashes, history>>

\* The rest of onModuleInit: the cache is filled and the stream opened after
\* the cursor.
Open ==
  /\ phase = "opening"
  /\ phase' = "up"
  /\ tracked' = wallets \cup Platform
  /\ refreshedAt' = clock
  /\ position' = IF start = 0 THEN closed ELSE start
  /\ origin' = IF start = 0 THEN closed ELSE origin
  /\ UNCHANGED <<start, handler, dropped, cut, receivedAt>>
  /\ UNCHANGED <<world, state, queue, bounds>>

\* The cursor that a restart would resume from.
SavedCursor == IF rows = <<>> THEN 0 ELSE rows[first]

\* Variant: handlers of the old process live on beside the new one.
CrashLeavesHandlers ==
  /\ phase = "up"
  /\ crashes < MaxCrashes
  /\ crashes' = crashes + 1
  /\ phase' = "down"
  /\ start' = 0 /\ position' = 0 /\ tracked' = {} /\ refreshedAt' = 0
  /\ UNCHANGED handler
  /\ \E s \in [1..Cardinality(active) -> active] :
       /\ Elements(s) = active
       /\ waiting' = s \o waiting
  /\ active' = {}
  /\ cut' = cut \cup {e \in InFlight : e <= SavedCursor}
  /\ UNCHANGED <<completed, adds, failures, dropped, origin, receivedAt>>
  /\ UNCHANGED <<world, state>>

\* The process dies, and its handlers with it. The jobs it worked on are found
\* stalled and rerun first.
Crash ==
  /\ phase = "up"
  /\ crashes < MaxCrashes
  /\ crashes' = crashes + 1
  /\ phase' = "down"
  /\ start' = 0 /\ position' = 0 /\ tracked' = {} /\ refreshedAt' = 0
  /\ handler' = [e \in Op |-> Idle]
  /\ \E s \in [1..Cardinality(active) -> active] :
       /\ Elements(s) = active
       /\ waiting' = s \o waiting
  /\ active' = {}
  /\ cut' = cut \cup {e \in InFlight : e <= SavedCursor}
  /\ UNCHANGED <<completed, adds, failures, dropped, origin, receivedAt>>
  /\ UNCHANGED <<world, state>>

-----------------------------------------------------------------------------
(* onmessage, one action per stretch between two awaits. *)

\* The stream delivers operation e. When the cache is fresh, nothing is
\* awaited before the operation is compared with it.
Receive(e) ==
  /\ phase = "up"
  /\ e = position + 1 /\ e <= closed
  /\ Cardinality(InFlight) < MaxInFlight
  /\ position' = e
  /\ receivedAt' = [receivedAt EXCEPT ![e] = clock]
  /\ IF clock - refreshedAt < RefreshAfter
     THEN /\ handler' = [handler EXCEPT ![e] = AfterFilter(e, tracked)]
          /\ dropped' = (dropped \ {e}) \cup DroppedBy(e, tracked)
     ELSE /\ handler' = [handler EXCEPT ![e] = [Idle EXCEPT !.pc = "load", !.since = clock]]
          /\ dropped' = dropped \ {e}
  /\ cut' = cut \ {e}
  /\ UNCHANGED <<phase, start, tracked, refreshedAt, origin>>
  /\ UNCHANGED <<world, state, queue, bounds>>

\* The database answers the query for the wallets.
LoadWallets(e) ==
  /\ handler[e].pc = "load"
  /\ handler' = [handler EXCEPT ![e] = [@ EXCEPT !.pc = "loaded", !.snapshot = wallets]]
  /\ UNCHANGED <<phase, start, position, tracked, refreshedAt>>
  /\ UNCHANGED <<world, state, queue, bounds, history>>

\* Variant: the refresh counts from its end.
RefreshStampedLate(e) ==
  /\ handler[e].pc = "loaded"
  /\ tracked' = handler[e].snapshot \cup Platform
  /\ refreshedAt' = clock
  /\ handler' = [handler EXCEPT ![e] = AfterFilter(e, tracked')]
  /\ dropped' = dropped \cup DroppedBy(e, tracked')
  /\ UNCHANGED <<phase, start, position, cut, origin, receivedAt>>
  /\ UNCHANGED <<world, state, queue, bounds>>

\* Variant: keeps the time of the next refresh instead.
RefreshStampedAhead(e) ==
  /\ handler[e].pc = "loaded"
  /\ tracked' = handler[e].snapshot \cup Platform
  /\ refreshedAt' = handler[e].since + RefreshAfter
  /\ handler' = [handler EXCEPT ![e] = AfterFilter(e, tracked')]
  /\ dropped' = dropped \cup DroppedBy(e, tracked')
  /\ UNCHANGED <<phase, start, position, cut, origin, receivedAt>>
  /\ UNCHANGED <<world, state, queue, bounds>>

\* The set is cleared and filled; the handler goes on with it.
Refresh(e) ==
  /\ handler[e].pc = "loaded"
  /\ tracked' = handler[e].snapshot \cup Platform
  /\ refreshedAt' = handler[e].since
  /\ handler' = [handler EXCEPT ![e] = AfterFilter(e, tracked')]
  /\ dropped' = dropped \cup DroppedBy(e, tracked')
  /\ UNCHANGED <<phase, start, position, cut, origin, receivedAt>>
  /\ UNCHANGED <<world, state, queue, bounds>>

\* Variant: the id is not looked at.
IsKnownNever(e) == FALSE

\* Redis has a job with this operation's id.
IsKnown(e) == e \in Elements(waiting) \cup active \cup Elements(completed)

\* incomingTransactionQueue.add: an id that is known is ignored.
Add(e) ==
  /\ handler[e].pc = "add"
  /\ handler' = [handler EXCEPT ![e].pc = "find"]
  /\ IF IsKnown(e)
     THEN UNCHANGED <<waiting, adds>>
     ELSE /\ waiting' = Append(waiting, e)
          /\ adds' = [adds EXCEPT ![e] = @ + 1]
  /\ UNCHANGED <<phase, start, position, tracked, refreshedAt, active, completed>>
  /\ UNCHANGED <<world, state, bounds, history>>

\* updateCursor: getListenerState looks for the row.
FindState(e) ==
  /\ handler[e].pc = "find"
  /\ handler' = [handler EXCEPT ![e] =
       IF rows = <<>> THEN [@ EXCEPT !.pc = "create"]
       ELSE [@ EXCEPT !.pc = "save", !.row = first]]
  /\ UNCHANGED <<phase, start, position, tracked, refreshedAt>>
  /\ UNCHANGED <<world, state, queue, bounds, history>>

\* getListenerState makes a row. Ids are random and findOne has no ORDER BY,
\* so that the new row may be the one found from now on.
CreateState(e) ==
  /\ handler[e].pc = "create"
  /\ rows' = NewRow(e)
  /\ first' \in IF rows = <<>> THEN {e} ELSE {first, e}
  /\ handler' = [handler EXCEPT ![e] = [@ EXCEPT !.pc = "save", !.row = e]]
  /\ UNCHANGED <<phase, start, position, tracked, refreshedAt>>
  /\ UNCHANGED <<world, queue, bounds, history>>

\* updateCursor saves the entity. No other operation's handler wrote this
\* cursor since, so that save finds the column dirty whatever the row holds.
SaveCursor(e) ==
  /\ handler[e].pc = "save"
  /\ rows' = [rows EXCEPT ![handler[e].row] = e]
  /\ handler' = [handler EXCEPT ![e] = Idle]
  /\ UNCHANGED <<phase, start, position, tracked, refreshedAt, first>>
  /\ UNCHANGED <<world, queue, bounds, history>>

\* Any await may throw; onmessage logs the error, and the stream goes on.
HandlerFails(e) ==
  /\ handler[e].pc # "idle"
  /\ failures < MaxFailures
  /\ failures' = failures + 1
  /\ handler' = [handler EXCEPT ![e] = Idle]
  /\ cut' = cut \cup {e}
  /\ UNCHANGED <<phase, start, position, tracked, refreshedAt, dropped, origin, receivedAt>>
  /\ UNCHANGED <<world, state, queue, crashes>>

Handle(e) ==
  \/ LoadWallets(e) \/ Refresh(e) \/ Add(e)
  \/ FindState(e) \/ CreateState(e) \/ SaveCursor(e)

-----------------------------------------------------------------------------
(* The workers of the queue; PaymentProcessing has what they do. *)

Process ==
  /\ phase = "up"
  /\ waiting # <<>> /\ Cardinality(active) < Concurrency
  /\ active' = active \cup {Head(waiting)}
  /\ waiting' = Tail(waiting)
  /\ UNCHANGED <<completed, adds>>
  /\ UNCHANGED <<world, process, state, bounds, history>>

Newest(s) == IF Len(s) <= Retained THEN s
             ELSE SubSeq(s, Len(s) - Retained + 1, Len(s))

Complete(e) ==
  /\ phase = "up"
  /\ e \in active
  /\ active' = active \ {e}
  /\ completed' = Newest(Append(completed, e))
  /\ UNCHANGED <<waiting, adds>>
  /\ UNCHANGED <<world, process, state, bounds, history>>

-----------------------------------------------------------------------------
Next ==
  \/ Tick \/ Close \/ (\E a \in UserWallet : CreateWallet(a))
  \/ ReadCursor \/ ReadCursorFails \/ Open \/ Crash
  \/ \E e \in Op : Receive(e) \/ Handle(e) \/ HandlerFails(e) \/ Complete(e)
  \/ Process

Spec == Init /\ [][Next]_vars

\* Docker restarts the process (restart: always), the stream delivers what is
\* on the ledger, and every awaited call returns. Nothing makes an operation
\* reach the ledger, a wallet be created, a call fail or a process die.
FairSpec ==
  /\ Spec
  /\ WF_vars(ReadCursor \/ ReadCursorFails) /\ WF_vars(Open)
  /\ WF_vars(\E e \in Op : Receive(e)) /\ \A e \in Op : WF_vars(Handle(e))

-----------------------------------------------------------------------------
(* Properties. *)

\* The range of each variable.
TypeOK ==
  /\ closed \in 0..Last /\ clock \in 0..MaxClock
  /\ wallets \subseteq UserWallet /\ createdAt \in [UserWallet -> 0..MaxClock]
  /\ phase \in {"down", "opening", "up"}
  /\ start \in 0..Last /\ position \in 0..closed
  /\ tracked \subseteq UserWallet \cup Platform /\ refreshedAt \in 0..clock
  /\ handler \in [Op -> Locals]
  /\ DOMAIN rows \subseteq Row /\ \A r \in DOMAIN rows : rows[r] \in 0..Last
  /\ first \in Row
  /\ waiting \in Seq(Op) /\ active \subseteq Op /\ completed \in Seq(Op)
  /\ crashes \in 0..MaxCrashes /\ failures \in 0..MaxFailures
  /\ adds \in [Op -> Nat] /\ dropped \subseteq Op /\ cut \subseteq Op /\ origin \in 0..Last
  /\ receivedAt \in [Op -> 0..MaxClock]

\* A payment from or to a wallet is not taken for irrelevant once the wallet
\* is older than the refresh interval: refreshes may overlap and overwrite
\* each other with older lists, but each counts from before its query.
OnlyNewWalletsAreMissed ==
  \A e \in dropped \cap Payments :
    \A a \in {Sender[e], Receiver[e]} \cap UserWallet :
      receivedAt[e] - createdAt[a] < RefreshAfter

OfPlatform(e) == {Sender[e], Receiver[e]} \cap Platform # {}

\* The payments that the saved cursor has passed and that belong in the queue.
Passed == {e \in Payments : /\ origin < e /\ e <= SavedCursor
                            /\ OfPlatform(e) \/ e \notin dropped
                            /\ handler[e].pc = "idle"}

\* "Used to resume listening from where we left off": every relevant payment
\* that the saved cursor has passed is in the queue, unless its handler is
\* still at work. onmessage is not awaited, so that a crash may refute this.
NothingSkipped == \A e \in Passed : adds[e] > 0

\* However its handlers overlap, fail and die, the listener leaves no other
\* payment behind the saved cursor than one whose own handler failed, or was
\* killed when a later one had already moved the cursor past it: a restart
\* takes up all the rest, in whatever order their handlers were.
SkippedOnlyByFault == \A e \in Passed : adds[e] > 0 \/ e \in cut

\* A payment gets a second job only when a restart delivers it again and Redis
\* has forgotten the first by then: once for a restart at most, and never while
\* fewer other payments have been queued than completed jobs are kept.
RequeuedOnlyIfForgotten ==
  \A e \in Op :
    adds[e] > 1 =>
      /\ adds[e] - 1 <= crashes
      /\ Cardinality({f \in Op \ {e} : adds[f] > 0}) >= Retained

\* While the process that resumed from a cursor lives, the saved cursor never
\* falls behind that point, in whatever order its handlers save theirs.
NotBehindStart ==
  phase = "up" /\ start # 0 => SavedCursor >= start

\* Every payment of the platform that is on the ledger ahead of the saved cursor
\* is queued at last, however often the process dies before it gets to it and
\* in whatever order the cursors are saved, unless its own handler is cut short
\* as in SkippedOnlyByFault, or the cursor cannot be read on some restart.
EventuallyQueued ==
  \A e \in Payments :
    OfPlatform(e) /\ 0 < SavedCursor /\ SavedCursor < e /\ e <= closed
      ~> adds[e] > 0 \/ e \in cut \/ (failures > 0 /\ e <= origin)

=============================================================================
