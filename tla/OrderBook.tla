----------------------------- MODULE OrderBook -----------------------------
(***************************************************************************)
(* What the callers of the order endpoints are promised, without handlers, *)
(* races or failures: each registered order has a memo and, if and only if *)
(* it is a virtual-account order, an account, which no other order has;    *)
(* there is at most one order for a reference, currency and service;       *)
(* orders are never changed or forgotten; and whoever asks is told of the  *)
(* order he asked for.                                                     *)
(***************************************************************************)
CONSTANTS
  Request,   \* what callers ask for: service, reference and currency
  Memo,      \* the memos a payment can carry
  Account,   \* Bridge's virtual accounts
  None       \* the account of a Stellar order

VARIABLES
  book,      \* the orders that are registered
  told       \* the answers given: who asked for what and was told which order

bookVars == <<book, told>>

Entry == [request : Request, memo : Memo, account : Account \cup {None}]

BookInit == book = {} /\ told = {}

Register(o) ==
  /\ o \notin book
  /\ book' = book \cup {o}
  /\ \A p \in book : p.request # o.request /\ p.memo # o.memo
  /\ o.request.service = "stellar" <=> o.account = None
  /\ \A p \in book : p.account = o.account => o.account = None
  /\ UNCHANGED told

Tell(q, o) ==
  /\ o \in book
  /\ o.request = q
  /\ told' = told \cup {[request |-> q, order |-> o]}
  /\ UNCHANGED book

BookNext ==
  \/ \E o \in Entry : Register(o)
  \/ \E q \in Request, o \in Entry : Tell(q, o)

BookSpec == BookInit /\ [][BookNext]_bookVars

=============================================================================
