----------------------------- MODULE OrderBook -----------------------------
(***************************************************************************)
(* Orders, their shipments, their shoppers and what a shopper may ask for: *)
(* syncOrderFromShopify, syncFulfillmentFromShopify and the first-order    *)
(* bookkeeping (app/lib/sync.server.ts), redactCustomerEverywhere          *)
(* (app/lib/customer-erasure.server.ts) and the privacy exports            *)
(* (app/lib/data-request.server.ts).                                       *)
(*                                                                         *)
(* Each operation is one transaction.  Those on an order hold the order's  *)
(* advisory lock, those on a shopper the shopper's: an order that names a  *)
(* shopper takes both, in that order, and a redaction only the second.     *)
(*                                                                         *)
(* Abstractions.                                                           *)
(*  - Of an order: its source clock, its shopper, when it was placed,      *)
(*    whether it is flagged as the shopper's first, whether it carries the *)
(*    trail (landing site, campaign, tax country) and its header status.   *)
(*    Money, line items and taxes are replaced as a whole with the order.  *)
(*  - Shoppers are known by their id; an email counts only for a request   *)
(*    without an id, which Shopify does not send.                          *)
(*  - Orders are numbered as Shopify numbers them.                         *)
(***************************************************************************)
EXTENDS Integers, FiniteSets, FiniteSetsExt

CONSTANTS
    Orders,     \* orders, by number
    Shoppers,   \* Shopify customer ids
    Ships,      \* Shopify fulfilment ids
    Requests,   \* deliveries that may ask for an export
    Term,       \* DATA_REQUEST_RETENTION_DAYS
    MaxDay,     \* bound: days
    NoOne,      \* no customer
    NoShip      \* a fulfilment row from before fulfilment ids were kept

ASSUME OrderBookAssumption ==
    /\ Orders \subseteq Nat \ {0} /\ IsFiniteSet(Orders)
    /\ NoOne \notin Shoppers /\ NoShip \notin Ships
    /\ Term \in Nat \ {0} /\ MaxDay \in Nat

VARIABLES
    order,     \* Order: at, who, placed, first, trail, header
    shipments, \* Fulfillment rows: ship, order, created, at, live
    customer,  \* Customer: firstOrderAt (0: no row), the order it came by
    erased,    \* CustomerErasure tombstones
    exports,   \* DataRequest, by delivery
    left,      \* ghost: shoppers one of whose orders was moved from them
    day        \* the date

bookVars == <<order, shipments, customer, erased, exports, left, day>>

Times    == 0..3
Statuses == {"unfulfilled", "fulfilled"}

Order    == [at : Times, who : Shoppers \cup {NoOne}, placed : Times,
             first : BOOLEAN, trail : BOOLEAN, header : Statuses]
NoOrder  == [at |-> 0, who |-> NoOne, placed |-> 0, first |-> FALSE,
             trail |-> FALSE, header |-> "unfulfilled"]
Shipment == [ship : Ships \cup {NoShip}, order : Orders, created : Times,
             at : Times, live : BOOLEAN]
Export   == [for : Shoppers \cup {NoOne}, orders : SUBSET Orders, due : Nat,
             collected : BOOLEAN]
NoExport == [for |-> NoOne, orders |-> {}, due |-> 0, collected |-> FALSE]

BookTypeOK ==
    /\ order \in [Orders -> Order]
    /\ \A s \in shipments : s \in Shipment
    /\ customer \in [Shoppers -> [at : Times, by : Orders \cup {0}]]
    /\ erased \subseteq Shoppers /\ left \subseteq Shoppers
    /\ exports \in [Requests -> Export]
    /\ day \in 0..MaxDay

(* Orders of before the fulfilment ids have a shipment without one.        *)
BookInit(legacy) ==
    /\ order = [o \in Orders |-> IF o \in legacy
                 THEN [NoOrder EXCEPT !.placed = 1, !.header = "fulfilled"]
                 ELSE NoOrder]
    /\ shipments = {[ship |-> NoShip, order |-> o, created |-> 1, at |-> 0,
                     live |-> TRUE] : o \in legacy}
    /\ customer = [c \in Shoppers |-> [at |-> 0, by |-> 0]]
    /\ erased = {} /\ left = {}
    /\ exports = [d \in Requests |-> NoExport]
    /\ day = 0

Exists(o)    == order[o].placed # 0
OrdersOf(c, book) == {o \in Orders : book[o].placed # 0 /\ book[o].who = c}

-----------------------------------------------------------------------------
(* syncOrderFromShopify                                                    *)

(* Mutant of Outdated: without the source's order.                         *)
OutdatedNever(o, at) == FALSE

(* An older version, or one without a clock, gives way.                    *)
Outdated(o, at) == Exists(o) /\ order[o].at # 0 /\ at < order[o].at

(* Mutant of Known: no look at the tombstones.                             *)
KnownAnyway(who) == who

(* customerErasureStateInTransaction: an erased shopper is no shopper.     *)
Known(who) == IF who \in erased THEN NoOne ELSE who

(* The order of placing: processedAt, then the order number.               *)
Precedes(book, a, b) == \/ book[a].placed < book[b].placed
                        \/ book[a].placed = book[b].placed /\ a <= b

Earliest(book, c) == CHOOSE a \in OrdersOf(c, book) :
                        \A b \in OrdersOf(c, book) : Precedes(book, a, b)

(* isFirstOrder of a new row: nothing of the shopper was placed before it. *)
SeemsFirst(o, c, placed) ==
    c # NoOne /\ ~\E x \in OrdersOf(c, order) : x # o /\ order[x].placed < placed

(* Mutant of HeaderOf: the order's own word.                               *)
HeaderAsTold(o, told, rows) == told

(* Once shipments are stored the header is theirs to tell.                 *)
HeaderOf(o, told, rows) ==
    LET mine == {s \in rows : s.order = o} IN
    IF mine = {} THEN told
    ELSE IF \E s \in mine : s.live THEN "fulfilled" ELSE "unfulfilled"

(* Mutant of Reconciled: the flags stand as they fell.                     *)
ReconciledNot(book, c) == book

(* reconcileFirstOrderInTransaction, on the orders: exactly the earliest   *)
(* order of the shopper is flagged.                                        *)
Reconciled(book, c) ==
    IF OrdersOf(c, book) = {} THEN book
    ELSE [o \in Orders |-> IF o \in OrdersOf(c, book)
                           THEN [book[o] EXCEPT !.first = (o = Earliest(book, c))]
                           ELSE book[o]]

(* Mutant of Acquired: the customer stays as the first delivery made it.   *)
AcquiredOnce(c, o, placed, book) ==
    IF customer[c].at = 0 THEN [at |-> placed, by |-> o] ELSE customer[c]

(* The customer row: made from the delivery if it is new, then stamped     *)
(* with the earliest order unless it already has that order's time.        *)
Acquired(c, o, placed, book) ==
    LET known == IF customer[c].at = 0 THEN [at |-> placed, by |-> o]
                                       ELSE customer[c]
        e == Earliest(book, c)
    IN  IF known.at = book[e].placed THEN known
        ELSE [at |-> book[e].placed, by |-> e]

(* An order version v of order o: a delivery or a row of an import page.   *)
SyncOrder(o, v) ==
    IF Outdated(o, v.at) THEN UNCHANGED bookVars
    ELSE LET c == Known(v.who)
             book == [order EXCEPT ![o] =
                        [at |-> v.at, who |-> c, placed |-> v.placed,
                         first |-> IF Exists(o) THEN @.first
                                   ELSE SeemsFirst(o, c, v.placed),
                         trail |-> v.trail,
                         header |-> HeaderOf(o, v.header, shipments)]]
         IN  /\ order' = IF c = NoOne THEN book ELSE Reconciled(book, c)
             /\ customer' = IF c = NoOne THEN customer
                            ELSE [customer EXCEPT ![c] =
                                    Acquired(c, o, v.placed, book)]
             /\ left' = left \cup ({order[o].who} \ {c, NoOne})
             /\ UNCHANGED <<shipments, erased, exports, day>>

(* reconcileFirstOrdersForShop, at the end of an import.                   *)
ReconcileShop ==
    /\ order' = [o \in Orders |->
                   IF Exists(o) /\ order[o].who # NoOne
                   THEN [order[o] EXCEPT !.first =
                           (o = Earliest(order, order[o].who))]
                   ELSE order[o]]
    /\ UNCHANGED <<shipments, customer, erased, exports, left, day>>

-----------------------------------------------------------------------------
(* syncFulfillmentFromShopify                                              *)

(* The row of a shipment: by its id, else a row from before the ids.       *)
RowFor(v) ==
    LET known == {s \in shipments : s.ship = v.ship}
        old   == {s \in shipments : /\ s.ship = NoShip /\ s.order = v.order
                                    /\ s.created = v.created}
    IN  IF known # {} THEN known
        ELSE IF old = {} THEN {} ELSE {CHOOSE s \in old : TRUE}

(* A shipment of an order that is not stored is dropped.                   *)
SyncFulfillment(v) ==
    IF \/ ~Exists(v.order)
       \/ \E s \in RowFor(v) : s.at # 0 /\ v.at < s.at
    THEN UNCHANGED bookVars
    ELSE /\ shipments' = (shipments \ RowFor(v))
                         \cup {[ship |-> v.ship, order |-> v.order,
                                created |-> v.created, at |-> v.at,
                                live |-> v.live]}
         /\ order' = [order EXCEPT ![v.order].header =
                        HeaderOf(v.order, @, shipments')]
         /\ UNCHANGED <<customer, erased, exports, left, day>>

-----------------------------------------------------------------------------
(* Privacy                                                                 *)

(* Mutant of Forget: the exports are left to expire.                       *)
ForgetButExports(c) ==
    /\ erased' = erased \cup {c}
    /\ order' = [o \in Orders |->
                   IF o \in OrdersOf(c, order)
                   THEN [order[o] EXCEPT !.who = NoOne, !.first = FALSE,
                                         !.trail = FALSE]
                   ELSE order[o]]
    /\ customer' = [customer EXCEPT ![c] = [at |-> 0, by |-> 0]]
    /\ UNCHANGED <<shipments, left, day, exports>>

(* redactCustomerEverywhere, but for the deliveries that wait: the         *)
(* tombstone, the exports, the orders and the customer row.                *)
Forget(c) ==
    /\ erased' = erased \cup {c}
    /\ exports' = [d \in Requests |-> IF exports[d].for = c THEN NoExport
                                                           ELSE exports[d]]
    /\ order' = [o \in Orders |->
                   IF customer[c].at # 0 /\ o \in OrdersOf(c, order)
                   THEN [order[o] EXCEPT !.who = NoOne, !.first = FALSE,
                                         !.trail = FALSE]
                   ELSE order[o]]
    /\ customer' = [customer EXCEPT ![c] = [at |-> 0, by |-> 0]]
    /\ UNCHANGED <<shipments, left, day>>

(* buildCustomerExport: what an access request assembles, without a lock.  *)
Assembled(c) == OrdersOf(c, order)

(* recordDataRequest, under the shopper's lock: an erased shopper gets an  *)
(* answer without name or orders, and a retry keeps the first term.        *)
RecordDataRequest(d, c, assembled, received) ==
    LET gone == c \in erased
        due  == IF exports[d].due = 0 THEN received + Term ELSE exports[d].due
    IN  /\ exports' = [exports EXCEPT ![d] =
                         [for |-> IF gone THEN NoOne ELSE c,
                          orders |-> IF gone THEN {} ELSE assembled,
                          due |-> due, collected |-> @.collected]]
        /\ UNCHANGED <<order, shipments, customer, erased, left, day>>

(* purgeExpiredDataRequests, by the hourly sweep and by the list.          *)
PurgeExpiredDataRequests ==
    /\ \E d \in Requests : exports[d].due # 0 /\ exports[d].due <= day
    /\ exports' = [d \in Requests |-> IF exports[d].due <= day THEN NoExport
                                                              ELSE exports[d]]
    /\ UNCHANGED <<order, shipments, customer, erased, left, day>>

(* collectDataRequestForDownload: the first download stamps the export.    *)
CollectDataRequest(d) ==
    /\ exports[d].due > day /\ ~exports[d].collected
    /\ exports' = [exports EXCEPT ![d].collected = TRUE]
    /\ UNCHANGED <<order, shipments, customer, erased, left, day>>

DayPasses == /\ day < MaxDay
             /\ day' = day + 1
             /\ UNCHANGED <<order, shipments, customer, erased, exports, left>>

-----------------------------------------------------------------------------
(* An erased shopper has no row, no order and no export that names them.   *)
NothingOfTheErased ==
    \A c \in erased : /\ customer[c].at = 0
                      /\ \A o \in Orders : order[o].who # c
                      /\ \A d \in Requests : exports[d].for # c

(* Of a shopper none of whose orders was moved away, exactly the earliest  *)
(* order is flagged, and the customer row has its time.                    *)
FirstIsEarliest(c) ==
    (customer[c].at # 0 /\ c \notin left) =>
        LET mine == OrdersOf(c, order) IN
        /\ mine # {}
        /\ \A o \in mine : order[o].first = (o = Earliest(order, c))
        /\ customer[c].at = order[Earliest(order, c)].placed

(* The header of an order agrees with its shipments.                       *)
HeaderAgrees(o) ==
    LET mine == {s \in shipments : s.order = o} IN
    mine # {} => order[o].header = IF \E s \in mine : s.live
                                   THEN "fulfilled" ELSE "unfulfilled"

(* No order and no shipment goes back in the source's time.                *)
BookRunsForward ==
    /\ \A o \in Orders : Exists(o) => order'[o].at >= order[o].at
    /\ \A s \in shipments : \E t \in shipments' :
         /\ s.ship \in {t.ship, NoShip} /\ t.order = s.order /\ t.at >= s.at
=============================================================================
