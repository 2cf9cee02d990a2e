---------------------------- MODULE IngestProofs ----------------------------
(***************************************************************************)
(* Machine-checked theorems about Ingest, and about OrderBook and          *)
(* Catalogue as it uses them: for every set of stories, orders, shoppers,  *)
(* shipments, variants and prices, every number of deliveries and of runs  *)
(* that die, and every bound.                                              *)
(***************************************************************************)
EXTENDS Ingest, WellFoundedInduction, TLAPS

-----------------------------------------------------------------------------
(* The least of a set of numbers, and the earliest order of a shopper      *)

Less == OpToRel(<, Nat)

LEMMA NatsHaveLeast ==
    ASSUME NEW S \in SUBSET Nat, S # {}
    PROVE  \E x \in S : \A y \in S : x <= y
  <1>1. IsWellFoundedOn(Less, Nat)
    BY NatLessThanWellFounded DEF Less
  <1>2. PICK x \in S : \A y \in S : ~(<<y, x>> \in Less)
    BY <1>1, WFMin
  <1>3. \A y \in S : y < x => <<y, x>> \in Less
    BY DEF Less, OpToRel
  <1>4. S \subseteq Nat
    OBVIOUS
  <1>5. \A y \in S : ~(y < x)
    BY <1>2, <1>3
  <1>6. \A y \in S : x <= y
    BY <1>4, <1>5
  <1> QED
    BY <1>6

LEMMA FirstPrice == Min(Prices) \in Prices
  <1>1. \E x \in Prices : \A y \in Prices : x <= y
    BY NatsHaveLeast, CatalogueAssumption
  <1> QED
    BY <1>1 DEF Min

(* The columns of an order.                                                *)
LEMMA OrderTypes ==
    ASSUME NEW q \in Order
    PROVE  /\ q.at \in Times /\ q.who \in Shoppers \cup {NoOne}
           /\ q.placed \in Times /\ q.first \in BOOLEAN
           /\ q.trail \in BOOLEAN /\ q.header \in Statuses
           /\ q.at \in Nat /\ q.placed \in Nat
  BY DEF Order, Times

LEMMA EarliestIsThere ==
    ASSUME NEW book \in [Orders -> Order], NEW c, OrdersOf(c, book) # {}
    PROVE  /\ Earliest(book, c) \in OrdersOf(c, book)
           /\ \A b \in OrdersOf(c, book) : Precedes(book, Earliest(book, c), b)
  <1> DEFINE mine  == OrdersOf(c, book)
             times == {book[o].placed : o \in mine}
  <1>1. mine \subseteq Orders /\ Orders \subseteq Nat
    BY OrderBookAssumption DEF OrdersOf
  <1>2. \A o \in mine : book[o].placed \in Nat
    BY <1>1, OrderTypes
  <1>3. times \in SUBSET Nat /\ times # {}
    BY <1>2
  <1>4. PICK t \in times : \A u \in times : t <= u
    <2> HIDE DEF times
    <2> QED
      BY <1>3, NatsHaveLeast
  <1> DEFINE early == {o \in mine : book[o].placed = t}
  <1>5. early \in SUBSET Nat /\ early # {}
    BY <1>1, <1>4
  <1>6. PICK a \in early : \A b \in early : a <= b
    <2> HIDE DEF early
    <2> QED
      BY <1>5, NatsHaveLeast
  <1>7. ASSUME NEW b \in mine PROVE Precedes(book, a, b)
    <2>1. book[a].placed = t /\ t <= book[b].placed /\ book[b].placed \in Nat
      BY <1>2, <1>4, <1>6
    <2>2. CASE book[b].placed = t
      BY <2>1, <2>2, <1>6 DEF Precedes
    <2>3. CASE book[b].placed # t
      <3>1. t \in Nat
        BY <1>3
      <3> QED
        BY <2>1, <2>3, <3>1 DEF Precedes
    <2> QED
      BY <2>2, <2>3
  <1>8. \E x \in mine : \A b \in mine : Precedes(book, x, b)
    BY <1>6, <1>7
  <1> HIDE DEF mine
  <1> QED
    BY <1>8 DEF Earliest, mine

(* Two books that agree on an order's shopper and date have the same       *)
(* earliest orders.                                                        *)
LEMMA SameEarliest ==
    ASSUME NEW b1 \in [Orders -> Order], NEW b2 \in [Orders -> Order], NEW c,
           OrdersOf(c, b1) = OrdersOf(c, b2),
           \A o \in OrdersOf(c, b1) : b1[o].placed = b2[o].placed
    PROVE  Earliest(b1, c) = Earliest(b2, c)
  <1> DEFINE mine == OrdersOf(c, b1)
  <1>1. \A a, b \in mine : Precedes(b1, a, b) = Precedes(b2, a, b)
    BY DEF Precedes
  <1>2. \A a \in mine : (\A b \in mine : Precedes(b1, a, b))
                      = (\A b \in mine : Precedes(b2, a, b))
    BY <1>1
  <1> HIDE DEF mine
  <1>3. (CHOOSE a \in mine : \A b \in mine : Precedes(b1, a, b))
         = (CHOOSE a \in mine : \A b \in mine : Precedes(b2, a, b))
    BY <1>2
  <1> QED
    BY <1>3 DEF Earliest, mine

-----------------------------------------------------------------------------
(* What a delivery says                                                    *)

LEMMA StoryTypes ==
    ASSUME TypeOK, NEW d \in Deliveries
    PROVE  /\ Kind(d) \in {"order", "page"} => story[d] \in OrderPayload
           /\ Kind(d) = "ship" => story[d] \in FulfillmentPayload
           /\ Kind(d) \in {"access", "redact"} => story[d] \in CustomerPayload
           /\ Kind(d) \in {"price", "cost", "withdraw"} =>
                story[d] \in ProductPayload
           /\ Kind(d) = "checkout" => story[d] \in CheckoutPayload
  <1>1. story[d] \in Payload
    BY DEF TypeOK, Tellable
  <1> DEFINE q == story[d]
  <1>2. \/ q \in OrderPayload \/ q \in FulfillmentPayload
        \/ q \in CustomerPayload \/ q \in ProductPayload
        \/ q \in CheckoutPayload \/ q \in NoPayload
    BY <1>1 DEF Payload
  <1> HIDE DEF q
  <1>3. /\ q \in OrderPayload => q.kind \in {"order", "page"}
        /\ q \in FulfillmentPayload => q.kind = "ship"
        /\ q \in CustomerPayload => q.kind \in {"access", "redact"}
        /\ q \in ProductPayload => q.kind \in {"price", "cost", "withdraw"}
        /\ q \in CheckoutPayload => q.kind = "checkout"
        /\ q \in NoPayload => q.kind \in {"import", "none"}
    BY DEF OrderPayload, FulfillmentPayload, CustomerPayload, ProductPayload,
           CheckoutPayload, NoPayload
  <1>4. Kind(d) = q.kind
    BY DEF Kind, q
  <1> QED
    BY <1>2, <1>3, <1>4 DEF q

(* An order as a run holds it, with or without what a redaction takes.     *)
LEMMA HeldTypes ==
    ASSUME TypeOK, NEW d \in Deliveries, Kind(d) \in {"order", "page"}
    PROVE  /\ Held(d) \in OrderPayload
           /\ Held(d).order \in Orders /\ Held(d).at \in Times
           /\ Held(d).who \in Shoppers \cup {NoOne}
           /\ Held(d).placed \in Times /\ Held(d).placed # 0
           /\ Held(d).trail \in BOOLEAN /\ Held(d).header \in Statuses
           /\ Held(d).lines \subseteq Variants
  <1>1. story[d] \in OrderPayload
    BY StoryTypes
  <1>2. Held(d) \in OrderPayload
    BY <1>1 DEF Held, Scrubbed, OrderPayload
  <1> QED
    BY <1>2 DEF OrderPayload

-----------------------------------------------------------------------------
(* What each operation leaves in the order book                            *)

(* Row o of the book is version v, of shopper c.                           *)
Recorded(o, v, c, book) ==
    /\ book \in [Orders -> Order]
    /\ book[o].at = v.at /\ book[o].who = c /\ book[o].placed = v.placed
    /\ book[o].header = HeaderOf(o, v.header, shipments)
    /\ \A x \in Orders \ {o} : book[x] = order[x]

(* Two books differ in the flags of c's first order at most.               *)
SameBut(c, b1, b2) ==
    \A x \in Orders : /\ b1[x].at = b2[x].at /\ b1[x].who = b2[x].who
                      /\ b1[x].placed = b2[x].placed
                      /\ b1[x].trail = b2[x].trail
                      /\ b1[x].header = b2[x].header
                      /\ x \notin OrdersOf(c, b2) => b1[x] = b2[x]

LEMMA HeaderTyped ==
    ASSUME NEW o, NEW told \in Statuses, NEW r
    PROVE  HeaderOf(o, told, r) \in Statuses
  BY Zenon DEF HeaderOf, Statuses

LEMMA FlagWrites ==
    ASSUME NEW q \in Order, NEW b \in BOOLEAN
    PROVE  /\ [q EXCEPT !.first = b] \in Order
           /\ [q EXCEPT !.first = b].first = b
           /\ [q EXCEPT !.first = b].at = q.at
           /\ [q EXCEPT !.first = b].who = q.who
           /\ [q EXCEPT !.first = b].placed = q.placed
           /\ [q EXCEPT !.first = b].trail = q.trail
           /\ [q EXCEPT !.first = b].header = q.header
  BY DEF Order

LEMMA ReconciledIs ==
    ASSUME NEW book \in [Orders -> Order], NEW c
    PROVE  /\ Reconciled(book, c) \in [Orders -> Order]
           /\ SameBut(c, Reconciled(book, c), book)
           /\ \A x \in OrdersOf(c, book) :
                Reconciled(book, c)[x].first = (x = Earliest(book, c))
  <1>1. CASE OrdersOf(c, book) = {}
    BY <1>1 DEF Reconciled, SameBut
  <1>2. CASE OrdersOf(c, book) # {}
    <2> DEFINE flag(x) == (x = Earliest(book, c))
    <2>1. Reconciled(book, c) =
            [o \in Orders |-> IF o \in OrdersOf(c, book)
                              THEN [book[o] EXCEPT !.first = flag(o)]
                              ELSE book[o]]
      BY <1>2, Zenon DEF Reconciled
    <2>2. \A x \in Orders : flag(x) \in BOOLEAN
      OBVIOUS
    <2>3. OrdersOf(c, book) \subseteq Orders
      BY DEF OrdersOf
    <2> HIDE DEF flag
    <2>4. ASSUME NEW x \in Orders
          PROVE  /\ Reconciled(book, c)[x] \in Order
                 /\ Reconciled(book, c)[x].at = book[x].at
                 /\ Reconciled(book, c)[x].who = book[x].who
                 /\ Reconciled(book, c)[x].placed = book[x].placed
                 /\ Reconciled(book, c)[x].trail = book[x].trail
                 /\ Reconciled(book, c)[x].header = book[x].header
                 /\ x \notin OrdersOf(c, book) => Reconciled(book, c)[x] = book[x]
                 /\ x \in OrdersOf(c, book) => Reconciled(book, c)[x].first = flag(x)
      <3>1. book[x] \in Order /\ flag(x) \in BOOLEAN
        BY <2>2
      <3>2. CASE x \in OrdersOf(c, book)
        <4>1. Reconciled(book, c)[x] = [book[x] EXCEPT !.first = flag(x)]
          BY <2>1, <3>2
        <4> QED
          BY <3>1, <3>2, <4>1, FlagWrites
      <3>3. CASE x \notin OrdersOf(c, book)
        <4>1. Reconciled(book, c)[x] = book[x]
          BY <2>1, <3>3
        <4> QED
          BY <3>1, <3>3, <4>1
      <3> QED
        BY <3>2, <3>3
    <2>5. \E f : Reconciled(book, c) = [x \in Orders |-> f[x]]
      <3> DEFINE f == Reconciled(book, c)
      <3>1. f = [x \in Orders |-> f[x]]
        BY <2>1
      <3> QED
        BY <3>1
    <2>6. Reconciled(book, c) \in [Orders -> Order]
      BY <2>4, <2>5
    <2> QED
      BY <2>3, <2>4, <2>6 DEF SameBut, flag
  <1> QED
    BY <1>1, <1>2

(* syncOrderFromShopify writes nothing, or the version and the flags and   *)
(* the customer row that follow from it.                                   *)
OrderWritten(o, v, c, book) ==
    /\ c = Known(v.who) /\ c \in Shoppers \cup {NoOne}
    /\ ~Outdated(o, v.at)
    /\ Recorded(o, v, c, book)
    /\ c = NoOne => order' = book /\ customer' = customer
    /\ c # NoOne => /\ order' = Reconciled(book, c)
                    /\ customer' = [customer EXCEPT ![c] =
                                      Acquired(c, o, v.placed, book)]
    /\ left' = left \cup ({order[o].who} \ {c, NoOne})

LEMMA SyncOrderWrites ==
    ASSUME TypeOK, NEW o \in Orders, NEW v \in OrderPayload, SyncOrder(o, v)
    PROVE  /\ UNCHANGED <<shipments, erased, exports, day>>
           /\ \/ UNCHANGED <<order, customer, left>>
              \/ \E c, book : OrderWritten(o, v, c, book)
  <1>1. CASE Outdated(o, v.at)
    <2>1. UNCHANGED bookVars
      BY <1>1, Zenon DEF SyncOrder
    <2> QED
      BY <2>1 DEF bookVars
  <1>2. CASE ~Outdated(o, v.at)
    <2> DEFINE c == Known(v.who)
               f == IF Exists(o) THEN order[o].first
                    ELSE SeemsFirst(o, c, v.placed)
               h == HeaderOf(o, v.header, shipments)
               q == [at |-> v.at, who |-> c, placed |-> v.placed,
                     first |-> f, trail |-> v.trail, header |-> h]
               book == [order EXCEPT ![o] = q]
    <2>1. /\ order' = IF c = NoOne THEN book ELSE Reconciled(book, c)
          /\ customer' = IF c = NoOne THEN customer
                         ELSE [customer EXCEPT ![c] =
                                 Acquired(c, o, v.placed, book)]
          /\ left' = left \cup ({order[o].who} \ {c, NoOne})
          /\ UNCHANGED <<shipments, erased, exports, day>>
      BY <1>2, Zenon DEF SyncOrder
    <2>2. c \in Shoppers \cup {NoOne}
      BY DEF Known, OrderPayload
    <2>3. order \in [Orders -> Order]
      BY DEF TypeOK, BookTypeOK
    <2>4. f \in BOOLEAN
      BY <2>3, OrderTypes DEF SeemsFirst
    <2>5. h \in Statuses
      BY HeaderTyped DEF OrderPayload
    <2>6. /\ q \in Order /\ q.at = v.at /\ q.who = c /\ q.placed = v.placed
          /\ q.header = HeaderOf(o, v.header, shipments)
      <3>1. h = HeaderOf(o, v.header, shipments)
        OBVIOUS
      <3> HIDE DEF c, f, h
      <3> QED
        BY <2>2, <2>4, <2>5, <3>1 DEF Order, OrderPayload
    <2>7. Recorded(o, v, c, book)
      <3> HIDE DEF q, c
      <3> QED
        BY <2>3, <2>6 DEF Recorded
    <2>8. OrderWritten(o, v, c, book)
      <3> HIDE DEF book
      <3> QED
        BY <1>2, <2>1, <2>2, <2>7 DEF OrderWritten
    <2> QED
      BY <2>1, <2>8
  <1> QED
    BY <1>1, <1>2

(* The customer row has the time of the earliest order after it.           *)
LEMMA AcquiredIs ==
    ASSUME TypeOK, NEW o \in Orders, NEW v \in OrderPayload, NEW c \in Shoppers,
           NEW book, Recorded(o, v, c, book)
    PROVE  /\ OrdersOf(c, book) # {}
           /\ Acquired(c, o, v.placed, book) \in [at : Times, by : Orders \cup {0}]
           /\ Acquired(c, o, v.placed, book).at = book[Earliest(book, c)].placed
           /\ Acquired(c, o, v.placed, book).at # 0
  <1> DEFINE e == Earliest(book, c)
             known == IF customer[c].at = 0 THEN [at |-> v.placed, by |-> o]
                                            ELSE customer[c]
  <1>1. book \in [Orders -> Order] /\ o \in OrdersOf(c, book)
    BY DEF Recorded, OrdersOf, OrderPayload
  <1>2. e \in OrdersOf(c, book)
    BY <1>1, EarliestIsThere
  <1>3. e \in Orders /\ book[e].placed \in Times /\ book[e].placed # 0
    BY <1>1, <1>2, OrderTypes DEF OrdersOf
  <1>4. known \in [at : Times, by : Orders \cup {0}]
    BY DEF TypeOK, BookTypeOK, OrderPayload
  <1>5. Acquired(c, o, v.placed, book) =
          IF known.at = book[e].placed THEN known
          ELSE [at |-> book[e].placed, by |-> e]
    BY Zenon DEF Acquired
  <1> HIDE DEF e, known
  <1>6. /\ Acquired(c, o, v.placed, book) \in [at : Times, by : Orders \cup {0}]
        /\ Acquired(c, o, v.placed, book).at = book[e].placed
    BY <1>3, <1>4, <1>5
  <1> QED
    BY <1>1, <1>3, <1>6 DEF e

(* reconcileFirstOrdersForShop, the customer's orders told by their rows.  *)
LEMMA ReconcileShopWrites ==
    ASSUME TypeOK, ReconcileShop
    PROVE  /\ order' \in [Orders -> Order]
           /\ UNCHANGED <<shipments, customer, erased, exports, left, day>>
           /\ \A x \in Orders :
                /\ order'[x].at = order[x].at /\ order'[x].who = order[x].who
                /\ order'[x].placed = order[x].placed
                /\ order'[x].header = order[x].header
                /\ Exists(x) /\ order[x].who # NoOne =>
                     order'[x].first = (x = Earliest(order, order[x].who))
  <1> DEFINE flag(x) == (x = Earliest(order, order[x].who))
             settle(x) == Exists(x) /\ order[x].who # NoOne
  <1>1. order' = [o \in Orders |->
                    IF settle(o) THEN [order[o] EXCEPT !.first = flag(o)]
                    ELSE order[o]]
        /\ UNCHANGED <<shipments, customer, erased, exports, left, day>>
    BY Zenon DEF ReconcileShop
  <1>2. order \in [Orders -> Order]
    BY DEF TypeOK, BookTypeOK
  <1>3. \A x \in Orders : flag(x) \in BOOLEAN
    OBVIOUS
  <1> HIDE DEF flag, settle
  <1>4. ASSUME NEW x \in Orders
        PROVE  /\ order'[x] \in Order
               /\ order'[x].at = order[x].at /\ order'[x].who = order[x].who
               /\ order'[x].placed = order[x].placed
               /\ order'[x].header = order[x].header
               /\ settle(x) => order'[x].first = flag(x)
    <2>1. order[x] \in Order /\ flag(x) \in BOOLEAN
      BY <1>2, <1>3
    <2>2. CASE settle(x)
      <3>1. order'[x] = [order[x] EXCEPT !.first = flag(x)]
        BY <1>1, <2>2
      <3> QED
        BY <2>1, <3>1, FlagWrites
    <2>3. CASE ~settle(x)
      <3>1. order'[x] = order[x]
        BY <1>1, <2>3
      <3> QED
        BY <2>1, <2>3, <3>1
    <2> QED
      BY <2>2, <2>3
  <1>5. order' = [o \in Orders |-> order'[o]]
    BY <1>1
  <1>6. order' \in [Orders -> Order]
    BY <1>4, <1>5
  <1> QED
    BY <1>1, <1>4, <1>6 DEF flag, settle

LEMMA RowForIs ==
    ASSUME NEW v
    PROVE  /\ RowFor(v) \subseteq shipments
           /\ \A s \in RowFor(v) : \/ s.ship = v.ship
                                   \/ s.ship = NoShip /\ s.order = v.order
  <1> DEFINE known == {s \in shipments : s.ship = v.ship}
             old   == {s \in shipments : /\ s.ship = NoShip /\ s.order = v.order
                                         /\ s.created = v.created}
  <1>1. RowFor(v) = IF known # {} THEN known
                    ELSE IF old = {} THEN {} ELSE {CHOOSE s \in old : TRUE}
    BY Zenon DEF RowFor
  <1>2. CASE known # {}
    BY <1>1, <1>2
  <1>3. CASE known = {} /\ old = {}
    BY <1>1, <1>3
  <1>4. CASE known = {} /\ old # {}
    <2>1. (CHOOSE s \in old : TRUE) \in old
      <3> HIDE DEF old
      <3> QED
        BY <1>4
    <2>2. RowFor(v) = {CHOOSE s \in old : TRUE}
      <3> HIDE DEF old, known
      <3> QED
        BY <1>1, <1>4
    <2> QED
      BY <2>1, <2>2
  <1> QED
    BY <1>2, <1>3, <1>4

(* syncFulfillmentFromShopify writes nothing, or row q for its old row and *)
(* the header of its order.                                                *)
ShipmentWritten(v, q) ==
    /\ Exists(v.order)
    /\ \A s \in RowFor(v) : ~(s.at # 0 /\ v.at < s.at)
    /\ q \in Shipment /\ q.ship = v.ship /\ q.order = v.order /\ q.at = v.at
    /\ shipments' = (shipments \ RowFor(v)) \cup {q}
    /\ order' \in [Orders -> Order]
    /\ order'[v.order].header =
         HeaderOf(v.order, order[v.order].header, shipments')
    /\ \A x \in Orders : /\ order'[x].at = order[x].at
                         /\ order'[x].who = order[x].who
                         /\ order'[x].placed = order[x].placed
                         /\ order'[x].first = order[x].first
                         /\ x # v.order => order'[x] = order[x]

LEMMA SyncFulfillmentWrites ==
    ASSUME TypeOK, NEW v \in FulfillmentPayload, SyncFulfillment(v)
    PROVE  /\ UNCHANGED <<customer, erased, exports, left, day>>
           /\ \/ UNCHANGED <<order, shipments>>
              \/ \E q : ShipmentWritten(v, q)
  <1> DEFINE drop == \/ ~Exists(v.order)
                     \/ \E s \in RowFor(v) : s.at # 0 /\ v.at < s.at
  <1>1. CASE drop
    <2>1. UNCHANGED bookVars
      BY <1>1, Zenon DEF SyncFulfillment
    <2> QED
      BY <2>1 DEF bookVars
  <1>2. CASE ~drop
    <2> DEFINE q == [ship |-> v.ship, order |-> v.order, created |-> v.created,
                     at |-> v.at, live |-> v.live]
               h == HeaderOf(v.order, order[v.order].header, shipments')
               row == [order[v.order] EXCEPT !.header = h]
    <2>1. /\ shipments' = (shipments \ RowFor(v)) \cup {q}
          /\ order' = [order EXCEPT ![v.order].header =
                         HeaderOf(v.order, @, shipments')]
          /\ UNCHANGED <<customer, erased, exports, left, day>>
      BY <1>2, Zenon DEF SyncFulfillment
    <2>2. v.order \in Orders /\ order \in [Orders -> Order]
      BY DEF TypeOK, BookTypeOK, FulfillmentPayload
    <2>3. h \in Statuses
      BY <2>2, HeaderTyped, OrderTypes
    <2>4. order' = [order EXCEPT ![v.order] = row]
      BY <2>1, <2>2
    <2>5. /\ row \in Order /\ row.header = h
          /\ row.at = order[v.order].at /\ row.who = order[v.order].who
          /\ row.placed = order[v.order].placed
          /\ row.first = order[v.order].first
      <3> HIDE DEF h
      <3> QED
        BY <2>2, <2>3 DEF Order
    <2>6. q \in Shipment /\ q.ship = v.ship /\ q.order = v.order /\ q.at = v.at
      BY DEF Shipment, FulfillmentPayload
    <2>7. order' \in [Orders -> Order]
      <3> HIDE DEF row
      <3> QED
        BY <2>2, <2>4, <2>5
    <2>8. \A x \in Orders : order'[x] = IF x = v.order THEN row ELSE order[x]
      <3> HIDE DEF row
      <3> QED
        BY <2>2, <2>4
    <2>9. order'[v.order].header = h
      <3> HIDE DEF row, h
      <3> QED
        BY <2>2, <2>5, <2>8
    <2>10. \A x \in Orders : /\ order'[x].at = order[x].at
                             /\ order'[x].who = order[x].who
                             /\ order'[x].placed = order[x].placed
                             /\ order'[x].first = order[x].first
                             /\ x # v.order => order'[x] = order[x]
      <3> HIDE DEF row
      <3> QED
        BY <2>5, <2>8
    <2>11. Exists(v.order) /\ \A s \in RowFor(v) : ~(s.at # 0 /\ v.at < s.at)
      BY <1>2
    <2>12. ShipmentWritten(v, q)
      <3> HIDE DEF q
      <3> QED
        BY <2>1, <2>6, <2>7, <2>9, <2>10, <2>11 DEF ShipmentWritten
    <2> QED
      BY <2>1, <2>12
  <1> QED
    BY <1>1, <1>2

(* redactCustomerEverywhere, when the shopper's orders come with a row.    *)
LEMMA ForgetWrites ==
    ASSUME TypeOK, NEW c \in Shoppers, Forget(c)
    PROVE  /\ UNCHANGED <<shipments, left, day>>
           /\ erased' = erased \cup {c}
           /\ order' \in [Orders -> Order]
           /\ \A x \in Orders :
                /\ order'[x].at = order[x].at
                /\ order'[x].placed = order[x].placed
                /\ order'[x].header = order[x].header
                /\ IF customer[c].at # 0 /\ x \in OrdersOf(c, order)
                   THEN order'[x].who = NoOne
                   ELSE order'[x] = order[x]
           /\ customer' \in [Shoppers -> [at : Times, by : Orders \cup {0}]]
           /\ customer'[c].at = 0
           /\ \A x \in Shoppers \ {c} : customer'[x] = customer[x]
           /\ exports' \in [Requests -> Export]
           /\ \A d \in Requests : IF exports[d].for = c
                                  THEN exports'[d] = NoExport
                                  ELSE exports'[d] = exports[d]
  <1> DEFINE hit(x) == customer[c].at # 0 /\ x \in OrdersOf(c, order)
  <1>1. /\ order' = [o \in Orders |->
                       IF hit(o) THEN [order[o] EXCEPT !.who = NoOne,
                                         !.first = FALSE, !.trail = FALSE]
                       ELSE order[o]]
        /\ customer' = [customer EXCEPT ![c] = [at |-> 0, by |-> 0]]
        /\ exports' = [d \in Requests |-> IF exports[d].for = c THEN NoExport
                                                                ELSE exports[d]]
        /\ UNCHANGED <<shipments, left, day>> /\ erased' = erased \cup {c}
    BY Zenon DEF Forget
  <1>2. /\ order \in [Orders -> Order] /\ exports \in [Requests -> Export]
        /\ customer \in [Shoppers -> [at : Times, by : Orders \cup {0}]]
    BY DEF TypeOK, BookTypeOK
  <1>3. ASSUME NEW q \in Order
        PROVE  LET r == [q EXCEPT !.who = NoOne, !.first = FALSE, !.trail = FALSE]
               IN  /\ r \in Order /\ r.who = NoOne /\ r.at = q.at
                   /\ r.placed = q.placed /\ r.header = q.header
    BY DEF Order
  <1>4. \A x \in Orders :
          /\ order'[x] \in Order
          /\ order'[x].at = order[x].at /\ order'[x].placed = order[x].placed
          /\ order'[x].header = order[x].header
          /\ IF hit(x) THEN order'[x].who = NoOne ELSE order'[x] = order[x]
    <2> HIDE DEF hit
    <2> TAKE x \in Orders
    <2>1. order[x] \in Order
      BY <1>2
    <2>2. CASE hit(x)
      <3>1. order'[x] = [order[x] EXCEPT !.who = NoOne, !.first = FALSE,
                                         !.trail = FALSE]
        BY <1>1, <2>2
      <3> QED
        BY <1>3, <2>1, <2>2, <3>1
    <2>3. CASE ~hit(x)
      <3>1. order'[x] = order[x]
        BY <1>1, <2>3
      <3> QED
        BY <2>1, <2>3, <3>1
    <2> QED
      BY <2>2, <2>3
  <1>5. order' \in [Orders -> Order]
    <2>1. order' = [o \in Orders |-> order'[o]]
      BY <1>1
    <2> QED
      BY <1>4, <2>1
  <1>6. NoExport \in Export
    BY DEF NoExport, Export
  <1>7. exports' \in [Requests -> Export]
    <2> HIDE DEF hit
    <2> QED
      BY <1>1, <1>2, <1>6
  <1>8. customer' \in [Shoppers -> [at : Times, by : Orders \cup {0}]]
    <2>1. [at |-> 0, by |-> 0] \in [at : Times, by : Orders \cup {0}]
      BY DEF Times
    <2> HIDE DEF hit
    <2> DEFINE row == [at |-> 0, by |-> 0]
    <2>2. customer' = [customer EXCEPT ![c] = row]
      BY <1>1
    <2> HIDE DEF row
    <2> QED
      BY <1>2, <2>1, <2>2 DEF row
  <1>9. customer'[c].at = 0 /\ \A x \in Shoppers \ {c} : customer'[x] = customer[x]
    BY <1>1, <1>2
  <1> QED
    BY <1>1, <1>4, <1>5, <1>7, <1>8, <1>9

-----------------------------------------------------------------------------
(* What a step of Ingest does to the order book                            *)

rowVars == <<order, shipments, customer, erased, left>>

RowStep == \/ UNCHANGED rowVars
           \/ \E d \in Deliveries :
                \/ /\ Kind(d) \in {"order", "page"}
                   /\ SyncOrder(Held(d).order, Held(d))
                \/ Kind(d) = "ship" /\ SyncFulfillment(story[d])
                \/ Kind(d) = "redact" /\ Forget(story[d].who)
           \/ ReconcileShop

(* A request is answered only from the step that follows its run's answer. *)
ExportStep == \/ UNCHANGED exports
              \/ \E d \in Deliveries :
                   \/ /\ Kind(d) = "redact" /\ Forget(story[d].who)
                      /\ pc[d] = "running" /\ pc' = [pc EXCEPT ![d] = "acted"]
                   \/ /\ Kind(d) = "access" /\ pc[d] = "ready"
                      /\ RecordDataRequest(d, story[d].who, report[d], received[d])
                      /\ pc' = [pc EXCEPT ![d] = "acted"]
                   \/ CollectDataRequest(d) /\ UNCHANGED pc
              \/ PurgeExpiredDataRequests /\ UNCHANGED pc

LEMMA BookSteps ==
    ASSUME [Next]_vars
    PROVE  /\ RowStep
           /\ ExportStep
           /\ \/ day' = day
              \/ day < MaxDay /\ day' = day + 1
  <1> USE DEF RowStep, ExportStep, rowVars, Moves, Step, deliveryVars, bookVars
  <1>1. ASSUME NEW d \in Deliveries, Deliver(d) \/ Start(d) \/ Finish(d) \/ Crash(d)
        PROVE  RowStep /\ ExportStep /\ day' = day
    BY <1>1 DEF Deliver, Start, Finish, Crash
  <1>2. ASSUME NEW d \in Deliveries,
               \/ OrderFetches(d) \/ OrderPublishes(d) \/ ProductFetches(d)
               \/ InventoryFetches(d) \/ InventoryIgnored(d)
               \/ ProductCommits(d) \/ ImportCommits(d) \/ CheckoutReads(d)
               \/ CheckoutWrites(d) \/ AccessAssembles(d)
        PROVE  RowStep /\ ExportStep /\ day' = day
    BY <1>2 DEF OrderFetches, OrderPublishes, ProductFetches, InventoryFetches,
                InventoryIgnored, ProductCommits, ImportCommits, CheckoutReads,
                CheckoutWrites, AccessAssembles
  <1>3. ASSUME NEW d \in Deliveries, OrderCommits(d)
        PROVE  RowStep /\ ExportStep /\ day' = day
    <2>1. Kind(d) \in {"order", "page"} /\ SyncOrder(Held(d).order, Held(d))
      BY <1>3 DEF OrderCommits
    <2>2. exports' = exports /\ day' = day
      BY <2>1 DEF SyncOrder
    <2> QED
      BY <2>1, <2>2
  <1>4. ASSUME NEW d \in Deliveries, ImportEnds(d)
        PROVE  RowStep /\ ExportStep /\ day' = day
    BY <1>4 DEF ImportEnds, ReconcileShop
  <1>5. ASSUME NEW d \in Deliveries, FulfillmentCommits(d)
        PROVE  RowStep /\ ExportStep /\ day' = day
    <2>1. Kind(d) = "ship" /\ SyncFulfillment(story[d])
      BY <1>5 DEF FulfillmentCommits
    <2>2. exports' = exports /\ day' = day
      BY <2>1 DEF SyncFulfillment
    <2> QED
      BY <2>1, <2>2
  <1>6. ASSUME NEW d \in Deliveries, AccessRecords(d)
        PROVE  RowStep /\ ExportStep /\ day' = day
    <2>1. /\ Kind(d) = "access" /\ pc[d] = "ready"
          /\ RecordDataRequest(d, story[d].who, report[d], received[d])
          /\ pc' = [pc EXCEPT ![d] = "acted"]
      BY <1>6 DEF AccessRecords
    <2>2. UNCHANGED rowVars /\ day' = day
      BY <2>1 DEF RecordDataRequest
    <2> QED
      BY <2>1, <2>2
  <1>7. ASSUME NEW d \in Deliveries, Redact(d)
        PROVE  RowStep /\ ExportStep /\ day' = day
    <2>1. /\ Kind(d) = "redact" /\ Forget(story[d].who)
          /\ pc[d] = "running" /\ pc' = [pc EXCEPT ![d] = "acted"]
      BY <1>7, Zenon DEF Redact
    <2>2. day' = day
      BY <2>1, Zenon DEF Forget
    <2> QED
      BY <2>1, <2>2
  <1>8. ASSUME NEW d \in Deliveries, Collect(d)
        PROVE  RowStep /\ ExportStep /\ day' = day
    <2>1. CollectDataRequest(d) /\ UNCHANGED pc
      BY <1>8 DEF Collect
    <2>2. UNCHANGED rowVars /\ day' = day
      BY <2>1 DEF CollectDataRequest
    <2> QED
      BY <2>1, <2>2
  <1>9. CASE Purge
    <2>1. PurgeExpiredDataRequests /\ UNCHANGED pc
      BY <1>9 DEF Purge
    <2>2. UNCHANGED rowVars /\ day' = day
      BY <2>1 DEF PurgeExpiredDataRequests
    <2>3. RowStep /\ ExportStep
      BY <2>1, <2>2, Zenon
    <2> HIDE DEF RowStep, ExportStep
    <2> QED
      BY <2>2, <2>3
  <1>10. CASE NextDay
    BY <1>10 DEF NextDay, DayPasses
  <1>11. CASE UNCHANGED vars
    <2>1. bookVars' = bookVars
      BY <1>11, Zenon DEF vars
    <2>2. RowStep /\ ExportStep /\ day' = day
      BY <2>1
    <2> HIDE DEF RowStep, ExportStep
    <2> QED
      BY <2>2
  <1> HIDE DEF RowStep, ExportStep, rowVars, bookVars, Moves, Step, deliveryVars
  <1>12. CASE Next
    <2>1. CASE Purge
      BY <2>1, <1>9
    <2>2. CASE NextDay
      BY <2>2, <1>10
    <2>3. CASE \E d \in Deliveries :
                 \/ Deliver(d) \/ Start(d) \/ Finish(d) \/ Crash(d)
                 \/ OrderFetches(d) \/ OrderPublishes(d) \/ OrderCommits(d)
                 \/ ImportEnds(d)
                 \/ ProductFetches(d) \/ InventoryFetches(d)
                 \/ InventoryIgnored(d)
                 \/ ProductCommits(d) \/ ImportCommits(d)
                 \/ FulfillmentCommits(d)
                 \/ CheckoutReads(d) \/ CheckoutWrites(d)
                 \/ AccessAssembles(d) \/ AccessRecords(d) \/ Redact(d)
                 \/ Collect(d)
      BY <2>3, <1>1, <1>2, <1>3, <1>4, <1>5, <1>6, <1>7, <1>8
    <2> QED
      BY <1>12, <2>1, <2>2, <2>3, Zenon DEF Next
  <1> QED
    BY <1>11, <1>12

-----------------------------------------------------------------------------
(* What a step of Ingest does to the catalogue                             *)

(* Stored, and what it tells of not yet published.                         *)
Pending == {"waiting", "running", "fetched"}

(* A delivery that is not under way, or that the step leaves where it is.  *)
Bystander(d) == pc[d] \notin Pending \/ pc'[d] = pc[d]

(* A step in which no catalogue row moves: a delivery that waits may start.*)
CatalogueRests ==
    /\ UNCHANGED catalogueVars
    /\ \A d \in Edits :
         \/ Bystander(d)
         \/ pc[d] = "waiting" /\ pc'[d] = "running"
         \/ Kind(d) = "cost" /\ ~mayReadCost

TellsOfEdit(d) ==
    /\ pc[d] = "away" /\ pc' = [pc EXCEPT ![d] = "waiting"]
    /\ \/ Kind(d) = "price" /\ EditPrice(story[d].variant, story[d].value)
       \/ Kind(d) = "cost" /\ EditCost(story[d].variant, story[d].value)
       \/ Kind(d) = "withdraw" /\ WithdrawVariant(story[d].variant)

Fetches(d) ==
    /\ pc[d] = "running" /\ pc' = [pc EXCEPT ![d] = "fetched"]
    /\ \E vs \in SUBSET source.sold :
         /\ Hold(d, vs)
         /\ Kind(d) \in {"price", "withdraw"} => vs = source.sold
         /\ Kind(d) = "cost" => vs = {story[d].variant}

Commits(d) ==
    /\ pc[d] = "fetched"
    /\ \E to \in {"ready", "acted"} : pc' = [pc EXCEPT ![d] = to]
    /\ SyncProduct(d) \/ (Kind(d) = "import" /\ ImportProduct(d))

Dies(d) ==
    /\ pc[d] \in {"running", "fetched", "ready", "acted"}
    /\ pc' = [pc EXCEPT ![d] = IF d \in processed THEN "done" ELSE "waiting"]
    /\ ForgetSnapshot(d)

CatalogueStep ==
    \/ CatalogueRests
    \/ \E d \in Deliveries : TellsOfEdit(d) \/ Fetches(d) \/ Commits(d) \/ Dies(d)

LEMMA CatalogueSteps ==
    ASSUME TypeOK, [Next]_vars
    PROVE  CatalogueStep
  <1>0. pc \in [Deliveries -> Steps] /\ Edits \subseteq Deliveries
    BY DEF TypeOK, Edits, Told
  <1>1. ASSUME NEW d \in Deliveries, NEW from, NEW to, Moves(d, from, to),
               \/ from = "waiting" /\ to = "running"
               \/ from \notin Pending
               \/ d \notin Edits
               \/ Kind(d) = "cost" /\ ~mayReadCost,
               UNCHANGED catalogueVars
        PROVE  CatalogueStep
    <2>1. \A x \in Edits : \/ Bystander(x)
                           \/ pc[x] = "waiting" /\ pc'[x] = "running"
                           \/ Kind(x) = "cost" /\ ~mayReadCost
      BY <1>0, <1>1 DEF Moves, Bystander
    <2> QED
      BY <1>1, <2>1 DEF CatalogueStep, CatalogueRests
  <1>2. ASSUME UNCHANGED pc, UNCHANGED catalogueVars
        PROVE  CatalogueStep
    BY <1>2 DEF CatalogueStep, CatalogueRests, Bystander
  <1>3. ASSUME NEW d \in Deliveries, Kind(d) \notin {"price", "cost", "withdraw"}
        PROVE  d \notin Edits
    BY <1>3 DEF Edits, Told
  <1>4. ASSUME NEW d \in Deliveries, Deliver(d)
        PROVE  CatalogueStep
    <2>1. Moves(d, "away", "waiting") /\ Edited(d)
      BY <1>4 DEF Deliver
    <2>2. CASE Kind(d) \in {"price", "cost", "withdraw"}
      <3>1. TellsOfEdit(d)
        BY <2>1, <2>2 DEF Edited, TellsOfEdit, Moves
      <3> QED
        BY <3>1, Zenon DEF CatalogueStep
    <2>3. CASE Kind(d) \notin {"price", "cost", "withdraw"}
      <3>1. UNCHANGED catalogueVars
        BY <2>1, <2>3 DEF Edited
      <3> QED
        BY <1>1, <1>3, <2>1, <2>3, <3>1
    <2> QED
      BY <2>2, <2>3
  <1>5. ASSUME NEW d \in Deliveries, Start(d) PROVE CatalogueStep
    <2>1. Moves(d, "waiting", "running") /\ UNCHANGED catalogueVars
      BY <1>5 DEF Start
    <2> QED
      BY <1>1, <2>1
  <1>6. ASSUME NEW d \in Deliveries, Finish(d) PROVE CatalogueStep
    <2>1. Moves(d, "acted", "done") /\ UNCHANGED catalogueVars
      BY <1>6 DEF Finish
    <2> QED
      BY <1>1, <2>1 DEF Pending
  <1>7. ASSUME NEW d \in Deliveries, Crash(d) PROVE CatalogueStep
    <2>1. Dies(d)
      BY <1>7, Zenon DEF Crash, Dies
    <2> QED
      BY <2>1, Zenon DEF CatalogueStep
  <1>8. ASSUME NEW d \in Deliveries,
               OrderFetches(d) \/ ProductFetches(d) \/ InventoryFetches(d)
        PROVE  CatalogueStep
    <2>1. Fetches(d)
      <3>1. CASE OrderFetches(d)
        BY <3>1 DEF OrderFetches, HydrateOrder, Fetches, Step, Moves
      <3>2. CASE ProductFetches(d)
        BY <3>2 DEF ProductFetches, HydrateProduct, Fetches, Step, Moves
      <3>3. CASE InventoryFetches(d)
        <4>1. /\ Kind(d) = "cost" /\ story[d].variant \in source.sold
              /\ Hold(d, {story[d].variant})
              /\ pc[d] = "running" /\ pc' = [pc EXCEPT ![d] = "fetched"]
          BY <3>3 DEF InventoryFetches, HydrateInventory, Step, Moves
        <4>2. {story[d].variant} \in SUBSET source.sold
          BY <4>1
        <4> QED
          BY <4>1, <4>2 DEF Fetches
      <3> QED
        BY <1>8, <3>1, <3>2, <3>3
    <2> QED
      BY <2>1, Zenon DEF CatalogueStep
  <1>9. ASSUME NEW d \in Deliveries,
               OrderPublishes(d) \/ ProductCommits(d) \/ ImportCommits(d)
        PROVE  CatalogueStep
    <2>1. Commits(d)
      BY <1>9 DEF OrderPublishes, ProductCommits, ImportCommits, Commits,
                  Step, Moves
    <2> QED
      BY <2>1, Zenon DEF CatalogueStep
  <1>10. ASSUME NEW d \in Deliveries, InventoryIgnored(d) PROVE CatalogueStep
    <2>1. /\ Kind(d) = "cost" /\ ~mayReadCost /\ UNCHANGED catalogueVars
          /\ Moves(d, "running", "acted")
      BY <1>10 DEF InventoryIgnored, Step
    <2> QED
      BY <1>1, <2>1
  <1>11. ASSUME NEW d \in Deliveries,
                \/ OrderCommits(d) \/ ImportEnds(d) \/ FulfillmentCommits(d)
                \/ CheckoutReads(d) \/ CheckoutWrites(d) \/ AccessAssembles(d)
                \/ AccessRecords(d) \/ Redact(d)
         PROVE  CatalogueStep
    <2>1. /\ Kind(d) \notin {"price", "cost", "withdraw"}
          /\ UNCHANGED catalogueVars
          /\ \E from, to : Moves(d, from, to)
      <3>1. CASE OrderCommits(d)
        BY <3>1, Zenon DEF OrderCommits, Step
      <3>2. CASE \/ ImportEnds(d) \/ FulfillmentCommits(d) \/ CheckoutReads(d)
                 \/ CheckoutWrites(d) \/ AccessAssembles(d) \/ AccessRecords(d)
        BY <3>2 DEF ImportEnds, FulfillmentCommits, CheckoutReads,
                    CheckoutWrites, AccessAssembles, AccessRecords, Step
      <3>3. CASE Redact(d)
        <4>1. /\ Kind(d) = "redact" /\ Moves(d, "running", "acted")
              /\ UNCHANGED catalogueVars
          BY <3>3 DEF Redact
        <4> QED
          BY <4>1
      <3> QED
        BY <1>11, <3>1, <3>2, <3>3
    <2> QED
      BY <1>1, <1>3, <2>1
  <1>12. ASSUME (\E d \in Deliveries : Collect(d)) \/ Purge \/ NextDay
         PROVE  CatalogueStep
    <2>1. UNCHANGED pc /\ UNCHANGED catalogueVars
      BY <1>12 DEF Collect, Purge, NextDay, deliveryVars
    <2> QED
      BY <1>2, <2>1
  <1>13. CASE UNCHANGED vars
    <2>1. UNCHANGED pc /\ UNCHANGED catalogueVars
      BY <1>13 DEF vars, deliveryVars
    <2> QED
      BY <1>2, <2>1
  <1>14. CASE Next
    BY <1>4, <1>5, <1>6, <1>7, <1>8, <1>9, <1>10, <1>11, <1>12, <1>14 DEF Next
  <1> QED
    BY <1>13, <1>14

-----------------------------------------------------------------------------
(* Types                                                                   *)

Source == [clock : Clock, sold : SUBSET Variants,
           price : [Variants -> Prices], item : [Variants -> Item]]

LEMMA SourceTypes ==
    ASSUME TypeOK
    PROVE  /\ source \in Source /\ source.clock \in Clock
           /\ source.sold \subseteq Variants
           /\ source.price \in [Variants -> Prices]
           /\ source.item \in [Variants -> Item]
           /\ \A v \in Variants : /\ source.item[v].at \in Clock
                                  /\ source.item[v].cost \in Prices \cup {0}
  <1>1. source \in Source
    BY DEF TypeOK, CatalogueTypeOK, Source
  <1>2. source.item \in [Variants -> Item]
    BY <1>1 DEF Source
  <1>3. \A v \in Variants : source.item[v] \in Item
    BY <1>2
  <1> QED
    BY <1>1, <1>3 DEF Source, Item

LEMMA SnapTypes ==
    ASSUME TypeOK, NEW r \in Deliveries
    PROVE  /\ snap[r] \in Snapshot /\ snap[r].clock \in Clock
           /\ snap[r].of \subseteq Variants
           /\ snap[r].price \in [Variants -> Prices]
           /\ snap[r].item \in [Variants -> Item]
           /\ \A v \in Variants : /\ snap[r].item[v].at \in Clock
                                  /\ snap[r].item[v].cost \in Prices \cup {0}
  <1>1. snap[r] \in Snapshot
    BY IngestAssumption DEF TypeOK, CatalogueTypeOK
  <1>2. snap[r].item \in [Variants -> Item]
    BY <1>1 DEF Snapshot
  <1>3. \A v \in Variants : snap[r].item[v] \in Item
    BY <1>2
  <1> QED
    BY <1>1, <1>3 DEF Snapshot, Item

LEMMA RowTypes ==
    ASSUME TypeOK, NEW v \in Variants
    PROVE  /\ rows[v] \in Row /\ rows[v].price \in Prices \cup {0}
           /\ rows[v].cost \in Prices \cup {0} /\ rows[v].item \in Clock
           /\ rows[v].item \in Nat
           /\ facts[v] \subseteq [price : Prices, at : Clock]
  <1>1. /\ rows[v] \in Row
        /\ facts[v] \in SUBSET [price : Prices, at : Clock]
    BY DEF TypeOK, CatalogueTypeOK
  <1>2. rows[v].item \in Nat
    BY <1>1, CatalogueAssumption DEF Row, Clock
  <1> QED
    BY <1>1, <1>2 DEF Row

LEMMA NoAnswerIs ==
    /\ NoAnswer \in Snapshot /\ NoAnswer.clock = 0 /\ NoAnswer.of = {}
  <1>1. 0 \in Clock
    BY CatalogueAssumption DEF Clock
  <1> QED
    BY <1>1, FirstPrice DEF NoAnswer, Snapshot, Item

(* Each of Shopify's edits, field by field.                                *)
LEMMA EditPriceIs ==
    ASSUME TypeOK, NEW v \in Variants, NEW p \in Prices, EditPrice(v, p)
    PROVE  /\ source' \in Source /\ source'.clock = source.clock + 1
           /\ source'.sold = source.sold /\ source'.item = source.item
           /\ UNCHANGED <<mayReadCost, watermark, rows, facts, snap, undone>>
  <1>1. /\ source' = [source EXCEPT !.clock = source.clock + 1,
                                    !.price = [source.price EXCEPT ![v] = p]]
        /\ source.clock < MaxClock
        /\ UNCHANGED <<mayReadCost, watermark, rows, facts, snap, undone>>
    BY DEF EditPrice
  <1>2. source.clock + 1 \in Clock
    BY <1>1, SourceTypes, CatalogueAssumption DEF Clock
  <1>3. [source.price EXCEPT ![v] = p] \in [Variants -> Prices]
    BY SourceTypes
  <1> QED
    BY <1>1, <1>2, <1>3, SourceTypes DEF Source

LEMMA EditCostIs ==
    ASSUME TypeOK, NEW v \in Variants, NEW c \in Prices \cup {0}, EditCost(v, c)
    PROVE  /\ source' \in Source /\ source'.clock = source.clock
           /\ source'.sold = source.sold /\ source'.price = source.price
           /\ source'.item[v].at = source.item[v].at + 1
           /\ source'.item[v].cost = c
           /\ \A x \in Variants \ {v} : source'.item[x] = source.item[x]
           /\ UNCHANGED <<mayReadCost, watermark, rows, facts, snap, undone>>
  <1> DEFINE i == [at |-> source.item[v].at + 1, cost |-> c]
             f == [source.item EXCEPT ![v] = i]
  <1>1. /\ source' = [source EXCEPT !.item[v] = [at |-> @.at + 1, cost |-> c]]
        /\ source.item[v].at < MaxClock
        /\ UNCHANGED <<mayReadCost, watermark, rows, facts, snap, undone>>
    BY Zenon DEF EditCost
  <1>2. source' = [source EXCEPT !.item = f]
    BY <1>1, SourceTypes
  <1>3. i \in Item /\ i.at = source.item[v].at + 1 /\ i.cost = c
    <2>1. source.item[v].at + 1 \in Clock
      BY <1>1, SourceTypes, CatalogueAssumption DEF Clock
    <2> QED
      BY <2>1 DEF Item
  <1>4. /\ f \in [Variants -> Item] /\ f[v] = i
        /\ \A x \in Variants \ {v} : f[x] = source.item[x]
    <2> HIDE DEF i
    <2> QED
      BY <1>3, SourceTypes
  <1>5. /\ source' \in Source /\ source'.clock = source.clock
        /\ source'.sold = source.sold /\ source'.price = source.price
        /\ source'.item = f
    <2> HIDE DEF f
    <2> QED
      BY <1>2, <1>4, SourceTypes DEF Source
  <1> HIDE DEF f, i
  <1> QED
    BY <1>1, <1>3, <1>4, <1>5

LEMMA WithdrawVariantIs ==
    ASSUME TypeOK, NEW v \in Variants, WithdrawVariant(v)
    PROVE  /\ source' \in Source /\ source'.clock = source.clock + 1
           /\ source'.sold \subseteq source.sold /\ source'.item = source.item
           /\ UNCHANGED <<mayReadCost, watermark, rows, facts, snap, undone>>
  <1>1. /\ source' = [source EXCEPT !.clock = source.clock + 1,
                                    !.sold = source.sold \ {v}]
        /\ source.clock < MaxClock
        /\ UNCHANGED <<mayReadCost, watermark, rows, facts, snap, undone>>
    BY DEF WithdrawVariant
  <1>2. source.clock + 1 \in Clock
    BY <1>1, SourceTypes, CatalogueAssumption DEF Clock
  <1> QED
    BY <1>1, <1>2, SourceTypes DEF Source

(* An answer is the product as it is.                                      *)
LEMMA HoldIs ==
    ASSUME TypeOK, NEW d \in Deliveries, NEW vs \in SUBSET source.sold,
           Hold(d, vs)
    PROVE  /\ snap' \in [Readers -> Snapshot]
           /\ snap'[d].clock = source.clock /\ snap'[d].of = vs
           /\ snap'[d].price = source.price /\ snap'[d].item = source.item
           /\ \A x \in Deliveries \ {d} : snap'[x] = snap[x]
           /\ UNCHANGED <<mayReadCost, source, watermark, rows, facts, undone>>
  <1>1. /\ Answer(vs) \in Snapshot
        /\ Answer(vs).clock = source.clock /\ Answer(vs).of = vs
        /\ Answer(vs).price = source.price /\ Answer(vs).item = source.item
    BY SourceTypes DEF Answer, Snapshot
  <1>2. /\ snap' = [snap EXCEPT ![d] = Answer(vs)]
        /\ UNCHANGED <<mayReadCost, source, watermark, rows, facts, undone>>
    BY DEF Hold
  <1>3. snap \in [Readers -> Snapshot] /\ Readers = Deliveries
    BY IngestAssumption DEF TypeOK, CatalogueTypeOK
  <1> QED
    BY <1>1, <1>2, <1>3

LEMMA ClearedIs ==
    ASSUME TypeOK, NEW d \in Deliveries, snap' = Cleared(d)
    PROVE  /\ snap' \in [Readers -> Snapshot]
           /\ snap'[d] = NoAnswer
           /\ \A x \in Deliveries \ {d} : snap'[x] = snap[x]
  <1>1. snap \in [Readers -> Snapshot] /\ Readers = Deliveries
    BY IngestAssumption DEF TypeOK, CatalogueTypeOK
  <1> QED
    BY <1>1, NoAnswerIs DEF Cleared

(* What a commit of a snapshot s leaves of one variant.                    *)
Left(s, v) ==
    /\ rows'[v] \in Row /\ facts'[v] \in SUBSET [price : Prices, at : Clock]
    /\ v \notin s.of => rows'[v] = rows[v]
    /\ rows'[v].price = IF v \in s.of /\ Publishes(s) THEN s.price[v]
                        ELSE rows[v].price
    /\ \/ rows'[v].item = rows[v].item /\ rows'[v].cost = rows[v].cost
       \/ /\ v \in s.of /\ rows'[v].item = s.item[v].at
          /\ mayReadCost => rows'[v].cost = s.item[v].cost
          /\ PublishesItem(s, v) \/ v \in undone'
    /\ (v \in s.of /\ PublishesItem(s, v) /\ Publishes(s)) =>
          rows'[v].item = s.item[v].at
    /\ facts[v] \subseteq facts'[v]
    /\ (v \in s.of /\ Publishes(s)) =>
          \/ rows[v].price = s.price[v] /\ facts[v] # {}
          \/ \E f \in facts'[v] : f.price = s.price[v]

LEMMA RowWrites ==
    ASSUME NEW q \in Row, NEW p \in Prices \cup {0}, NEW i \in Clock,
           NEW c \in Prices \cup {0}
    PROVE  /\ [q EXCEPT !.price = p] \in Row
           /\ [q EXCEPT !.price = p].price = p
           /\ [q EXCEPT !.price = p].item = q.item
           /\ [q EXCEPT !.price = p].cost = q.cost
           /\ [q EXCEPT !.item = i, !.cost = c] \in Row
           /\ [q EXCEPT !.item = i, !.cost = c].price = q.price
           /\ [q EXCEPT !.item = i, !.cost = c].item = i
           /\ [q EXCEPT !.item = i, !.cost = c].cost = c
  BY DEF Row

LEMMA WithItemIs ==
    ASSUME TypeOK, NEW d \in Deliveries, NEW v \in Variants, NEW q \in Row,
           q.cost = rows[v].cost, q.item = rows[v].item
    PROVE  LET s == snap[d]
               w == WithItem(s, v, q)
           IN  /\ w \in Row /\ w.price = q.price
               /\ IF PublishesItem(s, v)
                  THEN /\ w.item = s.item[v].at
                       /\ mayReadCost => w.cost = s.item[v].cost
                  ELSE w.item = rows[v].item /\ w.cost = rows[v].cost
  <1> DEFINE s == snap[d]
             w == WithItem(s, v, q)
             c == IF mayReadCost THEN s.item[v].cost ELSE q.cost
  <1>1. s.item[v].at \in Clock /\ c \in Prices \cup {0}
    BY SnapTypes, RowTypes
  <1>2. CASE PublishesItem(s, v)
    <2>1. w = [q EXCEPT !.item = s.item[v].at, !.cost = c]
      BY <1>2 DEF WithItem
    <2> HIDE DEF w, c
    <2>2. /\ w \in Row /\ w.price = q.price /\ w.item = s.item[v].at
          /\ w.cost = c
      BY <1>1, <2>1 DEF Row
    <2> QED
      BY <1>2, <2>2 DEF w, c
  <1>3. CASE ~PublishesItem(s, v)
    BY <1>3 DEF WithItem
  <1> QED
    BY <1>2, <1>3

LEMMA FactTyped ==
    ASSUME TypeOK, NEW d \in Deliveries, NEW v \in Variants, NEW at \in Clock
    PROVE  /\ PriceFact(snap[d], v, at) \in SUBSET [price : Prices, at : Clock]
           /\ LateFact(snap[d], v) \in SUBSET [price : Prices, at : Clock]
           /\ \/ rows[v].price = snap[d].price[v] /\ facts[v] # {}
              \/ \E f \in PriceFact(snap[d], v, at) : f.price = snap[d].price[v]
  <1>1. snap[d].price[v] \in Prices /\ snap[d].clock \in Clock
    BY SnapTypes
  <1> DEFINE fact(t) == [price |-> snap[d].price[v], at |-> t]
  <1>2. \A t \in Clock : /\ {fact(t)} \in SUBSET [price : Prices, at : Clock]
                         /\ fact(t).price = snap[d].price[v]
    BY <1>1
  <1>3. /\ PriceFact(snap[d], v, at) =
             IF rows[v].price = snap[d].price[v] /\ facts[v] # {} THEN {}
             ELSE {fact(at)}
        /\ LateFact(snap[d], v) = IF rows[v].price = 0 THEN {}
                                  ELSE {fact(snap[d].clock)}
    BY DEF PriceFact, LateFact
  <1> HIDE DEF fact
  <1> QED
    BY <1>1, <1>2, <1>3

LEMMA SyncProductIs ==
    ASSUME TypeOK, NEW d \in Deliveries, SyncProduct(d)
    PROVE  /\ snap' = Cleared(d) /\ UNCHANGED <<mayReadCost, source, undone>>
           /\ watermark' = IF Publishes(snap[d]) THEN snap[d].clock ELSE watermark
           /\ rows' = [v \in Variants |-> rows'[v]]
           /\ facts' = [v \in Variants |-> facts'[v]]
           /\ \A v \in Variants :
                /\ Left(snap[d], v)
                /\ (/\ v \in snap[d].of /\ PublishesItem(snap[d], v)
                    /\ rows[v].price # 0) =>
                      rows'[v].item = snap[d].item[v].at
  <1> DEFINE s == snap[d]
  <1>1. /\ snap' = Cleared(d) /\ UNCHANGED <<mayReadCost, source, undone>>
        /\ watermark' = IF Publishes(s) THEN s.clock ELSE watermark
        /\ rows' = [v \in Variants |->
                      IF v \notin s.of THEN rows[v]
                      ELSE IF Publishes(s)
                      THEN WithItem(s, v, [rows[v] EXCEPT !.price = s.price[v]])
                      ELSE Late(s, v)]
        /\ facts' = [v \in Variants |->
                       IF v \notin s.of THEN facts[v]
                       ELSE facts[v] \cup (IF Publishes(s)
                                           THEN PriceFact(s, v, s.clock)
                                           ELSE LateFact(s, v))]
    <2>1. CASE Publishes(s)
      BY <2>1 DEF SyncProduct
    <2>2. CASE ~Publishes(s)
      BY <2>2 DEF SyncProduct
    <2> QED
      BY <2>1, <2>2
  <1>2. ASSUME NEW v \in Variants
        PROVE  /\ Left(s, v)
               /\ (v \in s.of /\ PublishesItem(s, v) /\ rows[v].price # 0) =>
                     rows'[v].item = s.item[v].at
    <2>1. CASE v \notin s.of
      <3>1. rows'[v] = rows[v] /\ facts'[v] = facts[v]
        BY <1>1, <2>1
      <3> QED
        BY <2>1, <3>1, RowTypes DEF Left
    <2>2. CASE v \in s.of /\ Publishes(s)
      <3> DEFINE q == [rows[v] EXCEPT !.price = s.price[v]]
      <3>1. /\ rows'[v] = WithItem(s, v, q)
            /\ facts'[v] = facts[v] \cup PriceFact(s, v, s.clock)
        BY <1>1, <2>2
      <3>2. /\ q \in Row /\ q.price = s.price[v]
            /\ q.cost = rows[v].cost /\ q.item = rows[v].item
        <4>1. rows[v] \in Row /\ s.price[v] \in Prices \cup {0}
          BY RowTypes, SnapTypes
        <4> QED
          BY <4>1 DEF Row
      <3> HIDE DEF q
      <3>3. /\ rows'[v] \in Row /\ rows'[v].price = s.price[v]
            /\ IF PublishesItem(s, v)
               THEN /\ rows'[v].item = s.item[v].at
                    /\ mayReadCost => rows'[v].cost = s.item[v].cost
               ELSE rows'[v].item = rows[v].item /\ rows'[v].cost = rows[v].cost
        BY <3>1, <3>2, WithItemIs
      <3>4. s.clock \in Clock
        BY SnapTypes
      <3>5. /\ facts'[v] \in SUBSET [price : Prices, at : Clock]
            /\ facts[v] \subseteq facts'[v]
            /\ \/ rows[v].price = s.price[v] /\ facts[v] # {}
               \/ \E f \in facts'[v] : f.price = s.price[v]
        <4>1. /\ PriceFact(s, v, s.clock) \in SUBSET [price : Prices, at : Clock]
              /\ \/ rows[v].price = s.price[v] /\ facts[v] # {}
                 \/ \E f \in PriceFact(s, v, s.clock) : f.price = s.price[v]
          BY <3>4, FactTyped
        <4>2. facts[v] \subseteq [price : Prices, at : Clock]
          BY RowTypes
        <4> HIDE DEF s
        <4> QED
          BY <3>1, <4>1, <4>2
      <3> HIDE DEF s
      <3> QED
        BY <2>2, <3>3, <3>5 DEF Left
    <2>3. CASE v \in s.of /\ ~Publishes(s)
      <3>1. /\ rows'[v] = Late(s, v)
            /\ facts'[v] = facts[v] \cup LateFact(s, v)
        BY <1>1, <2>3
      <3>2. /\ facts'[v] \in SUBSET [price : Prices, at : Clock]
            /\ facts[v] \subseteq facts'[v]
        <4>1. LateFact(s, v) \in SUBSET [price : Prices, at : Clock]
          BY SnapTypes, FactTyped
        <4>2. facts[v] \subseteq [price : Prices, at : Clock]
          BY RowTypes
        <4> HIDE DEF s
        <4> QED
          BY <3>1, <4>1, <4>2
      <3>3. CASE rows[v].price = 0
        <4>1. rows'[v] = rows[v]
          BY <3>1, <3>3 DEF Late
        <4>2. rows[v] \in Row
          BY RowTypes
        <4> HIDE DEF s
        <4> QED
          BY <2>3, <3>2, <3>3, <4>1, <4>2 DEF Left
      <3>4. CASE rows[v].price # 0
        <4>1. rows'[v] = WithItem(s, v, rows[v])
          BY <3>1, <3>4 DEF Late
        <4>2. /\ rows'[v] \in Row /\ rows'[v].price = rows[v].price
              /\ IF PublishesItem(s, v)
                 THEN /\ rows'[v].item = s.item[v].at
                      /\ mayReadCost => rows'[v].cost = s.item[v].cost
                 ELSE rows'[v].item = rows[v].item /\ rows'[v].cost = rows[v].cost
          BY <4>1, RowTypes, WithItemIs
        <4> HIDE DEF s
        <4> QED
          BY <2>3, <3>2, <4>2 DEF Left
      <3> QED
        BY <3>3, <3>4
    <2> QED
      BY <2>1, <2>2, <2>3
  <1>3. rows' = [v \in Variants |-> rows'[v]] /\ facts' = [v \in Variants |-> facts'[v]]
    BY <1>1
  <1> QED
    BY <1>1, <1>2, <1>3

LEMMA ImportProductIs ==
    ASSUME TypeOK, NEW d \in Deliveries, ImportProduct(d)
    PROVE  /\ snap' = Cleared(d) /\ UNCHANGED <<mayReadCost, source>>
           /\ watermark' = IF Publishes(snap[d]) THEN snap[d].clock ELSE watermark
           /\ rows' \in [Variants -> Row]
           /\ facts' \in [Variants -> SUBSET [price : Prices, at : Clock]]
           /\ undone \subseteq undone' /\ undone' \subseteq Variants
           /\ \A v \in Variants : Left(snap[d], v)
  <1> DEFINE s == snap[d]
             page(v) == [price |-> s.price[v], item |-> s.item[v].at,
                         cost |-> IF mayReadCost THEN s.item[v].cost
                                                 ELSE rows[v].cost]
  <1>1. snap' = Cleared(d) /\ UNCHANGED <<mayReadCost, source>>
    BY DEF ImportProduct
  <1>2. CASE ~Publishes(s)
    <2>1. UNCHANGED <<watermark, rows, facts, undone>>
      BY <1>2 DEF ImportProduct
    <2>2. ASSUME NEW v \in Variants PROVE Left(s, v)
      <3>1. rows'[v] = rows[v] /\ facts'[v] = facts[v]
        BY <2>1
      <3> QED
        BY <1>2, <3>1, RowTypes DEF Left
    <2> QED
      BY <1>1, <1>2, <2>1, <2>2 DEF TypeOK, CatalogueTypeOK
  <1>3. CASE Publishes(s)
    <2>1. /\ watermark' = s.clock
          /\ rows' = [v \in Variants |-> IF v \notin s.of THEN rows[v] ELSE page(v)]
          /\ facts' = [v \in Variants |->
                         IF v \in s.of
                         THEN facts[v] \cup PriceFact(s, v, source.clock)
                         ELSE facts[v]]
          /\ undone' = undone \cup {v \in s.of : s.item[v].at < rows[v].item}
      BY <1>3 DEF ImportProduct
    <2>2. undone \subseteq undone' /\ undone' \subseteq Variants
      BY <2>1, SnapTypes DEF TypeOK, CatalogueTypeOK
    <2>3. ASSUME NEW v \in Variants PROVE Left(s, v)
      <3>1. CASE v \notin s.of
        <4>1. rows'[v] = rows[v] /\ facts'[v] = facts[v]
          BY <2>1, <3>1
        <4> QED
          BY <3>1, <4>1, RowTypes DEF Left
      <3>2. CASE v \in s.of
        <4>1. /\ rows'[v] = page(v)
              /\ facts'[v] = facts[v] \cup PriceFact(s, v, source.clock)
          BY <2>1, <3>2
        <4>2. /\ page(v) \in Row /\ page(v).price = s.price[v]
              /\ page(v).item = s.item[v].at
              /\ mayReadCost => page(v).cost = s.item[v].cost
          <5>1. /\ s.price[v] \in Prices /\ s.item[v].at \in Clock
                /\ s.item[v].cost \in Prices \cup {0}
                /\ rows[v].cost \in Prices \cup {0}
            BY SnapTypes, RowTypes
          <5> QED
            BY <5>1 DEF Row
        <4>3. PublishesItem(s, v) \/ v \in undone'
          <5>1. s.item[v].at \in Nat /\ rows[v].item \in Nat
            BY SnapTypes, RowTypes, CatalogueAssumption DEF Clock
          <5> QED
            BY <2>1, <3>2, <5>1 DEF PublishesItem
        <4>4. source.clock \in Clock
          BY SourceTypes
        <4>5. /\ facts'[v] \in SUBSET [price : Prices, at : Clock]
              /\ facts[v] \subseteq facts'[v]
              /\ \/ rows[v].price = s.price[v] /\ facts[v] # {}
                 \/ \E f \in facts'[v] : f.price = s.price[v]
          <5>1. /\ PriceFact(s, v, source.clock)
                     \in SUBSET [price : Prices, at : Clock]
                /\ \/ rows[v].price = s.price[v] /\ facts[v] # {}
                   \/ \E f \in PriceFact(s, v, source.clock) : f.price = s.price[v]
            BY <4>4, FactTyped
          <5>2. facts[v] \subseteq [price : Prices, at : Clock]
            BY RowTypes
          <5> HIDE DEF s
          <5> QED
            BY <4>1, <5>1, <5>2
        <4> HIDE DEF s, page
        <4> QED
          BY <1>3, <3>2, <4>1, <4>2, <4>3, <4>5 DEF Left
      <3> QED
        BY <3>1, <3>2
    <2>4. \A v \in Variants :
            rows'[v] \in Row /\ facts'[v] \in SUBSET [price : Prices, at : Clock]
      BY <2>3 DEF Left
    <2>5. rows' = [v \in Variants |-> rows'[v]] /\ facts' = [v \in Variants |-> facts'[v]]
      BY <2>1
    <2>6. /\ rows' \in [Variants -> Row]
          /\ facts' \in [Variants -> SUBSET [price : Prices, at : Clock]]
      BY <2>4, <2>5
    <2> QED
      BY <1>1, <1>3, <2>1, <2>2, <2>3, <2>6
  <1> QED
    BY <1>2, <1>3

(* A commit of either kind, with the types of what it writes.              *)
LEMMA CommitsIs ==
    ASSUME TypeOK, NEW d \in Deliveries, Commits(d)
    PROVE  /\ snap' \in [Readers -> Snapshot]
           /\ snap[d] # NoAnswer /\ snap'[d] = NoAnswer
           /\ \A x \in Deliveries \ {d} : snap'[x] = snap[x]
           /\ UNCHANGED <<mayReadCost, source>>
           /\ watermark' = IF Publishes(snap[d]) THEN snap[d].clock ELSE watermark
           /\ rows' \in [Variants -> Row]
           /\ facts' \in [Variants -> SUBSET [price : Prices, at : Clock]]
           /\ undone \subseteq undone' /\ undone' \subseteq Variants
           /\ \A v \in Variants :
                /\ Left(snap[d], v)
                /\ (/\ Kind(d) # "import"
                    /\ v \in snap[d].of /\ PublishesItem(snap[d], v)
                    /\ rows[v].price # 0) =>
                      rows'[v].item = snap[d].item[v].at
  <1>1. CASE SyncProduct(d)
    <2>1. /\ snap' = Cleared(d) /\ UNCHANGED <<mayReadCost, source, undone>>
          /\ watermark' = IF Publishes(snap[d]) THEN snap[d].clock ELSE watermark
          /\ rows' = [v \in Variants |-> rows'[v]]
          /\ facts' = [v \in Variants |-> facts'[v]]
          /\ \A v \in Variants :
               /\ Left(snap[d], v)
               /\ (/\ v \in snap[d].of /\ PublishesItem(snap[d], v)
                   /\ rows[v].price # 0) =>
                     rows'[v].item = snap[d].item[v].at
      BY <1>1, SyncProductIs
    <2>2. \A v \in Variants :
            rows'[v] \in Row /\ facts'[v] \in SUBSET [price : Prices, at : Clock]
      BY <2>1 DEF Left
    <2>3. /\ rows' \in [Variants -> Row]
          /\ facts' \in [Variants -> SUBSET [price : Prices, at : Clock]]
      BY <2>1, <2>2
    <2>4. undone' \subseteq Variants
      BY <2>1 DEF TypeOK, CatalogueTypeOK
    <2>5. snap[d] # NoAnswer
      BY <1>1 DEF SyncProduct
    <2> QED
      BY <2>1, <2>3, <2>4, <2>5, ClearedIs
  <1>2. CASE Kind(d) = "import" /\ ImportProduct(d)
    <2>1. snap[d] # NoAnswer
      BY <1>2 DEF ImportProduct
    <2> QED
      BY <1>2, <2>1, ImportProductIs, ClearedIs
  <1> QED
    BY <1>1, <1>2 DEF Commits

LEMMA CatalogueTyped ==
    ASSUME TypeOK, CatalogueStep
    PROVE  CatalogueTypeOK'
  <1> USE DEF CatalogueTypeOK
  <1>0. /\ source \in Source /\ CatalogueTypeOK
        /\ source' \in Source <=> (source \in [clock : Clock, sold : SUBSET Variants,
                   price : [Variants -> Prices], item : [Variants -> Item]])'
    BY SourceTypes DEF TypeOK, Source
  <1>1. CASE UNCHANGED catalogueVars
    BY <1>0, <1>1 DEF catalogueVars
  <1>2. ASSUME NEW d \in Deliveries, TellsOfEdit(d)
        PROVE  CatalogueTypeOK'
    <2>1. /\ story[d] \in ProductPayload /\ Kind(d) = story[d].kind
      BY <1>2, StoryTypes DEF TellsOfEdit, Kind
    <2>2. /\ story[d].variant \in Variants /\ story[d].value \in Prices \cup {0}
          /\ Kind(d) = "price" => story[d].value \in Prices
      BY <2>1 DEF ProductPayload
    <2>3. /\ source' \in Source
          /\ UNCHANGED <<mayReadCost, watermark, rows, facts, snap, undone>>
      <3>1. CASE Kind(d) = "price" /\ EditPrice(story[d].variant, story[d].value)
        BY <2>2, <3>1, EditPriceIs
      <3>2. CASE Kind(d) = "cost" /\ EditCost(story[d].variant, story[d].value)
        BY <2>2, <3>2, EditCostIs
      <3>3. CASE Kind(d) = "withdraw" /\ WithdrawVariant(story[d].variant)
        BY <2>2, <3>3, WithdrawVariantIs
      <3> QED
        BY <1>2, <3>1, <3>2, <3>3 DEF TellsOfEdit
    <2> QED
      BY <1>0, <2>3
  <1>3. ASSUME NEW d \in Deliveries, Fetches(d)
        PROVE  CatalogueTypeOK'
    <2>1. PICK vs \in SUBSET source.sold : Hold(d, vs)
      BY <1>3 DEF Fetches
    <2> QED
      BY <1>0, <2>1, HoldIs
  <1>4. ASSUME NEW d \in Deliveries, Commits(d)
        PROVE  CatalogueTypeOK'
    <2>1. watermark' \in Clock
      BY <1>0, <1>4, SnapTypes, CommitsIs
    <2> QED
      BY <1>0, <1>4, <2>1, CommitsIs
  <1>5. ASSUME NEW d \in Deliveries, Dies(d)
        PROVE  CatalogueTypeOK'
    <2>1. /\ snap' = Cleared(d)
          /\ UNCHANGED <<mayReadCost, source, watermark, rows, facts, undone>>
      BY <1>5 DEF Dies, ForgetSnapshot
    <2> QED
      BY <1>0, <2>1, ClearedIs
  <1> HIDE DEF CatalogueTypeOK
  <1> QED
    BY <1>1, <1>2, <1>3, <1>4, <1>5 DEF CatalogueStep, CatalogueRests

LEMMA RowsTyped ==
    ASSUME TypeOK, RowStep
    PROVE  /\ order' \in [Orders -> Order]
           /\ \A s \in shipments' : s \in Shipment
           /\ customer' \in [Shoppers -> [at : Times, by : Orders \cup {0}]]
           /\ erased' \subseteq Shoppers /\ left' \subseteq Shoppers
  <1>0. /\ order \in [Orders -> Order]
        /\ \A s \in shipments : s \in Shipment
        /\ customer \in [Shoppers -> [at : Times, by : Orders \cup {0}]]
        /\ erased \subseteq Shoppers /\ left \subseteq Shoppers
    BY DEF TypeOK, BookTypeOK
  <1>1. CASE UNCHANGED rowVars
    BY <1>0, <1>1 DEF rowVars
  <1>2. ASSUME NEW d \in Deliveries, Kind(d) \in {"order", "page"},
               SyncOrder(Held(d).order, Held(d))
        PROVE  /\ order' \in [Orders -> Order] /\ shipments' = shipments
               /\ customer' \in [Shoppers -> [at : Times, by : Orders \cup {0}]]
               /\ erased' = erased /\ left' \subseteq Shoppers
    <2> DEFINE v == Held(d)
               o == v.order
    <2>1. v \in OrderPayload /\ o \in Orders
      BY <1>2, HeldTypes
    <2>2. SyncOrder(o, v)
      BY <1>2
    <2> HIDE DEF v, o
    <2>3. /\ shipments' = shipments /\ erased' = erased
          /\ \/ UNCHANGED <<order, customer, left>>
             \/ \E c, book : OrderWritten(o, v, c, book)
      BY <2>1, <2>2, SyncOrderWrites
    <2>4. CASE UNCHANGED <<order, customer, left>>
      BY <1>0, <2>3, <2>4
    <2>5. ASSUME NEW c, NEW book, OrderWritten(o, v, c, book)
          PROVE  /\ order' \in [Orders -> Order]
                 /\ customer' \in [Shoppers -> [at : Times, by : Orders \cup {0}]]
                 /\ left' \subseteq Shoppers
      <3>1. book \in [Orders -> Order] /\ c \in Shoppers \cup {NoOne}
        BY <2>5 DEF OrderWritten, Recorded
      <3>2. left' \subseteq Shoppers
        <4>1. order[o].who \in Shoppers \cup {NoOne}
          BY <1>0, <2>1, OrderTypes
        <4> QED
          BY <1>0, <2>5, <4>1 DEF OrderWritten
      <3>3. CASE c = NoOne
        BY <1>0, <2>5, <3>1, <3>2, <3>3 DEF OrderWritten
      <3>4. CASE c # NoOne
        <4>1. c \in Shoppers /\ Recorded(o, v, c, book)
          BY <2>5, <3>1, <3>4 DEF OrderWritten
        <4>2. Acquired(c, o, v.placed, book) \in [at : Times, by : Orders \cup {0}]
          BY <2>1, <4>1, AcquiredIs
        <4>3. /\ order' = Reconciled(book, c)
              /\ customer' = [customer EXCEPT ![c] = Acquired(c, o, v.placed, book)]
          BY <2>5, <3>4 DEF OrderWritten
        <4> QED
          BY <1>0, <3>1, <3>2, <4>2, <4>3, ReconciledIs
      <3> QED
        BY <3>3, <3>4
    <2> QED
      BY <2>3, <2>4, <2>5
  <1>3. ASSUME NEW d \in Deliveries, Kind(d) = "ship", SyncFulfillment(story[d])
        PROVE  /\ order' \in [Orders -> Order]
               /\ \A s \in shipments' : s \in Shipment
               /\ UNCHANGED <<customer, erased, left>>
    <2>1. /\ UNCHANGED <<customer, erased, left>>
          /\ \/ UNCHANGED <<order, shipments>>
             \/ \E q : ShipmentWritten(story[d], q)
      BY <1>3, StoryTypes, SyncFulfillmentWrites
    <2> QED
      BY <1>0, <2>1 DEF ShipmentWritten
  <1>4. ASSUME NEW d \in Deliveries, Kind(d) = "redact", Forget(story[d].who)
        PROVE  /\ order' \in [Orders -> Order] /\ UNCHANGED <<shipments, left>>
               /\ customer' \in [Shoppers -> [at : Times, by : Orders \cup {0}]]
               /\ erased' \subseteq Shoppers
    <2>1. story[d].who \in Shoppers
      BY <1>4, StoryTypes DEF CustomerPayload
    <2> QED
      BY <1>0, <1>4, <2>1, ForgetWrites
  <1>5. CASE ReconcileShop
    BY <1>0, <1>5, ReconcileShopWrites
  <1>6. CASE \E d \in Deliveries :
               \/ /\ Kind(d) \in {"order", "page"}
                  /\ SyncOrder(Held(d).order, Held(d))
               \/ Kind(d) = "ship" /\ SyncFulfillment(story[d])
               \/ Kind(d) = "redact" /\ Forget(story[d].who)
    <2>1. PICK d \in Deliveries :
               \/ /\ Kind(d) \in {"order", "page"}
                  /\ SyncOrder(Held(d).order, Held(d))
               \/ Kind(d) = "ship" /\ SyncFulfillment(story[d])
               \/ Kind(d) = "redact" /\ Forget(story[d].who)
      BY <1>6
    <2>2. CASE Kind(d) \in {"order", "page"} /\ SyncOrder(Held(d).order, Held(d))
      BY <1>0, <2>2, <1>2
    <2>3. CASE Kind(d) = "ship" /\ SyncFulfillment(story[d])
      BY <1>0, <2>3, <1>3
    <2>4. CASE Kind(d) = "redact" /\ Forget(story[d].who)
      BY <1>0, <2>4, <1>4
    <2> QED
      BY <2>1, <2>2, <2>3, <2>4
  <1> QED
    BY <1>1, <1>5, <1>6 DEF RowStep

LEMMA ExportWrites ==
    ASSUME NEW q \in Export, NEW who \in Shoppers \cup {NoOne},
           NEW which \in SUBSET Orders, NEW due \in Nat
    PROVE  /\ [for |-> who, orders |-> which, due |-> due,
               collected |-> q.collected] \in Export
           /\ [q EXCEPT !.collected = TRUE] \in Export
           /\ [q EXCEPT !.collected = TRUE].for = q.for
           /\ [q EXCEPT !.collected = TRUE].due = q.due
  BY DEF Export

(* What recordDataRequest leaves in the export of its delivery.            *)
LEMMA RecordedExport ==
    ASSUME TypeOK, NEW d \in Deliveries, NEW c \in Shoppers,
           RecordDataRequest(d, c, report[d], received[d])
    PROVE  /\ exports' \in [Requests -> Export]
           /\ exports'[d].for = IF c \in erased THEN NoOne ELSE c
           /\ exports'[d].due = IF exports[d].due = 0 THEN received[d] + Term
                                ELSE exports[d].due
           /\ \A x \in Deliveries \ {d} : exports'[x] = exports[x]
           /\ UNCHANGED <<order, shipments, customer, erased, left, day>>
  <1> DEFINE who == IF c \in erased THEN NoOne ELSE c
             which == IF c \in erased THEN {} ELSE report[d]
             due == IF exports[d].due = 0 THEN received[d] + Term
                                          ELSE exports[d].due
             q == [for |-> who, orders |-> which, due |-> due,
                   collected |-> exports[d].collected]
  <1>1. exports \in [Requests -> Export] /\ d \in Requests
    BY IngestAssumption DEF TypeOK, BookTypeOK
  <1>2. /\ exports' = [exports EXCEPT ![d] =
                         [for |-> IF c \in erased THEN NoOne ELSE c,
                          orders |-> IF c \in erased THEN {} ELSE report[d],
                          due |-> due, collected |-> @.collected]]
        /\ UNCHANGED <<order, shipments, customer, erased, left, day>>
    BY Zenon DEF RecordDataRequest
  <1>3. exports' = [exports EXCEPT ![d] = q]
    BY <1>1, <1>2
  <1>4. who \in Shoppers \cup {NoOne} /\ which \in SUBSET Orders /\ due \in Nat
    <2>1. received[d] \in 0..MaxDay /\ report[d] \in SUBSET Orders
      BY DEF TypeOK
    <2>2. received[d] + Term \in Nat
      BY <2>1, OrderBookAssumption
    <2>3. exports[d].due \in Nat
      BY <1>1 DEF Export
    <2> QED
      BY <2>1, <2>2, <2>3
  <1>5. exports[d] \in Export
    BY <1>1
  <1>6. q \in Export /\ q.for = who /\ q.due = due
    <2> HIDE DEF who, which, due
    <2> QED
      BY <1>4, <1>5, ExportWrites
  <1> HIDE DEF q
  <1>7. /\ exports' \in [Requests -> Export] /\ exports'[d] = q
        /\ \A x \in Deliveries \ {d} : exports'[x] = exports[x]
    BY <1>1, <1>3, <1>6, IngestAssumption
  <1> QED
    BY <1>2, <1>6, <1>7

(* The term of an export, and whom it names, after a step.                 *)
LEMMA ExportsTyped ==
    ASSUME TypeOK, ExportStep
    PROVE  exports' \in [Requests -> Export]
  <1>0. exports \in [Requests -> Export] /\ Requests = Deliveries
    BY IngestAssumption DEF TypeOK, BookTypeOK
  <1>1. ASSUME NEW d \in Deliveries, Kind(d) = "redact", Forget(story[d].who)
        PROVE  exports' \in [Requests -> Export]
    <2>1. story[d].who \in Shoppers
      BY <1>1, StoryTypes DEF CustomerPayload
    <2> QED
      BY <1>1, <2>1, ForgetWrites
  <1>2. ASSUME NEW d \in Deliveries, Kind(d) = "access",
               RecordDataRequest(d, story[d].who, report[d], received[d])
        PROVE  exports' \in [Requests -> Export]
    <2>1. story[d].who \in Shoppers
      BY <1>2, StoryTypes DEF CustomerPayload
    <2> QED
      BY <1>2, <2>1, RecordedExport
  <1>3. ASSUME NEW d \in Deliveries, CollectDataRequest(d)
        PROVE  exports' \in [Requests -> Export]
    <2>1. exports' = [exports EXCEPT ![d] = [exports[d] EXCEPT !.collected = TRUE]]
      BY <1>3 DEF CollectDataRequest
    <2>2. [exports[d] EXCEPT !.collected = TRUE] \in Export
      BY <1>0 DEF Export
    <2> QED
      BY <1>0, <2>1, <2>2
  <1>4. CASE PurgeExpiredDataRequests
    <2>1. NoExport \in Export
      BY DEF NoExport, Export
    <2> QED
      BY <1>0, <1>4, <2>1 DEF PurgeExpiredDataRequests
  <1>5. CASE UNCHANGED exports
    BY <1>0, <1>5
  <1> QED
    BY <1>1, <1>2, <1>3, <1>4, <1>5, Zenon DEF ExportStep

-----------------------------------------------------------------------------
(* What a step does to the deliveries                                      *)

DeliveryTypeOK ==
    /\ Tellable(story)
    /\ pc \in [Deliveries -> Steps]
    /\ stored \in [Deliveries -> Payloads]
    /\ held \in [Deliveries -> Payloads]
    /\ processed \subseteq Deliveries
    /\ received \in [Deliveries -> 0..MaxDay]
    /\ report \in [Deliveries -> SUBSET Orders]
    /\ checkout \in Times
    /\ crashes \in 0..MaxCrashes

LEMMA DeliveriesTyped ==
    ASSUME TypeOK, [Next]_vars
    PROVE  DeliveryTypeOK'
  <1> USE DEF Steps, Payloads, Moves, Step, DeliveryTypeOK
  <1>0. DeliveryTypeOK /\ day \in 0..MaxDay
    BY DEF TypeOK, BookTypeOK
  <1>1. ASSUME UNCHANGED deliveryVars PROVE DeliveryTypeOK'
    BY <1>0, <1>1 DEF deliveryVars
  <1>2. ASSUME NEW d \in Deliveries, NEW from, NEW to \in Steps, Step(d, from, to)
        PROVE  DeliveryTypeOK'
    BY <1>0, <1>2
  <1>3. ASSUME NEW d \in Deliveries, Deliver(d) PROVE DeliveryTypeOK'
    <2>1. stored' \in [Deliveries -> Payloads]
      BY <1>0, <1>3 DEF Deliver
    <2>2. /\ pc' \in [Deliveries -> Steps]
          /\ received' \in [Deliveries -> 0..MaxDay]
          /\ UNCHANGED <<story, held, processed, report, checkout, crashes>>
      BY <1>0, <1>3 DEF Deliver
    <2> QED
      BY <1>0, <2>1, <2>2
  <1>4. ASSUME NEW d \in Deliveries, Start(d) PROVE DeliveryTypeOK'
    <2>1. held' \in [Deliveries -> Payloads]
      <3>1. stored[d] \in Payloads /\ "full" \in Payloads
        BY <1>0
      <3> QED
        BY <1>0, <1>4, <3>1 DEF Start
    <2>2. /\ pc' \in [Deliveries -> Steps]
          /\ UNCHANGED <<story, stored, processed, received, report, checkout,
                         crashes>>
      BY <1>0, <1>4 DEF Start
    <2> QED
      BY <1>0, <2>1, <2>2
  <1>5. ASSUME NEW d \in Deliveries, Finish(d) PROVE DeliveryTypeOK'
    BY <1>0, <1>5 DEF Finish
  <1>6. ASSUME NEW d \in Deliveries, Crash(d) PROVE DeliveryTypeOK'
    <2>1. crashes' \in 0..MaxCrashes
      BY <1>0, <1>6, IngestAssumption DEF Crash
    <2>2. /\ pc' \in [Deliveries -> Steps]
          /\ held' \in [Deliveries -> Payloads]
          /\ report' \in [Deliveries -> SUBSET Orders]
          /\ UNCHANGED <<story, stored, processed, received, checkout>>
      BY <1>0, <1>6 DEF Crash
    <2> QED
      BY <1>0, <2>1, <2>2
  <1>7. ASSUME NEW d \in Deliveries,
               \/ OrderFetches(d) \/ OrderPublishes(d) \/ OrderCommits(d)
               \/ ImportEnds(d)
               \/ ProductFetches(d) \/ InventoryFetches(d) \/ InventoryIgnored(d)
               \/ ProductCommits(d) \/ ImportCommits(d)
               \/ FulfillmentCommits(d) \/ CheckoutReads(d) \/ AccessRecords(d)
        PROVE  DeliveryTypeOK'
    <2>1. \E from, to : to \in Steps /\ Step(d, from, to)
      <3> HIDE DEF Step, Moves, DeliveryTypeOK
      <3>1. CASE CheckoutReads(d)
        BY <3>1 DEF CheckoutReads
      <3>2. CASE OrderCommits(d)
        <4>1. Step(d, IF Kind(d) = "order" /\ Held(d).lines # {} THEN "ready"
                      ELSE "running", "acted")
          BY <3>2, Zenon DEF OrderCommits
        <4> QED
          BY <4>1
      <3> QED
        BY <1>7, <3>1, <3>2
           DEF OrderFetches, OrderPublishes, ImportEnds, ProductFetches,
               InventoryFetches, InventoryIgnored, ProductCommits, ImportCommits,
               FulfillmentCommits, AccessRecords
    <2> HIDE DEF Step, DeliveryTypeOK
    <2> QED
      BY <1>2, <2>1
  <1>8. ASSUME NEW d \in Deliveries, CheckoutWrites(d) PROVE DeliveryTypeOK'
    <2>1. checkout' \in Times
      BY <1>8, StoryTypes DEF CheckoutWrites, CheckoutPayload
    <2>2. /\ pc' \in [Deliveries -> Steps]
          /\ UNCHANGED <<story, stored, held, processed, received, report, crashes>>
      BY <1>0, <1>8 DEF CheckoutWrites
    <2> QED
      BY <1>0, <2>1, <2>2
  <1>9. ASSUME NEW d \in Deliveries, AccessAssembles(d) PROVE DeliveryTypeOK'
    <2>1. Assembled(story[d].who) \in SUBSET Orders
      BY DEF Assembled, OrdersOf
    <2>2. /\ pc' \in [Deliveries -> Steps]
          /\ report' = [report EXCEPT ![d] = Assembled(story[d].who)]
          /\ UNCHANGED <<story, stored, held, processed, received, checkout,
                         crashes>>
      BY <1>0, <1>9 DEF AccessAssembles
    <2> QED
      BY <1>0, <2>1, <2>2
  <1>10. ASSUME NEW d \in Deliveries, Redact(d) PROVE DeliveryTypeOK'
    <2> DEFINE c == story[d].who
               others == {x \in Deliveries \ {d} : Names(x, c)}
               orders == {x \in others : Kind(x) = "order"}
    <2>1. /\ stored' = [x \in Deliveries |->
                          IF x \in orders THEN "scrubbed"
                          ELSE IF x \in others THEN "none" ELSE stored[x]]
          /\ processed' = processed \cup (others \ orders)
          /\ pc' = [pc EXCEPT ![d] = "acted"]
          /\ UNCHANGED <<story, held, received, report, checkout, crashes>>
      BY <1>10, Zenon DEF Redact
    <2>2. others \subseteq Deliveries
      OBVIOUS
    <2> HIDE DEF others, orders
    <2>3. stored' \in [Deliveries -> Payloads]
      BY <1>0, <2>1
    <2>4. processed' \subseteq Deliveries /\ pc' \in [Deliveries -> Steps]
      BY <1>0, <2>1, <2>2
    <2> QED
      BY <1>0, <2>1, <2>3, <2>4
  <1> HIDE DEF DeliveryTypeOK, Step, Moves
  <1>11. CASE (\E d \in Deliveries : Collect(d)) \/ Purge \/ NextDay
    BY <1>1, <1>11 DEF Collect, Purge, NextDay
  <1>12. CASE UNCHANGED vars
    <2>1. UNCHANGED deliveryVars
      BY <1>12, Zenon DEF vars
    <2> QED
      BY <1>1, <2>1
  <1>13. CASE Next
    BY <1>3, <1>4, <1>5, <1>6, <1>7, <1>8, <1>9, <1>10, <1>11, <1>13 DEF Next
  <1> QED
    BY <1>12, <1>13

-----------------------------------------------------------------------------
(* Type correctness                                                        *)

LEMMA InitTyped == Init => TypeOK
  <1> SUFFICES ASSUME Init PROVE TypeOK
    OBVIOUS
  <1>1. PICK s \in Stories : /\ story = s.tells
                             /\ BookInit(s.legacy)
                             /\ CatalogueInit(s.copied, s.costs)
    BY Zenon DEF Init
  <1>2. /\ Tellable(s.tells) /\ s.legacy \in SUBSET Orders
        /\ s.copied \in BOOLEAN /\ s.costs \in BOOLEAN
    BY IngestAssumption
  <1>3. BookTypeOK
    <2> DEFINE old == [NoOrder EXCEPT !.placed = 1, !.header = "fulfilled"]
    <2>1. NoOrder \in Order /\ old \in Order
      <3>1. NoOrder \in Order
        BY DEF NoOrder, Order, Times, Statuses
      <3>2. 1 \in Times /\ "fulfilled" \in Statuses
        BY DEF Times, Statuses
      <3> QED
        BY <3>1, <3>2 DEF Order
    <2>2. order \in [Orders -> Order]
      <3>1. order = [o \in Orders |-> IF o \in s.legacy THEN old ELSE NoOrder]
        BY <1>1, Zenon DEF BookInit
      <3> HIDE DEF old
      <3> QED
        BY <2>1, <3>1
    <2>3. \A x \in shipments : x \in Shipment
      <3>1. shipments = {[ship |-> NoShip, order |-> o, created |-> 1,
                          at |-> 0, live |-> TRUE] : o \in s.legacy}
        BY <1>1, Zenon DEF BookInit
      <3>2. \A o \in Orders : [ship |-> NoShip, order |-> o, created |-> 1,
                               at |-> 0, live |-> TRUE] \in Shipment
        BY DEF Shipment, Times
      <3> QED
        BY <1>2, <3>1, <3>2
    <2>4. customer \in [Shoppers -> [at : Times, by : Orders \cup {0}]]
      BY <1>1 DEF BookInit, Times
    <2>5. NoExport \in Export
      BY DEF NoExport, Export
    <2>6. exports \in [Requests -> Export] /\ erased = {} /\ left = {} /\ day = 0
      BY <1>1, <2>5 DEF BookInit
    <2> QED
      BY <2>2, <2>3, <2>4, <2>6, OrderBookAssumption DEF BookTypeOK
  <1>4. CatalogueTypeOK
    <2> DEFINE first == Min(Prices)
    <2>1. first \in Prices /\ 0 \in Clock /\ 1 \in Clock
      BY FirstPrice, CatalogueAssumption DEF Clock
    <2>2. /\ mayReadCost = s.costs
          /\ source = [clock |-> 1, sold |-> Variants,
                       price |-> [v \in Variants |-> first],
                       item  |-> [v \in Variants |-> [at |-> 1, cost |-> first]]]
          /\ watermark = IF s.copied THEN 1 ELSE 0
          /\ rows = [v \in Variants |->
                       IF s.copied
                       THEN [price |-> first, item |-> 1,
                             cost |-> IF mayReadCost THEN first ELSE 0]
                       ELSE NoRow]
          /\ facts = [v \in Variants |->
                        IF s.copied THEN {[price |-> first, at |-> 1]} ELSE {}]
          /\ snap = [r \in Readers |-> NoAnswer]
          /\ undone = {}
      BY <1>1, Zenon DEF CatalogueInit
    <2> HIDE DEF first
    <2>3. source \in [clock : Clock, sold : SUBSET Variants,
                      price : [Variants -> Prices], item : [Variants -> Item]]
      BY <2>1, <2>2 DEF Item
    <2>4. rows \in [Variants -> Row]
      <3>1. NoRow \in Row
        BY <2>1 DEF NoRow, Row
      <3>2. [price |-> first, item |-> 1,
             cost |-> IF mayReadCost THEN first ELSE 0] \in Row
        BY <2>1 DEF Row
      <3> QED
        BY <2>2, <3>1, <3>2
    <2>5. facts \in [Variants -> SUBSET [price : Prices, at : Clock]]
      <3>1. {[price |-> first, at |-> 1]} \in SUBSET [price : Prices, at : Clock]
        BY <2>1
      <3> QED
        BY <2>2, <3>1
    <2> QED
      BY <1>2, <2>1, <2>2, <2>3, <2>4, <2>5, NoAnswerIs DEF CatalogueTypeOK
  <1>5. DeliveryTypeOK
    BY <1>1, <1>2, IngestAssumption, OrderBookAssumption
       DEF DeliveryTypeOK, Init, Steps, Payloads, Times
  <1> QED
    BY <1>3, <1>4, <1>5 DEF TypeOK, DeliveryTypeOK

(* Every column keeps its type: orders, shipments and exports, the copy of *)
(* the product and the answers that runs hold, and the deliveries.         *)
LEMMA TypesKept == TypeOK /\ [Next]_vars => TypeOK'
  <1> SUFFICES ASSUME TypeOK, [Next]_vars PROVE TypeOK'
    OBVIOUS
  <1>1. BookTypeOK'
    <2>1. day' \in 0..MaxDay
      BY BookSteps, OrderBookAssumption DEF TypeOK, BookTypeOK
    <2> QED
      BY <2>1, BookSteps, RowsTyped, ExportsTyped DEF BookTypeOK
  <1>2. CatalogueTypeOK'
    BY CatalogueSteps, CatalogueTyped
  <1>3. DeliveryTypeOK'
    BY DeliveriesTyped
  <1> QED
    BY <1>1, <1>2, <1>3 DEF TypeOK, DeliveryTypeOK

(* In every state of every story the tables, the payloads in hand and the  *)
(* copy of the product are what the schema lets them be.                   *)
THEOREM TypeCorrect == Spec => []TypeOK
  BY InitTyped, TypesKept, PTL DEF Spec

-----------------------------------------------------------------------------
(* The inductive invariants                                                *)

(* An order in a shopper's name is stored, and the shopper has a row.      *)
NamedOrders ==
    \A o \in Orders : order[o].who # NoOne =>
        order[o].placed # 0 /\ customer[order[o].who].at # 0

(* A term is of the day the request came, which it can no longer change.   *)
TermInv ==
    \A d \in Deliveries : /\ exports[d].due \in {0, received[d] + Term}
                          /\ pc[d] = "away" => exports[d].due = 0

PrivacyInv == NamedOrders /\ NothingOfTheErased /\ TermInv

(* A shipment with an id came by a delivery that tells its order.          *)
ShipInv ==
    \A s \in shipments : s.ship # NoShip =>
        \E d \in Deliveries : /\ Kind(d) = "ship" /\ story[d].ship = s.ship
                              /\ story[d].order = s.order

(* Answers are of the past of the product, and a later one is later in     *)
(* each of its items.                                                      *)
SnapInv ==
    /\ source.clock >= 1 /\ watermark <= source.clock
    /\ \A d \in Deliveries : snap[d] # NoAnswer =>
         /\ snap[d].clock \in 1..source.clock
         /\ snap[d].clock = source.clock => snap[d].price = source.price
         /\ \A v \in Variants :
              /\ snap[d].item[v].at <= source.item[v].at
              /\ snap[d].item[v].at = source.item[v].at =>
                   snap[d].item[v].cost = source.item[v].cost
         /\ \A e \in Deliveries :
              (snap[e] # NoAnswer /\ snap[d].clock < snap[e].clock) =>
                 \A v \in Variants : snap[d].item[v].at <= snap[e].item[v].at

(* The delivery of an edit is not over before it is done.                  *)
EditsInv == \A d \in Edits : d \in processed => pc[d] = "done"

(* A delivery on its way that will make the prices what they are.          *)
PriceIsComing(d) ==
    /\ Kind(d) \in {"price", "withdraw"} /\ pc[d] \in Pending
    /\ pc[d] = "fetched" => /\ snap[d] # NoAnswer
                            /\ snap[d].clock = source.clock
                            /\ snap[d].of = source.sold

PriceInv ==
    \/ \E d \in Deliveries : PriceIsComing(d)
    \/ /\ watermark = source.clock \/ source.clock = 1
       /\ \A v \in source.sold : rows[v].price \in {0, source.price[v]}

CostIsComing(d, v) ==
    /\ Kind(d) = "cost" /\ story[d].variant = v /\ pc[d] \in Pending
    /\ pc[d] = "fetched" => /\ snap[d] # NoAnswer /\ v \in snap[d].of
                            /\ snap[d].item[v].at = source.item[v].at

(* A variant without a row gets its first from an answer that knows the    *)
(* item as it is.                                                          *)
CostWillCome(v) ==
    /\ rows[v].price = 0
    /\ \A d \in Deliveries :
         (snap[d] # NoAnswer /\ v \in snap[d].of /\ Publishes(snap[d])) =>
            snap[d].item[v].at = source.item[v].at

CostInv ==
    \A v \in Variants :
       /\ rows[v].item <= source.item[v].at
       /\ mayReadCost =>
            /\ rows[v].item = source.item[v].at =>
                 rows[v].cost = source.item[v].cost
            /\ \/ \E d \in Deliveries : CostIsComing(d, v)
               \/ rows[v].item = source.item[v].at
               \/ v \in undone
               \/ CostWillCome(v)

CatalogueInv == SnapInv /\ EditsInv /\ PriceInv /\ CostInv /\ CurrentPriceIsAFact

(* The rows of an order keep their shopper and their date, or one order    *)
(* becomes that of a shopper who has a row and is not erased.              *)
LEMMA SyncOrderNames ==
    ASSUME TypeOK, NamedOrders, NEW o \in Orders, NEW v \in OrderPayload,
           SyncOrder(o, v)
    PROVE  /\ NamedOrders' /\ UNCHANGED erased
           /\ \A x \in Orders : \/ order'[x].who = order[x].who
                                \/ order'[x].who \notin erased
           /\ \A c \in erased : customer'[c] = customer[c]
  <1>1. /\ UNCHANGED erased
        /\ \/ UNCHANGED <<order, customer, left>>
           \/ \E c, book : OrderWritten(o, v, c, book)
    BY SyncOrderWrites
  <1>2. CASE UNCHANGED <<order, customer, left>>
    BY <1>1, <1>2 DEF NamedOrders
  <1>3. ASSUME NEW c, NEW book, OrderWritten(o, v, c, book)
        PROVE  /\ NamedOrders'
               /\ \A x \in Orders : \/ order'[x].who = order[x].who
                                    \/ order'[x].who \notin erased
               /\ \A x \in erased : customer'[x] = customer[x]
    <2>1. /\ c \in Shoppers \cup {NoOne} /\ c \notin erased
          /\ Recorded(o, v, c, book)
      BY <1>3, OrderBookAssumption
         DEF OrderWritten, Known, TypeOK, BookTypeOK
    <2>2. /\ book \in [Orders -> Order] /\ book[o].who = c
          /\ book[o].placed # 0
          /\ \A x \in Orders \ {o} : book[x] = order[x]
      BY <2>1 DEF Recorded, OrderPayload
    <2>3. \A x \in Orders : /\ order'[x].who = book[x].who
                            /\ order'[x].placed = book[x].placed
      <3>1. CASE c = NoOne
        BY <1>3, <3>1 DEF OrderWritten
      <3>2. CASE c # NoOne
        <4>1. order' = Reconciled(book, c)
          BY <1>3, <3>2 DEF OrderWritten
        <4>2. SameBut(c, Reconciled(book, c), book)
          BY <2>2, ReconciledIs
        <4> QED
          BY <4>1, <4>2 DEF SameBut
      <3> QED
        BY <3>1, <3>2
    <2>4. /\ c # NoOne => customer'[c].at # 0
          /\ \A x \in Shoppers \ {c} : customer'[x] = customer[x]
      <3>1. CASE c = NoOne
        BY <1>3, <3>1 DEF OrderWritten
      <3>2. CASE c # NoOne
        <4>1. c \in Shoppers
          BY <2>1, <3>2
        <4>2. customer' = [customer EXCEPT ![c] = Acquired(c, o, v.placed, book)]
          BY <1>3, <3>2 DEF OrderWritten
        <4>3. Acquired(c, o, v.placed, book).at # 0
          BY <2>1, <4>1, AcquiredIs
        <4>4. customer \in [Shoppers -> [at : Times, by : Orders \cup {0}]]
          BY DEF TypeOK, BookTypeOK
        <4> QED
          BY <3>2, <4>1, <4>2, <4>3, <4>4
      <3> QED
        BY <3>1, <3>2
    <2>5. \A x \in Orders : order[x].who \in Shoppers \cup {NoOne}
      BY OrderTypes DEF TypeOK, BookTypeOK
    <2>6. ASSUME NEW x \in Orders, order'[x].who # NoOne
          PROVE  order'[x].placed # 0 /\ customer'[order'[x].who].at # 0
      <3>1. CASE x = o
        BY <2>2, <2>3, <2>4, <2>6, <3>1
      <3>2. CASE x # o
        <4>1. order'[x].who = order[x].who /\ order'[x].placed = order[x].placed
          BY <2>2, <2>3, <3>2
        <4>2. order[x].placed # 0 /\ customer[order[x].who].at # 0
          BY <2>6, <4>1 DEF NamedOrders
        <4> QED
          BY <2>4, <2>5, <2>6, <4>1, <4>2
      <3> QED
        BY <3>1, <3>2
    <2>7. erased \subseteq Shoppers
      BY DEF TypeOK, BookTypeOK
    <2>8. \A x \in erased : customer'[x] = customer[x]
      BY <2>1, <2>4, <2>7
    <2>9. \A x \in Orders : \/ order'[x].who = order[x].who
                            \/ order'[x].who \notin erased
      BY <2>1, <2>2, <2>3
    <2> QED
      BY <2>6, <2>8, <2>9 DEF NamedOrders
  <1> QED
    BY <1>1, <1>2, <1>3

(* Which orders name whom, after a step on the rows.                       *)
LEMMA RowsNamed ==
    ASSUME TypeOK, NamedOrders, RowStep,
           \A c \in erased : /\ customer[c].at = 0
                             /\ \A o \in Orders : order[o].who # c
    PROVE  /\ NamedOrders'
           /\ \A c \in erased' : /\ customer'[c].at = 0
                                 /\ \A o \in Orders : order'[o].who # c
           /\ \/ UNCHANGED erased
              \/ \E d \in Deliveries : Kind(d) = "redact" /\ Forget(story[d].who)
  <1> DEFINE gone == \A c \in erased : /\ customer[c].at = 0
                                       /\ \A o \in Orders : order[o].who # c
  <1>0. gone
    OBVIOUS
  <1>1. CASE UNCHANGED rowVars
    BY <1>0, <1>1 DEF rowVars, NamedOrders
  <1>2. ASSUME NEW d \in Deliveries, Kind(d) \in {"order", "page"},
               SyncOrder(Held(d).order, Held(d))
        PROVE  NamedOrders' /\ gone' /\ UNCHANGED erased
    <2> DEFINE v == Held(d)
               o == v.order
    <2>1. v \in OrderPayload /\ o \in Orders /\ SyncOrder(o, v)
      BY <1>2, HeldTypes
    <2> HIDE DEF v, o
    <2>2. /\ NamedOrders' /\ UNCHANGED erased
          /\ \A x \in Orders : \/ order'[x].who = order[x].who
                               \/ order'[x].who \notin erased
          /\ \A c \in erased : customer'[c] = customer[c]
      BY <2>1, SyncOrderNames
    <2> QED
      BY <1>0, <2>2
  <1>3. ASSUME NEW d \in Deliveries, Kind(d) = "ship", SyncFulfillment(story[d])
        PROVE  NamedOrders' /\ gone' /\ UNCHANGED erased
    <2>1. story[d] \in FulfillmentPayload
      BY <1>3, StoryTypes
    <2>2. /\ UNCHANGED <<customer, erased>>
          /\ \A x \in Orders : /\ order'[x].who = order[x].who
                               /\ order'[x].placed = order[x].placed
      BY <1>3, <2>1, SyncFulfillmentWrites DEF ShipmentWritten
    <2> QED
      BY <1>0, <2>2 DEF NamedOrders
  <1>4. ASSUME NEW d \in Deliveries, Kind(d) = "redact", Forget(story[d].who)
        PROVE  NamedOrders' /\ gone'
    <2> DEFINE c == story[d].who
    <2>1. c \in Shoppers
      BY <1>4, StoryTypes DEF CustomerPayload
    <2>2. Forget(c)
      BY <1>4
    <2> HIDE DEF c
    <2>3. /\ erased' = erased \cup {c} /\ customer'[c].at = 0
          /\ \A x \in Shoppers \ {c} : customer'[x] = customer[x]
          /\ \A x \in Orders :
               /\ order'[x].placed = order[x].placed
               /\ IF customer[c].at # 0 /\ x \in OrdersOf(c, order)
                  THEN order'[x].who = NoOne
                  ELSE order'[x] = order[x]
      BY <2>1, <2>2, ForgetWrites
    <2>4. /\ erased \subseteq Shoppers
          /\ \A x \in Orders : order[x].who \in Shoppers \cup {NoOne}
      BY OrderTypes DEF TypeOK, BookTypeOK
    <2>5. \A x \in Orders : /\ order'[x].who # c
                            /\ order'[x].who \in {order[x].who, NoOne}
      <3> TAKE x \in Orders
      <3>1. order[x].who = c => customer[c].at # 0 /\ x \in OrdersOf(c, order)
        BY <2>1, OrderBookAssumption DEF NamedOrders, OrdersOf
      <3>2. c # NoOne
        BY <2>1, OrderBookAssumption
      <3>3. CASE customer[c].at # 0 /\ x \in OrdersOf(c, order)
        BY <2>3, <3>2, <3>3
      <3>4. CASE ~(customer[c].at # 0 /\ x \in OrdersOf(c, order))
        BY <2>3, <3>1, <3>4
      <3> QED
        BY <3>3, <3>4
    <2>6. NamedOrders'
      BY <2>3, <2>4, <2>5 DEF NamedOrders
    <2>7. NoOne \notin Shoppers
      BY OrderBookAssumption
    <2>8. gone'
      BY <1>0, <2>1, <2>3, <2>4, <2>5, <2>7
    <2> QED
      BY <2>6, <2>8
  <1>5. CASE ReconcileShop
    <2>1. /\ UNCHANGED <<customer, erased>>
          /\ \A x \in Orders : /\ order'[x].who = order[x].who
                               /\ order'[x].placed = order[x].placed
      BY <1>5, ReconcileShopWrites
    <2> QED
      BY <1>0, <2>1 DEF NamedOrders
  <1> HIDE DEF gone
  <1>6. NamedOrders' /\ gone' /\ (\/ UNCHANGED erased
          \/ \E d \in Deliveries : Kind(d) = "redact" /\ Forget(story[d].who))
    <2>1. CASE UNCHANGED rowVars
      BY <1>1, <2>1 DEF rowVars, gone
    <2>2. CASE ReconcileShop
      BY <1>5, <2>2 DEF ReconcileShop, gone
    <2> QED
      BY <2>1, <2>2, <1>2, <1>3, <1>4 DEF RowStep
  <1> QED
    BY <1>6 DEF gone

(* The day of a request is set with its delivery, and once.                *)
LEMMA ReceivedOnce ==
    ASSUME TypeOK, [Next]_vars, NEW x \in Deliveries
    PROVE  /\ received'[x] = received[x] \/ pc[x] = "away"
           /\ pc'[x] = "away" => pc[x] = "away"
  <1>0. pc \in [Deliveries -> Steps] /\ received \in [Deliveries -> 0..MaxDay]
    BY DEF TypeOK
  <1> DEFINE G == /\ received'[x] = received[x] \/ pc[x] = "away"
                  /\ pc'[x] = "away" => pc[x] = "away"
  <1>1. ASSUME NEW d \in Deliveries, NEW from, NEW to, Moves(d, from, to),
               to # "away", UNCHANGED received
        PROVE  G
    BY <1>0, <1>1 DEF Moves
  <1>2. ASSUME UNCHANGED <<pc, received>> PROVE G
    BY <1>2
  <1>3. ASSUME NEW d \in Deliveries, Deliver(d) PROVE G
    <2>1. /\ pc[d] = "away" /\ pc' = [pc EXCEPT ![d] = "waiting"]
          /\ received' = [received EXCEPT ![d] = day]
      BY <1>3 DEF Deliver, Moves
    <2> QED
      BY <1>0, <2>1
  <1>4. ASSUME NEW d \in Deliveries, Crash(d) PROVE G
    <2>1. /\ pc' = [pc EXCEPT ![d] = IF d \in processed THEN "done" ELSE "waiting"]
          /\ UNCHANGED received
      BY <1>4 DEF Crash
    <2> QED
      BY <1>0, <2>1
  <1> HIDE DEF G
  <1>5. ASSUME NEW d \in Deliveries, Start(d) \/ Finish(d) \/ Redact(d) PROVE G
    <2>1. \E from, to : Moves(d, from, to) /\ to # "away" /\ UNCHANGED received
      <3>1. CASE Start(d)
        BY <3>1 DEF Start
      <3>2. CASE Finish(d)
        BY <3>2 DEF Finish
      <3>3. CASE Redact(d)
        <4>1. Moves(d, "running", "acted") /\ UNCHANGED received
          BY <3>3, Zenon DEF Redact
        <4> QED
          BY <4>1
      <3> QED
        BY <1>5, <3>1, <3>2, <3>3
    <2> QED
      BY <1>1, <2>1
  <1>6. ASSUME NEW d \in Deliveries,
               \/ OrderFetches(d) \/ OrderPublishes(d) \/ OrderCommits(d)
               \/ ImportEnds(d)
               \/ ProductFetches(d) \/ InventoryFetches(d) \/ InventoryIgnored(d)
               \/ ProductCommits(d) \/ ImportCommits(d)
               \/ FulfillmentCommits(d) \/ CheckoutReads(d) \/ CheckoutWrites(d)
               \/ AccessAssembles(d) \/ AccessRecords(d)
        PROVE  G
    <2>1. \E from, to : Moves(d, from, to) /\ to # "away" /\ UNCHANGED received
      <3>1. CASE OrderCommits(d)
        <4>1. Step(d, IF Kind(d) = "order" /\ Held(d).lines # {} THEN "ready"
                      ELSE "running", "acted")
          BY <3>1, Zenon DEF OrderCommits
        <4> QED
          BY <4>1 DEF Step
      <3>2. CASE CheckoutReads(d)
        BY <3>2 DEF CheckoutReads, Step
      <3>3. CASE CheckoutWrites(d) \/ AccessAssembles(d)
        BY <3>3 DEF CheckoutWrites, AccessAssembles
      <3> QED
        BY <1>6, <3>1, <3>2, <3>3
           DEF OrderFetches, OrderPublishes, ImportEnds, ProductFetches,
               InventoryFetches, InventoryIgnored, ProductCommits, ImportCommits,
               FulfillmentCommits, AccessRecords, Step
    <2> QED
      BY <1>1, <2>1
  <1>7. CASE (\E d \in Deliveries : Collect(d)) \/ Purge \/ NextDay
    <2>1. UNCHANGED <<pc, received>>
      BY <1>7 DEF Collect, Purge, NextDay, deliveryVars
    <2> QED
      BY <1>2, <2>1 DEF G
  <1>8. CASE UNCHANGED vars
    <2>1. UNCHANGED deliveryVars
      BY <1>8, Zenon DEF vars
    <2>2. UNCHANGED <<pc, received>>
      BY <2>1 DEF deliveryVars
    <2> QED
      BY <1>2, <2>2 DEF G
  <1>9. CASE Next
    <2>1. G
      BY <1>3, <1>4, <1>5, <1>6, <1>7, <1>9 DEF Next, G
    <2> QED
      BY <2>1 DEF G
  <1> QED
    BY <1>8, <1>9

(* The exports after a step name nobody new but a shopper who is not       *)
(* erased, and keep their term.                                            *)
LEMMA ExportsKept ==
    ASSUME TypeOK, PrivacyInv, [Next]_vars, NEW x \in Deliveries
    PROVE  /\ exports'[x].due \in {0, received'[x] + Term}
           /\ pc'[x] = "away" => exports'[x].due = 0
           /\ \/ exports'[x].for = NoOne
              \/ exports'[x].for \notin erased /\ exports'[x].for # NoOne
                 /\ exports'[x].for \in Shoppers
  <1>0. /\ exports \in [Requests -> Export] /\ Requests = Deliveries
        /\ erased \subseteq Shoppers /\ NoOne \notin Shoppers
        /\ exports[x].for \in Shoppers \cup {NoOne}
    BY IngestAssumption, OrderBookAssumption DEF TypeOK, BookTypeOK, Export
  <1>1. /\ exports[x].due \in {0, received[x] + Term}
        /\ pc[x] = "away" => exports[x].due = 0
        /\ exports[x].for \notin erased
    BY <1>0 DEF PrivacyInv, TermInv, NothingOfTheErased
  <1>2. /\ received'[x] = received[x] \/ pc[x] = "away"
        /\ pc'[x] = "away" => pc[x] = "away"
    BY ReceivedOnce
  <1>3. NoExport.for = NoOne /\ NoExport.due = 0
    BY DEF NoExport
  <1>4. ExportStep
    BY BookSteps
  <1>5. ASSUME exports'[x].for = exports[x].for, exports'[x].due = exports[x].due
        PROVE  /\ exports'[x].due \in {0, received'[x] + Term}
               /\ pc'[x] = "away" => exports'[x].due = 0
               /\ \/ exports'[x].for = NoOne
                  \/ exports'[x].for \notin erased /\ exports'[x].for # NoOne
                     /\ exports'[x].for \in Shoppers
    BY <1>0, <1>1, <1>2, <1>5
  <1>6. CASE exports'[x] = NoExport
    BY <1>3, <1>6
  <1>7. CASE UNCHANGED exports
    BY <1>5, <1>7
  <1>8. CASE PurgeExpiredDataRequests
    <2>1. exports'[x] = NoExport \/ exports'[x] = exports[x]
      BY <1>0, <1>8 DEF PurgeExpiredDataRequests
    <2> QED
      BY <1>5, <1>6, <2>1
  <1>9. ASSUME NEW d \in Deliveries, Kind(d) = "redact", Forget(story[d].who)
        PROVE  exports'[x] = NoExport \/ exports'[x] = exports[x]
    <2>1. story[d].who \in Shoppers
      BY <1>9, StoryTypes DEF CustomerPayload
    <2> QED
      BY <1>0, <1>9, <2>1, ForgetWrites
  <1>10. ASSUME NEW d \in Deliveries, CollectDataRequest(d)
         PROVE  /\ exports'[x].for = exports[x].for
                /\ exports'[x].due = exports[x].due
    <2>1. exports' = [exports EXCEPT ![d] = [exports[d] EXCEPT !.collected = TRUE]]
      BY <1>10 DEF CollectDataRequest
    <2>2. /\ [exports[d] EXCEPT !.collected = TRUE].for = exports[d].for
          /\ [exports[d] EXCEPT !.collected = TRUE].due = exports[d].due
      BY <1>0 DEF Export
    <2> QED
      BY <1>0, <2>1, <2>2
  <1>11. ASSUME NEW d \in Deliveries, Kind(d) = "access", pc[d] = "ready",
                RecordDataRequest(d, story[d].who, report[d], received[d]),
                pc' = [pc EXCEPT ![d] = "acted"]
         PROVE  /\ exports'[x].due \in {0, received'[x] + Term}
                /\ pc'[x] = "away" => exports'[x].due = 0
                /\ \/ exports'[x].for = NoOne
                   \/ exports'[x].for \notin erased /\ exports'[x].for # NoOne
                      /\ exports'[x].for \in Shoppers
    <2> DEFINE c == story[d].who
    <2>1. c \in Shoppers
      BY <1>11, StoryTypes DEF CustomerPayload
    <2>2. /\ exports'[d].for = IF c \in erased THEN NoOne ELSE c
          /\ exports'[d].due = IF exports[d].due = 0 THEN received[d] + Term
                               ELSE exports[d].due
          /\ \A y \in Deliveries \ {d} : exports'[y] = exports[y]
      BY <1>11, <2>1, RecordedExport
    <2> HIDE DEF c
    <2>3. CASE x = d
      <3>1. pc[x] # "away"
        BY <1>11, <2>3
      <3> QED
        BY <1>0, <1>1, <1>2, <2>1, <2>2, <2>3, <3>1
    <2>4. CASE x # d
      BY <1>5, <2>2, <2>4
    <2> QED
      BY <2>3, <2>4
  <1> QED
    BY <1>4, <1>5, <1>6, <1>7, <1>8, <1>9, <1>10, <1>11 DEF ExportStep

LEMMA PrivacyInit == Init => PrivacyInv
  <1> SUFFICES ASSUME Init PROVE PrivacyInv
    OBVIOUS
  <1>1. /\ \A o \in Orders : order[o].who = NoOne
        /\ erased = {}
        /\ \A d \in Deliveries : exports[d].due = 0
    <2>1. PICK s \in Stories : BookInit(s.legacy)
      BY Zenon DEF Init
    <2> DEFINE old == [NoOrder EXCEPT !.placed = 1, !.header = "fulfilled"]
    <2>2. NoOrder.who = NoOne /\ old.who = NoOne
      BY DEF NoOrder
    <2>3. /\ order = [o \in Orders |-> IF o \in s.legacy THEN old ELSE NoOrder]
          /\ erased = {} /\ exports = [d \in Requests |-> NoExport]
      BY <2>1, Zenon DEF BookInit
    <2>4. NoExport.due = 0
      BY DEF NoExport
    <2> HIDE DEF old
    <2> QED
      BY <2>2, <2>3, <2>4, IngestAssumption
  <1> QED
    BY <1>1 DEF PrivacyInv, NamedOrders, NothingOfTheErased, TermInv

LEMMA PrivacyKept == TypeOK /\ PrivacyInv /\ [Next]_vars => PrivacyInv'
  <1> SUFFICES ASSUME TypeOK, PrivacyInv, [Next]_vars PROVE PrivacyInv'
    OBVIOUS
  <1>1. RowStep
    BY BookSteps
  <1>2. /\ NamedOrders
        /\ \A c \in erased : /\ customer[c].at = 0
                             /\ \A o \in Orders : order[o].who # c
                             /\ \A d \in Requests : exports[d].for # c
    BY DEF PrivacyInv, NothingOfTheErased
  <1>3. /\ NamedOrders'
        /\ \A c \in erased' : /\ customer'[c].at = 0
                              /\ \A o \in Orders : order'[o].who # c
        /\ \/ UNCHANGED erased
           \/ \E d \in Deliveries : Kind(d) = "redact" /\ Forget(story[d].who)
    BY <1>1, <1>2, RowsNamed
  <1>4. TermInv'
    BY ExportsKept DEF TermInv
  <1>5. ASSUME NEW c \in erased', NEW d \in Requests PROVE exports'[d].for # c
    <2>1. /\ d \in Deliveries /\ erased' \subseteq Shoppers
          /\ NoOne \notin Shoppers
      <3>1. erased' \subseteq Shoppers
        BY <1>1, RowsTyped
      <3> QED
        BY <3>1, IngestAssumption, OrderBookAssumption
    <2>2. \/ exports'[d].for = NoOne
          \/ exports'[d].for \notin erased
      BY <2>1, ExportsKept
    <2>3. CASE UNCHANGED erased
      BY <2>1, <2>2, <2>3
    <2>4. ASSUME NEW x \in Deliveries, Kind(x) = "redact", Forget(story[x].who)
          PROVE  exports'[d].for # c
      <3>1. story[x].who \in Shoppers
        BY <2>4, StoryTypes DEF CustomerPayload
      <3>2. /\ erased' = erased \cup {story[x].who}
            /\ IF exports[d].for = story[x].who
               THEN exports'[d] = NoExport
               ELSE exports'[d] = exports[d]
        BY <2>4, <3>1, ForgetWrites
      <3>3. NoExport.for = NoOne
        BY DEF NoExport
      <3> QED
        BY <1>2, <1>5, <2>1, <2>2, <3>1, <3>2, <3>3
    <2> QED
      BY <1>3, <2>3, <2>4
  <1> QED
    BY <1>3, <1>4, <1>5 DEF PrivacyInv, NothingOfTheErased

(* Once a shopper is erased no row of theirs, no order in their name and   *)
(* no export that names them comes back, whatever was on its way, and an   *)
(* export's term runs from the day its request was received.               *)
THEOREM ErasureHolds == Spec => []ErasedStaysErased
  <1>1. TypeOK /\ PrivacyInv => ErasedStaysErased
    BY DEF PrivacyInv, TermInv, ErasedStaysErased
  <1> QED
    BY <1>1, InitTyped, TypesKept, PrivacyInit, PrivacyKept, PTL DEF Spec

-----------------------------------------------------------------------------
(* Summaries                                                               *)

LEMMA StoryStays ==
    ASSUME [Next]_vars
    PROVE  story' = story
  <1>1. ASSUME NEW d \in Deliveries,
               \/ Deliver(d) \/ Start(d) \/ Finish(d) \/ Crash(d)
               \/ CheckoutWrites(d) \/ AccessAssembles(d)
        PROVE  story' = story
    BY <1>1 DEF Deliver, Start, Finish, Crash, CheckoutWrites, AccessAssembles
  <1>2. ASSUME NEW d \in Deliveries,
               \/ OrderFetches(d) \/ OrderPublishes(d)
               \/ ImportEnds(d)
               \/ ProductFetches(d) \/ InventoryFetches(d) \/ InventoryIgnored(d)
               \/ ProductCommits(d) \/ ImportCommits(d)
               \/ FulfillmentCommits(d) \/ CheckoutReads(d) \/ AccessRecords(d)
        PROVE  story' = story
    BY <1>2 DEF OrderFetches, OrderPublishes, ImportEnds, ProductFetches,
                InventoryFetches, InventoryIgnored, ProductCommits, ImportCommits,
                FulfillmentCommits, CheckoutReads, AccessRecords, Step
  <1>3. ASSUME NEW d \in Deliveries, OrderCommits(d) PROVE story' = story
    BY <1>3, Zenon DEF OrderCommits, Step
  <1>4. ASSUME NEW d \in Deliveries, Redact(d) PROVE story' = story
    BY <1>4, Zenon DEF Redact
  <1>5. CASE (\E d \in Deliveries : Collect(d)) \/ Purge \/ NextDay
    BY <1>5 DEF Collect, Purge, NextDay, deliveryVars
  <1>6. CASE UNCHANGED vars
    <2>1. UNCHANGED deliveryVars
      BY <1>6, Zenon DEF vars
    <2> QED
      BY <2>1 DEF deliveryVars
  <1>7. CASE Next
    BY <1>1, <1>2, <1>3, <1>4, <1>5, <1>7 DEF Next
  <1> QED
    BY <1>6, <1>7

(* The row a shipment replaces is of the same order.                       *)
LEMMA SameOrder ==
    ASSUME TypeOK, ShipInv, NEW d \in Deliveries, Kind(d) = "ship",
           NEW s \in RowFor(story[d])
    PROVE  s.order = story[d].order /\ s.ship \in {story[d].ship, NoShip}
  <1>1. s \in shipments /\ (\/ s.ship = story[d].ship
                            \/ s.ship = NoShip /\ s.order = story[d].order)
    BY RowForIs
  <1>2. CASE s.ship = story[d].ship
    <2>1. s.ship # NoShip
      BY <1>2, StoryTypes, OrderBookAssumption DEF FulfillmentPayload
    <2>2. PICK e \in Deliveries : /\ Kind(e) = "ship" /\ story[e].ship = s.ship
                                  /\ story[e].order = s.order
      BY <1>1, <2>1 DEF ShipInv
    <2>3. story[e].order = story[d].order
      BY <1>2, <2>2 DEF TypeOK, Tellable, Kind
    <2> QED
      BY <1>2, <2>2, <2>3
  <1> QED
    BY <1>1, <1>2

LEMMA ShipKept ==
    ASSUME TypeOK, ShipInv, [Next]_vars
    PROVE  ShipInv'
  <1>1. story' = story /\ RowStep
    BY StoryStays, BookSteps
  <1>2. ASSUME UNCHANGED shipments PROVE ShipInv'
    BY <1>1, <1>2 DEF ShipInv, Kind
  <1>3. ASSUME NEW d \in Deliveries, Kind(d) = "ship", SyncFulfillment(story[d])
        PROVE  ShipInv'
    <2>1. \/ UNCHANGED <<order, shipments>>
          \/ \E q : ShipmentWritten(story[d], q)
      BY <1>3, StoryTypes, SyncFulfillmentWrites
    <2>2. ASSUME NEW q, ShipmentWritten(story[d], q) PROVE ShipInv'
      <3>1. /\ shipments' \subseteq shipments \cup {q}
            /\ q.ship = story[d].ship /\ q.order = story[d].order
        BY <2>2 DEF ShipmentWritten
      <3> QED
        BY <1>1, <1>3, <3>1 DEF ShipInv, Kind
    <2> QED
      BY <1>2, <2>1, <2>2
  <1>4. ASSUME NEW d \in Deliveries, Kind(d) \in {"order", "page"},
               SyncOrder(Held(d).order, Held(d))
        PROVE  ShipInv'
    <2> DEFINE v == Held(d)
    <2>1. v \in OrderPayload /\ v.order \in Orders /\ SyncOrder(v.order, v)
      BY <1>4, HeldTypes
    <2> HIDE DEF v
    <2> QED
      BY <1>2, <2>1, SyncOrderWrites
  <1>5. ASSUME NEW d \in Deliveries, Kind(d) = "redact", Forget(story[d].who)
        PROVE  ShipInv'
    <2>1. story[d].who \in Shoppers
      BY <1>5, StoryTypes DEF CustomerPayload
    <2> QED
      BY <1>2, <1>5, <2>1, ForgetWrites
  <1>6. CASE ReconcileShop
    BY <1>2, <1>6, ReconcileShopWrites
  <1>7. CASE UNCHANGED rowVars
    BY <1>2, <1>7 DEF rowVars
  <1> QED
    BY <1>1, <1>3, <1>4, <1>5, <1>6, <1>7 DEF RowStep

(* A shopper none of whose orders moves keeps an agreeing summary.         *)
LEMMA SummaryStays ==
    ASSUME TypeOK, NEW x \in Shoppers, FirstIsEarliest(x),
           order' \in [Orders -> Order],
           customer'[x] = customer[x], x \in left => x \in left',
           \A y \in Orders : (order[y].who = x \/ order'[y].who = x) =>
               /\ order'[y].who = order[y].who
               /\ order'[y].placed = order[y].placed
               /\ order'[y].first = order[y].first
    PROVE  FirstIsEarliest(x)'
  <1> DEFINE mine == OrdersOf(x, order)
  <1>0. order \in [Orders -> Order]
    BY DEF TypeOK, BookTypeOK
  <1>1. OrdersOf(x, order') = mine
    BY DEF OrdersOf
  <1>2. \A o \in mine : /\ order[o].placed = order'[o].placed
                        /\ order[o].first = order'[o].first
    BY DEF OrdersOf
  <1>3. Earliest(order', x) = Earliest(order, x)
    BY <1>0, <1>1, <1>2, SameEarliest
  <1>4. ASSUME customer'[x].at # 0, x \notin left'
        PROVE  /\ mine # {}
               /\ \A o \in mine : order'[o].first = (o = Earliest(order, x))
               /\ customer'[x].at = order'[Earliest(order, x)].placed
    <2>1. /\ mine # {}
          /\ \A o \in mine : order[o].first = (o = Earliest(order, x))
          /\ customer[x].at = order[Earliest(order, x)].placed
      BY <1>4 DEF FirstIsEarliest
    <2>2. Earliest(order, x) \in mine
      BY <1>0, <2>1, EarliestIsThere
    <2> HIDE DEF mine
    <2> QED
      BY <1>2, <2>1, <2>2
  <1> HIDE DEF mine
  <1> QED
    BY <1>1, <1>3, <1>4 DEF FirstIsEarliest

LEMMA HeaderStays ==
    ASSUME NEW y \in Orders, HeaderAgrees(y), shipments' = shipments,
           order'[y].header = order[y].header
    PROVE  HeaderAgrees(y)'
  BY DEF HeaderAgrees

LEMMA HeaderFollows ==
    ASSUME NEW y \in Orders, NEW told,
           order'[y].header = HeaderOf(y, told, shipments')
    PROVE  HeaderAgrees(y)'
  <1> DEFINE mine == {s \in shipments' : s.order = y}
  <1>1. mine # {} => order'[y].header = IF \E s \in mine : s.live
                                        THEN "fulfilled" ELSE "unfulfilled"
    BY Zenon DEF HeaderOf
  <1> QED
    BY <1>1, Zenon DEF HeaderAgrees

LEMMA SyncOrderSummaries ==
    ASSUME TypeOK, SummariesAgree, NEW o \in Orders, NEW v \in OrderPayload,
           SyncOrder(o, v)
    PROVE  SummariesAgree'
  <1>0. /\ \A x \in Shoppers : FirstIsEarliest(x)
        /\ \A y \in Orders : HeaderAgrees(y)
        /\ order \in [Orders -> Order]
        /\ customer \in [Shoppers -> [at : Times, by : Orders \cup {0}]]
    BY DEF SummariesAgree, TypeOK, BookTypeOK
  <1>1. /\ UNCHANGED shipments
        /\ \/ UNCHANGED <<order, customer, left>>
           \/ \E c, book : OrderWritten(o, v, c, book)
    BY SyncOrderWrites
  <1>2. CASE UNCHANGED <<order, customer, left>>
    <2>1. \A x \in Shoppers : FirstIsEarliest(x)'
      BY <1>0, <1>2, SummaryStays
    <2>2. \A y \in Orders : HeaderAgrees(y)'
      BY <1>0, <1>1, <1>2, HeaderStays
    <2> QED
      BY <2>1, <2>2 DEF SummariesAgree
  <1>3. ASSUME NEW c, NEW book, OrderWritten(o, v, c, book)
        PROVE  SummariesAgree'
    <2>1. /\ c \in Shoppers \cup {NoOne} /\ Recorded(o, v, c, book)
          /\ book \in [Orders -> Order]
          /\ book[o].who = c
          /\ book[o].header = HeaderOf(o, v.header, shipments)
          /\ \A y \in Orders \ {o} : book[y] = order[y]
          /\ left' = left \cup ({order[o].who} \ {c, NoOne})
      BY <1>3 DEF OrderWritten, Recorded
    <2>2. SameBut(c, order', book) /\ order' \in [Orders -> Order]
      <3>1. CASE c = NoOne
        <4>1. order' = book
          BY <1>3, <3>1 DEF OrderWritten
        <4> QED
          BY <2>1, <4>1 DEF SameBut
      <3>2. CASE c # NoOne
        <4>1. order' = Reconciled(book, c)
          BY <1>3, <3>2 DEF OrderWritten
        <4> QED
          BY <2>1, <4>1, ReconciledIs
      <3> QED
        BY <3>1, <3>2
    <2>3. ASSUME NEW y \in Orders PROVE HeaderAgrees(y)'
      <3>1. order'[y].header = book[y].header
        BY <2>2 DEF SameBut
      <3>2. CASE y = o
        <4>1. order'[y].header = HeaderOf(y, v.header, shipments')
          BY <1>1, <2>1, <3>1, <3>2
        <4> QED
          BY <4>1, HeaderFollows
      <3>3. CASE y # o
        <4>1. order'[y].header = order[y].header
          BY <2>1, <3>1, <3>3
        <4> QED
          BY <1>0, <1>1, <4>1, HeaderStays
      <3> QED
        BY <3>2, <3>3
    <2>4. ASSUME NEW x \in Shoppers, x # c PROVE FirstIsEarliest(x)'
      <3>1. customer'[x] = customer[x]
        <4>1. CASE c = NoOne
          BY <1>3, <4>1 DEF OrderWritten
        <4>2. CASE c # NoOne
          <5>1. customer' = [customer EXCEPT ![c] = Acquired(c, o, v.placed, book)]
            BY <1>3, <4>2 DEF OrderWritten
          <5> QED
            BY <1>0, <2>4, <5>1
        <4> QED
          BY <4>1, <4>2
      <3>2. CASE order[o].who = x
        <4>1. x \in left'
          BY <2>1, <2>4, <3>2, OrderBookAssumption
        <4> QED
          BY <4>1 DEF FirstIsEarliest
      <3>3. CASE order[o].who # x
        <4>1. ASSUME NEW y \in Orders, order[y].who = x \/ order'[y].who = x
              PROVE  order'[y] = order[y]
          <5>1. order'[y].who = book[y].who
            BY <2>2 DEF SameBut
          <5>2. y # o
            BY <2>1, <2>4, <3>3, <4>1, <5>1
          <5>3. book[y] = order[y] /\ book[y].who # c
            BY <2>1, <2>4, <4>1, <5>1, <5>2
          <5>4. y \notin OrdersOf(c, book)
            BY <5>3 DEF OrdersOf
          <5> QED
            BY <2>2, <5>3, <5>4 DEF SameBut
        <4>2. x \in left => x \in left'
          BY <2>1
        <4> QED
          BY <1>0, <2>2, <3>1, <4>1, <4>2, SummaryStays
      <3> QED
        BY <3>2, <3>3
    <2>5. ASSUME c \in Shoppers PROVE FirstIsEarliest(c)'
      <3> DEFINE mine == OrdersOf(c, book)
      <3>1. /\ order' = Reconciled(book, c)
            /\ customer' = [customer EXCEPT ![c] = Acquired(c, o, v.placed, book)]
        BY <1>3, <2>5, OrderBookAssumption DEF OrderWritten
      <3>2. OrdersOf(c, order') = mine
        BY <2>2 DEF SameBut, OrdersOf
      <3>3. \A y \in mine : order'[y].placed = book[y].placed
        BY <2>2 DEF SameBut, OrdersOf
      <3>4. Earliest(order', c) = Earliest(book, c)
        BY <2>1, <2>2, <3>2, <3>3, SameEarliest
      <3>5. /\ mine # {}
            /\ Acquired(c, o, v.placed, book).at = book[Earliest(book, c)].placed
        BY <2>1, <2>5, AcquiredIs
      <3>6. Earliest(book, c) \in mine
        BY <2>1, <3>5, EarliestIsThere
      <3>7. customer'[c].at = order'[Earliest(book, c)].placed
        BY <1>0, <2>5, <3>1, <3>3, <3>5, <3>6
      <3>8. \A y \in mine : order'[y].first = (y = Earliest(book, c))
        BY <2>1, <3>1, ReconciledIs
      <3> HIDE DEF mine
      <3> QED
        BY <3>2, <3>4, <3>5, <3>7, <3>8 DEF FirstIsEarliest
    <2> QED
      BY <2>3, <2>4, <2>5 DEF SummariesAgree
  <1> QED
    BY <1>1, <1>2, <1>3

LEMMA SyncFulfillmentSummaries ==
    ASSUME TypeOK, ShipInv, SummariesAgree, NEW d \in Deliveries,
           Kind(d) = "ship", SyncFulfillment(story[d])
    PROVE  SummariesAgree'
  <1> DEFINE v == story[d]
  <1>0. /\ \A x \in Shoppers : FirstIsEarliest(x)
        /\ \A y \in Orders : HeaderAgrees(y)
        /\ order \in [Orders -> Order]
    BY DEF SummariesAgree, TypeOK, BookTypeOK
  <1>1. /\ UNCHANGED <<customer, left>>
        /\ \/ UNCHANGED <<order, shipments>>
           \/ \E q : ShipmentWritten(v, q)
    BY StoryTypes, SyncFulfillmentWrites
  <1>2. CASE UNCHANGED <<order, shipments>>
    <2>1. \A x \in Shoppers : FirstIsEarliest(x)'
      BY <1>0, <1>1, <1>2, SummaryStays
    <2>2. \A y \in Orders : HeaderAgrees(y)'
      BY <1>0, <1>2, HeaderStays
    <2> QED
      BY <2>1, <2>2 DEF SummariesAgree
  <1>3. ASSUME NEW q, ShipmentWritten(v, q) PROVE SummariesAgree'
    <2>1. ASSUME NEW x \in Shoppers PROVE FirstIsEarliest(x)'
      BY <1>0, <1>1, <1>3, SummaryStays DEF ShipmentWritten
    <2>2. ASSUME NEW y \in Orders PROVE HeaderAgrees(y)'
      <3>1. CASE y = v.order
        <4>1. order'[y].header = HeaderOf(y, order[y].header, shipments')
          BY <1>3, <3>1 DEF ShipmentWritten
        <4> QED
          BY <4>1, HeaderFollows
      <3>2. CASE y # v.order
        <4>1. {s \in shipments' : s.order = y} = {s \in shipments : s.order = y}
          <5>1. \A s \in RowFor(v) : s.order = v.order
            BY SameOrder
          <5>2. /\ shipments' = (shipments \ RowFor(v)) \cup {q}
                /\ q.order = v.order
            BY <1>3 DEF ShipmentWritten
          <5> HIDE DEF v
          <5> QED
            BY <3>2, <5>1, <5>2
        <4>2. order'[y] = order[y]
          BY <1>3, <3>2 DEF ShipmentWritten
        <4>3. HeaderAgrees(y)
          BY <1>0
        <4> QED
          BY <4>1, <4>2, <4>3 DEF HeaderAgrees
      <3> QED
        BY <3>1, <3>2
    <2> QED
      BY <2>1, <2>2 DEF SummariesAgree
  <1> QED
    BY <1>1, <1>2, <1>3

LEMMA ForgetSummaries ==
    ASSUME TypeOK, SummariesAgree, NEW c \in Shoppers, Forget(c)
    PROVE  SummariesAgree'
  <1>0. /\ \A x \in Shoppers : FirstIsEarliest(x)
        /\ \A y \in Orders : HeaderAgrees(y)
        /\ NoOne \notin Shoppers
    BY OrderBookAssumption DEF SummariesAgree
  <1>1. /\ UNCHANGED <<shipments, left>>
        /\ order' \in [Orders -> Order]
        /\ \A y \in Orders :
             /\ order'[y].header = order[y].header
             /\ IF customer[c].at # 0 /\ y \in OrdersOf(c, order)
                THEN order'[y].who = NoOne
                ELSE order'[y] = order[y]
        /\ customer'[c].at = 0
        /\ \A x \in Shoppers \ {c} : customer'[x] = customer[x]
    BY ForgetWrites
  <1>2. ASSUME NEW x \in Shoppers PROVE FirstIsEarliest(x)'
    <2>1. CASE x = c
      BY <1>1, <2>1 DEF FirstIsEarliest
    <2>2. CASE x # c
      <3>1. ASSUME NEW y \in Orders, order[y].who = x \/ order'[y].who = x
            PROVE  order'[y] = order[y]
        <4>1. y \in OrdersOf(c, order) => order[y].who = c
          BY DEF OrdersOf
        <4> QED
          BY <1>0, <1>1, <2>2, <3>1, <4>1
      <3> QED
        BY <1>0, <1>1, <2>2, <3>1, SummaryStays
    <2> QED
      BY <2>1, <2>2
  <1>3. \A y \in Orders : HeaderAgrees(y)'
    BY <1>0, <1>1, HeaderStays
  <1> QED
    BY <1>2, <1>3 DEF SummariesAgree

LEMMA ReconcileShopSummaries ==
    ASSUME TypeOK, SummariesAgree, ReconcileShop
    PROVE  SummariesAgree'
  <1>0. /\ \A x \in Shoppers : FirstIsEarliest(x)
        /\ \A y \in Orders : HeaderAgrees(y)
        /\ NoOne \notin Shoppers
        /\ order \in [Orders -> Order]
    BY OrderBookAssumption DEF SummariesAgree, TypeOK, BookTypeOK
  <1>1. /\ order' \in [Orders -> Order]
        /\ UNCHANGED <<shipments, customer, left>>
        /\ \A y \in Orders :
             /\ order'[y].who = order[y].who
             /\ order'[y].placed = order[y].placed
             /\ order'[y].header = order[y].header
             /\ Exists(y) /\ order[y].who # NoOne =>
                  order'[y].first = (y = Earliest(order, order[y].who))
    BY ReconcileShopWrites
  <1>2. ASSUME NEW x \in Shoppers, customer'[x].at # 0, x \notin left'
        PROVE  FirstIsEarliest(x)'
    <2> DEFINE mine == OrdersOf(x, order)
    <2>1. OrdersOf(x, order') = mine
      BY <1>1 DEF OrdersOf
    <2>2. \A y \in mine : order'[y].placed = order[y].placed
      BY <1>1 DEF OrdersOf
    <2>3. Earliest(order', x) = Earliest(order, x)
      BY <1>0, <1>1, <2>1, <2>2, SameEarliest
    <2>4. /\ mine # {}
          /\ customer[x].at = order[Earliest(order, x)].placed
      BY <1>0, <1>1, <1>2 DEF FirstIsEarliest
    <2>5. Earliest(order, x) \in mine
      BY <1>0, <2>4, EarliestIsThere
    <2>6. \A y \in mine : order'[y].first = (y = Earliest(order, x))
      <3> TAKE y \in mine
      <3>1. y \in Orders /\ Exists(y) /\ order[y].who = x
        BY DEF OrdersOf, Exists
      <3> QED
        BY <1>0, <1>1, <3>1
    <2>7. customer'[x].at = order'[Earliest(order, x)].placed
      BY <1>1, <2>2, <2>4, <2>5
    <2> HIDE DEF mine
    <2> QED
      BY <2>1, <2>3, <2>4, <2>6, <2>7 DEF FirstIsEarliest
  <1>3. \A x \in Shoppers : FirstIsEarliest(x)'
    BY <1>2 DEF FirstIsEarliest
  <1>4. \A y \in Orders : HeaderAgrees(y)'
    BY <1>0, <1>1, HeaderStays
  <1> QED
    BY <1>3, <1>4 DEF SummariesAgree

SummaryInv == ShipInv /\ SummariesAgree

LEMMA SummaryKept ==
    TypeOK /\ SummaryInv /\ [Next]_vars => SummaryInv'
  <1> SUFFICES ASSUME TypeOK, SummaryInv, [Next]_vars PROVE SummaryInv'
    OBVIOUS
  <1>1. ShipInv /\ SummariesAgree /\ RowStep
    BY BookSteps DEF SummaryInv
  <1>2. ShipInv'
    BY <1>1, ShipKept
  <1>3. CASE UNCHANGED rowVars
    <2>1. /\ \A x \in Shoppers : FirstIsEarliest(x)
          /\ \A y \in Orders : HeaderAgrees(y)
      BY <1>1 DEF SummariesAgree
    <2>2. /\ order' = order /\ shipments' = shipments
          /\ customer' = customer /\ left' = left
          /\ order' \in [Orders -> Order]
      BY <1>3 DEF rowVars, TypeOK, BookTypeOK
    <2>3. \A x \in Shoppers : FirstIsEarliest(x)'
      BY <2>1, <2>2, SummaryStays
    <2>4. \A y \in Orders : HeaderAgrees(y)'
      BY <2>1, <2>2, HeaderStays
    <2> QED
      BY <1>2, <2>3, <2>4 DEF SummaryInv, SummariesAgree
  <1>4. ASSUME NEW d \in Deliveries, Kind(d) \in {"order", "page"},
               SyncOrder(Held(d).order, Held(d))
        PROVE  SummariesAgree'
    <2> DEFINE v == Held(d)
    <2>1. v \in OrderPayload /\ v.order \in Orders /\ SyncOrder(v.order, v)
      BY <1>4, HeldTypes
    <2> HIDE DEF v
    <2> QED
      BY <1>1, <2>1, SyncOrderSummaries
  <1>5. ASSUME NEW d \in Deliveries, Kind(d) = "ship", SyncFulfillment(story[d])
        PROVE  SummariesAgree'
    BY <1>1, <1>5, SyncFulfillmentSummaries
  <1>6. ASSUME NEW d \in Deliveries, Kind(d) = "redact", Forget(story[d].who)
        PROVE  SummariesAgree'
    <2>1. story[d].who \in Shoppers
      BY <1>6, StoryTypes DEF CustomerPayload
    <2> QED
      BY <1>1, <1>6, <2>1, ForgetSummaries
  <1>7. CASE ReconcileShop
    BY <1>1, <1>2, <1>7, ReconcileShopSummaries DEF SummaryInv
  <1>8. CASE \E d \in Deliveries :
               \/ /\ Kind(d) \in {"order", "page"}
                  /\ SyncOrder(Held(d).order, Held(d))
               \/ Kind(d) = "ship" /\ SyncFulfillment(story[d])
               \/ Kind(d) = "redact" /\ Forget(story[d].who)
    BY <1>2, <1>4, <1>5, <1>6, <1>8 DEF SummaryInv
  <1> QED
    BY <1>1, <1>3, <1>7, <1>8 DEF RowStep

LEMMA SummaryInit == Init => SummaryInv
  <1> SUFFICES ASSUME Init PROVE SummaryInv
    OBVIOUS
  <1>1. PICK s \in Stories : BookInit(s.legacy)
    BY Zenon DEF Init
  <1>2. s.legacy \subseteq Orders
    BY IngestAssumption
  <1> DEFINE old == [NoOrder EXCEPT !.placed = 1, !.header = "fulfilled"]
             row(o) == [ship |-> NoShip, order |-> o, created |-> 1, at |-> 0,
                        live |-> TRUE]
  <1>3. old.header = "fulfilled"
    BY DEF NoOrder
  <1>4. \A o : row(o).ship = NoShip /\ row(o).order = o /\ row(o).live = TRUE
    OBVIOUS
  <1>5. /\ order = [o \in Orders |-> IF o \in s.legacy THEN old ELSE NoOrder]
        /\ shipments = {row(o) : o \in s.legacy}
        /\ customer = [c \in Shoppers |-> [at |-> 0, by |-> 0]]
    BY <1>1, Zenon DEF BookInit
  <1> HIDE DEF old, row
  <1>6. ShipInv
    BY <1>4, <1>5 DEF ShipInv
  <1>7. \A c \in Shoppers : FirstIsEarliest(c)
    BY <1>5 DEF FirstIsEarliest
  <1>8. \A o \in Orders : HeaderAgrees(o)
    <2> TAKE o \in Orders
    <2> DEFINE mine == {x \in shipments : x.order = o}
    <2>1. mine # {} => o \in s.legacy /\ \E x \in mine : x.live
      BY <1>4, <1>5
    <2>2. o \in s.legacy => order[o].header = "fulfilled"
      BY <1>3, <1>5
    <2>3. mine # {} => order[o].header = IF \E x \in mine : x.live
                                         THEN "fulfilled" ELSE "unfulfilled"
      <3> HIDE DEF mine
      <3> QED
        BY <2>1, <2>2
    <2> QED
      BY <2>3, Zenon DEF HeaderAgrees
  <1> QED
    BY <1>6, <1>7, <1>8 DEF SummaryInv, SummariesAgree

(* The flag of a shopper's first order and the customer's first date agree *)
(* with the orders, and an order's header with its shipments, in every     *)
(* state.                                                                  *)
THEOREM SummariesHold == Spec => []SummariesAgree
  <1>1. SummaryInv => SummariesAgree
    BY DEF SummaryInv
  <1> QED
    BY <1>1, InitTyped, TypesKept, SummaryInit, SummaryKept, PTL DEF Spec

-----------------------------------------------------------------------------
(* The source's clocks                                                     *)

LEMMA BookForward ==
    ASSUME TypeOK, ShipInv, RowStep
    PROVE  BookRunsForward
  <1>0. /\ \A o \in Orders : order[o].at \in Nat
        /\ \A s \in shipments : s.at \in Nat
    BY OrderTypes DEF TypeOK, BookTypeOK, Shipment, Times
  <1>1. ASSUME \A o \in Orders : order'[o].at = order[o].at,
               shipments' = shipments
        PROVE  BookRunsForward
    BY <1>0, <1>1 DEF BookRunsForward
  <1>2. ASSUME NEW d \in Deliveries, Kind(d) \in {"order", "page"},
               SyncOrder(Held(d).order, Held(d))
        PROVE  BookRunsForward
    <2> DEFINE v == Held(d)
               o == v.order
    <2>1. v \in OrderPayload /\ o \in Orders /\ SyncOrder(o, v) /\ v.at \in Nat
      BY <1>2, HeldTypes DEF Times
    <2> HIDE DEF v, o
    <2>2. /\ shipments' = shipments
          /\ \/ UNCHANGED <<order, customer, left>>
             \/ \E c, book : OrderWritten(o, v, c, book)
      BY <2>1, SyncOrderWrites
    <2>3. CASE UNCHANGED <<order, customer, left>>
      BY <1>1, <2>2, <2>3
    <2>4. ASSUME NEW c, NEW book, OrderWritten(o, v, c, book)
          PROVE  BookRunsForward
      <3>1. /\ ~Outdated(o, v.at)
            /\ book \in [Orders -> Order] /\ book[o].at = v.at
            /\ \A x \in Orders \ {o} : book[x] = order[x]
        BY <2>4 DEF OrderWritten, Recorded
      <3>2. \A x \in Orders : order'[x].at = book[x].at
        <4>1. order' = book \/ order' = Reconciled(book, c)
          BY <2>4 DEF OrderWritten
        <4> QED
          BY <3>1, <4>1, ReconciledIs DEF SameBut
      <3>3. ASSUME NEW x \in Orders, Exists(x) PROVE order'[x].at >= order[x].at
        <4>1. CASE x = o
          BY <1>0, <2>1, <3>1, <3>2, <3>3, <4>1 DEF Outdated
        <4>2. CASE x # o
          BY <1>0, <3>1, <3>2, <4>2
        <4> QED
          BY <4>1, <4>2
      <3>4. \A s \in shipments : \E t \in shipments' :
              s.ship \in {t.ship, NoShip} /\ t.order = s.order /\ t.at >= s.at
        BY <1>0, <2>2
      <3> QED
        BY <3>3, <3>4 DEF BookRunsForward
    <2> QED
      BY <2>2, <2>3, <2>4
  <1>3. ASSUME NEW d \in Deliveries, Kind(d) = "ship", SyncFulfillment(story[d])
        PROVE  BookRunsForward
    <2> DEFINE v == story[d]
    <2>1. v \in FulfillmentPayload /\ v.at \in Nat
      BY <1>3, StoryTypes DEF FulfillmentPayload, Times
    <2>2. \A s \in RowFor(v) : s.order = v.order /\ s.ship \in {v.ship, NoShip}
      BY <1>3, SameOrder
    <2>3. \/ UNCHANGED <<order, shipments>>
          \/ \E q : ShipmentWritten(v, q)
      BY <1>3, <2>1, SyncFulfillmentWrites
    <2>4. ASSUME NEW q, ShipmentWritten(v, q) PROVE BookRunsForward
      <3>1. \A x \in Orders : order'[x].at = order[x].at
        BY <2>4 DEF ShipmentWritten
      <3>2. /\ shipments' = (shipments \ RowFor(v)) \cup {q}
            /\ q.ship = v.ship /\ q.order = v.order /\ q.at = v.at
            /\ \A s \in RowFor(v) : ~(s.at # 0 /\ v.at < s.at)
        BY <2>4 DEF ShipmentWritten
      <3> HIDE DEF v
      <3>3. ASSUME NEW s \in shipments
            PROVE  \E t \in shipments' : /\ s.ship \in {t.ship, NoShip}
                                         /\ t.order = s.order /\ t.at >= s.at
        <4>1. CASE s \in RowFor(v)
          <5>1. q \in shipments' /\ s.at \in Nat
            BY <1>0, <3>2
          <5>2. q.at >= s.at
            BY <2>1, <3>2, <4>1, <5>1
          <5> QED
            BY <2>2, <3>2, <4>1, <5>1, <5>2
        <4>2. CASE s \notin RowFor(v)
          BY <1>0, <3>2, <4>2
        <4> QED
          BY <4>1, <4>2
      <3> QED
        BY <1>0, <3>1, <3>3 DEF BookRunsForward
    <2> QED
      BY <1>1, <2>3, <2>4
  <1>4. ASSUME NEW d \in Deliveries, Kind(d) = "redact", Forget(story[d].who)
        PROVE  BookRunsForward
    <2>1. story[d].who \in Shoppers
      BY <1>4, StoryTypes DEF CustomerPayload
    <2> QED
      BY <1>1, <1>4, <2>1, ForgetWrites
  <1>5. CASE ReconcileShop
    BY <1>1, <1>5, ReconcileShopWrites
  <1>6. CASE UNCHANGED rowVars
    BY <1>1, <1>6 DEF rowVars
  <1> QED
    BY <1>2, <1>3, <1>4, <1>5, <1>6 DEF RowStep

(* A step on the catalogue other than a commit leaves its rows alone.      *)
LEMMA CatalogueCases ==
    ASSUME TypeOK, CatalogueStep
    PROVE  \/ UNCHANGED <<watermark, rows, facts, undone>>
           \/ \E d \in Deliveries : Commits(d)
  <1>1. CASE CatalogueRests
    BY <1>1 DEF CatalogueRests, catalogueVars
  <1>2. ASSUME NEW d \in Deliveries, TellsOfEdit(d)
        PROVE  UNCHANGED <<watermark, rows, facts, undone>>
    BY <1>2 DEF TellsOfEdit, EditPrice, EditCost, WithdrawVariant
  <1>3. ASSUME NEW d \in Deliveries, Fetches(d)
        PROVE  UNCHANGED <<watermark, rows, facts, undone>>
    BY <1>3 DEF Fetches, Hold
  <1>4. ASSUME NEW d \in Deliveries, Dies(d)
        PROVE  UNCHANGED <<watermark, rows, facts, undone>>
    BY <1>4 DEF Dies, ForgetSnapshot
  <1> QED
    BY <1>1, <1>2, <1>3, <1>4 DEF CatalogueStep

LEMMA CatalogueForward ==
    ASSUME TypeOK, CatalogueStep
    PROVE  CatalogueRunsForward
  <1>0. watermark \in Nat /\ \A v \in Variants : rows[v].item \in Nat
    BY RowTypes, CatalogueAssumption DEF TypeOK, CatalogueTypeOK, Clock
  <1>1. CASE UNCHANGED <<watermark, rows, facts, undone>>
    BY <1>0, <1>1 DEF CatalogueRunsForward
  <1>2. ASSUME NEW d \in Deliveries, Commits(d) PROVE CatalogueRunsForward
    <2>1. /\ snap[d].clock \in Nat
          /\ \A v \in Variants : snap[d].item[v].at \in Nat
      BY SnapTypes, CatalogueAssumption DEF Clock
    <2>2. /\ watermark' = IF Publishes(snap[d]) THEN snap[d].clock ELSE watermark
          /\ \A v \in Variants : Left(snap[d], v)
      BY <1>2, CommitsIs
    <2>3. watermark' >= watermark
      BY <1>0, <2>1, <2>2 DEF Publishes
    <2>4. ASSUME NEW v \in Variants, v \notin undone'
          PROVE  rows'[v].item >= rows[v].item
      <3>1. \/ rows'[v].item = rows[v].item
            \/ rows'[v].item = snap[d].item[v].at /\ PublishesItem(snap[d], v)
        BY <2>2, <2>4 DEF Left
      <3> QED
        BY <1>0, <2>1, <3>1 DEF PublishesItem
    <2> QED
      BY <2>3, <2>4 DEF CatalogueRunsForward
  <1> QED
    BY <1>1, <1>2, CatalogueCases

(* No order, shipment or product goes back in Shopify's own time, in       *)
(* whatever order deliveries, retries and imports commit, and no inventory *)
(* item does but by an import.                                             *)
THEOREM ClocksRunForward == Spec => SourceClockNeverRunsBack
  <1>1. TypeOK /\ SummaryInv /\ [Next]_vars
          => [CatalogueRunsForward /\ BookRunsForward]_vars
    BY BookSteps, CatalogueSteps, BookForward, CatalogueForward DEF SummaryInv
  <1> QED
    BY <1>1, InitTyped, TypesKept, SummaryInit, SummaryKept, PTL
       DEF Spec, SourceClockNeverRunsBack

-----------------------------------------------------------------------------
(* The catalogue catches up                                                *)

LEMMA EditsKept ==
    ASSUME TypeOK, EditsInv, [Next]_vars
    PROVE  EditsInv'
  <1>0. /\ pc \in [Deliveries -> Steps] /\ processed \subseteq Deliveries
        /\ Edits \subseteq Deliveries /\ Edits' = Edits
    BY StoryStays DEF TypeOK, Edits, Told, Kind
  <1>1. ASSUME NEW d \in Deliveries, NEW from, NEW to, Moves(d, from, to),
               from # "done",
               \/ processed' = processed
               \/ processed' = processed \cup {d} /\ to = "done"
        PROVE  EditsInv'
    BY <1>0, <1>1 DEF EditsInv, Moves
  <1>2. ASSUME NEW d \in Deliveries,
               \/ Deliver(d) \/ Start(d) \/ Finish(d) \/ CheckoutWrites(d)
               \/ AccessAssembles(d)
        PROVE  EditsInv'
    <2>1. CASE Deliver(d)
      BY <1>1, <2>1 DEF Deliver
    <2>2. CASE Start(d)
      BY <1>1, <2>2 DEF Start
    <2>3. CASE Finish(d)
      BY <1>1, <2>3 DEF Finish
    <2>4. CASE CheckoutWrites(d)
      BY <1>1, <2>4 DEF CheckoutWrites
    <2>5. CASE AccessAssembles(d)
      BY <1>1, <2>5 DEF AccessAssembles
    <2> QED
      BY <1>2, <2>1, <2>2, <2>3, <2>4, <2>5
  <1>3. ASSUME NEW d \in Deliveries, Crash(d) PROVE EditsInv'
    <2>1. /\ pc[d] # "done" /\ processed' = processed
          /\ pc' = [pc EXCEPT ![d] = IF d \in processed THEN "done" ELSE "waiting"]
      BY <1>3 DEF Crash
    <2> QED
      BY <1>0, <2>1 DEF EditsInv
  <1>4. ASSUME NEW d \in Deliveries, Redact(d) PROVE EditsInv'
    <2> DEFINE c == story[d].who
               others == {x \in Deliveries \ {d} : Names(x, c)}
               orders == {x \in others : Kind(x) = "order"}
    <2>1. /\ processed' = processed \cup (others \ orders)
          /\ pc[d] = "running" /\ pc' = [pc EXCEPT ![d] = "acted"]
      BY <1>4, Zenon DEF Redact, Moves
    <2>2. \A x \in others : x \notin Edits
      BY DEF Names, Edits, Told
    <2> HIDE DEF others, orders
    <2> QED
      BY <1>0, <2>1, <2>2 DEF EditsInv
  <1>5. ASSUME NEW d \in Deliveries, NEW from, NEW to, Step(d, from, to),
               from # "done"
        PROVE  EditsInv'
    <2>1. Moves(d, from, to) /\ processed' = processed
      BY <1>5 DEF Step
    <2> QED
      BY <1>1, <1>5, <2>1
  <1>6. ASSUME NEW d \in Deliveries,
               \/ OrderFetches(d) \/ OrderPublishes(d) \/ OrderCommits(d)
               \/ ImportEnds(d)
               \/ ProductFetches(d) \/ InventoryFetches(d) \/ InventoryIgnored(d)
               \/ ProductCommits(d) \/ ImportCommits(d)
               \/ FulfillmentCommits(d) \/ CheckoutReads(d) \/ AccessRecords(d)
        PROVE  EditsInv'
    <2>1. \E from, to : from # "done" /\ Step(d, from, to)
      <3>1. CASE CheckoutReads(d)
        BY <3>1 DEF CheckoutReads
      <3>2. CASE OrderCommits(d)
        <4>1. Step(d, IF Kind(d) = "order" /\ Held(d).lines # {} THEN "ready"
                      ELSE "running", "acted")
          BY <3>2, Zenon DEF OrderCommits
        <4> QED
          BY <4>1
      <3> QED
        BY <1>6, <3>1, <3>2
           DEF OrderFetches, OrderPublishes, ImportEnds, ProductFetches,
               InventoryFetches, InventoryIgnored, ProductCommits, ImportCommits,
               FulfillmentCommits, AccessRecords
    <2> QED
      BY <1>5, <2>1
  <1>7. ASSUME UNCHANGED deliveryVars PROVE EditsInv'
    BY <1>0, <1>7 DEF EditsInv, deliveryVars
  <1>8. CASE (\E d \in Deliveries : Collect(d)) \/ Purge \/ NextDay
    BY <1>7, <1>8 DEF Collect, Purge, NextDay
  <1>9. CASE UNCHANGED vars
    <2>1. UNCHANGED deliveryVars
      BY <1>9, Zenon DEF vars
    <2> QED
      BY <1>7, <2>1
  <1>10. CASE Next
    BY <1>2, <1>3, <1>4, <1>6, <1>8, <1>10 DEF Next
  <1> QED
    BY <1>9, <1>10

(* Shopify's edits, in one: the clock of what they change runs on.         *)
LEMMA TellsIs ==
    ASSUME TypeOK, NEW d \in Deliveries, TellsOfEdit(d)
    PROVE  /\ UNCHANGED <<mayReadCost, watermark, rows, facts, snap, undone>>
           /\ source' \in Source
           /\ pc'[d] = "waiting" /\ pc[d] = "away"
           /\ \A x \in Deliveries \ {d} : pc'[x] = pc[x]
           /\ \/ /\ Kind(d) \in {"price", "withdraw"}
                 /\ source'.clock = source.clock + 1 /\ source'.item = source.item
              \/ /\ Kind(d) = "cost" /\ story[d].variant \in Variants
                 /\ source'.clock = source.clock /\ source'.price = source.price
                 /\ source'.sold = source.sold
                 /\ source'.item[story[d].variant].at
                      = source.item[story[d].variant].at + 1
                 /\ \A x \in Variants \ {story[d].variant} :
                      source'.item[x] = source.item[x]
  <1>0. pc \in [Deliveries -> Steps]
    BY DEF TypeOK
  <1>1. story[d] \in ProductPayload /\ Kind(d) = story[d].kind
    BY StoryTypes DEF TellsOfEdit, Kind
  <1>2. /\ story[d].variant \in Variants /\ story[d].value \in Prices \cup {0}
        /\ Kind(d) = "price" => story[d].value \in Prices
    BY <1>1 DEF ProductPayload
  <1>3. /\ pc'[d] = "waiting" /\ pc[d] = "away"
        /\ \A x \in Deliveries \ {d} : pc'[x] = pc[x]
    BY <1>0 DEF TellsOfEdit
  <1>4. CASE Kind(d) = "price" /\ EditPrice(story[d].variant, story[d].value)
    BY <1>2, <1>3, <1>4, EditPriceIs
  <1>5. CASE Kind(d) = "cost" /\ EditCost(story[d].variant, story[d].value)
    BY <1>2, <1>3, <1>5, EditCostIs
  <1>6. CASE Kind(d) = "withdraw" /\ WithdrawVariant(story[d].variant)
    BY <1>2, <1>3, <1>6, WithdrawVariantIs
  <1> QED
    BY <1>4, <1>5, <1>6 DEF TellsOfEdit

(* A fetch, a commit and a death, with the steps of the others.            *)
LEMMA FetchesIs ==
    ASSUME TypeOK, NEW d \in Deliveries, Fetches(d), source.clock >= 1
    PROVE  /\ UNCHANGED <<mayReadCost, source, watermark, rows, facts, undone>>
           /\ pc[d] = "running" /\ pc'[d] = "fetched"
           /\ \A x \in Deliveries \ {d} : pc'[x] = pc[x] /\ snap'[x] = snap[x]
           /\ snap'[d] # NoAnswer
           /\ snap'[d].clock = source.clock /\ snap'[d].price = source.price
           /\ snap'[d].item = source.item
           /\ Kind(d) \in {"price", "withdraw"} => snap'[d].of = source.sold
           /\ Kind(d) = "cost" => snap'[d].of = {story[d].variant}
  <1>1. PICK vs \in SUBSET source.sold :
          /\ Hold(d, vs)
          /\ Kind(d) \in {"price", "withdraw"} => vs = source.sold
          /\ Kind(d) = "cost" => vs = {story[d].variant}
    BY DEF Fetches
  <1>2. /\ snap'[d].clock = source.clock /\ snap'[d].of = vs
        /\ snap'[d].price = source.price /\ snap'[d].item = source.item
        /\ \A x \in Deliveries \ {d} : snap'[x] = snap[x]
        /\ UNCHANGED <<mayReadCost, source, watermark, rows, facts, undone>>
    BY <1>1, HoldIs
  <1>3. snap'[d] # NoAnswer
    <2>1. source.clock # 0 /\ NoAnswer.clock = 0
      BY NoAnswerIs
    <2> QED
      BY <1>2, <2>1
  <1>4. /\ pc[d] = "running" /\ pc'[d] = "fetched"
        /\ \A x \in Deliveries \ {d} : pc'[x] = pc[x]
    BY DEF Fetches, TypeOK
  <1> QED
    BY <1>1, <1>2, <1>3, <1>4

LEMMA DiesIs ==
    ASSUME TypeOK, EditsInv, NEW d \in Deliveries, Dies(d)
    PROVE  /\ UNCHANGED <<mayReadCost, source, watermark, rows, facts, undone>>
           /\ d \in Edits => pc'[d] = "waiting"
           /\ \A x \in Deliveries \ {d} : pc'[x] = pc[x] /\ snap'[x] = snap[x]
           /\ snap'[d] = NoAnswer
  <1>1. /\ snap' = Cleared(d)
        /\ UNCHANGED <<mayReadCost, source, watermark, rows, facts, undone>>
        /\ pc[d] # "done"
        /\ pc' = [pc EXCEPT ![d] = IF d \in processed THEN "done" ELSE "waiting"]
    BY DEF Dies, ForgetSnapshot
  <1>2. pc \in [Deliveries -> Steps]
    BY DEF TypeOK
  <1> QED
    BY <1>1, <1>2, ClearedIs DEF EditsInv

LEMMA CommitMoves ==
    ASSUME TypeOK, NEW d \in Deliveries, Commits(d)
    PROVE  /\ pc[d] = "fetched" /\ \A x \in Deliveries \ {d} : pc'[x] = pc[x]
  BY DEF Commits, TypeOK

(* One answer against the product and the answers of others.               *)
SnapPast(s) ==
    /\ s.clock \in 1..source.clock
    /\ s.clock = source.clock => s.price = source.price
    /\ \A v \in Variants :
         /\ s.item[v].at <= source.item[v].at
         /\ s.item[v].at = source.item[v].at =>
              s.item[v].cost = source.item[v].cost

InOrder(s, t) == s.clock < t.clock =>
                    \A v \in Variants : s.item[v].at <= t.item[v].at

LEMMA SnapInvIs ==
    SnapInv <=> /\ source.clock >= 1 /\ watermark <= source.clock
                /\ \A d \in Deliveries : snap[d] # NoAnswer => SnapPast(snap[d])
                /\ \A d, e \in Deliveries :
                     (snap[d] # NoAnswer /\ snap[e] # NoAnswer) =>
                        InOrder(snap[d], snap[e])
  BY DEF SnapInv, SnapPast, InOrder

LEMMA SnapKept ==
    ASSUME TypeOK, SnapInv, EditsInv, CatalogueStep
    PROVE  SnapInv'
  <1>0. /\ source.clock >= 1 /\ watermark <= source.clock
        /\ \A d \in Deliveries : snap[d] # NoAnswer => SnapPast(snap[d])
        /\ \A d, e \in Deliveries :
             (snap[d] # NoAnswer /\ snap[e] # NoAnswer) =>
                InOrder(snap[d], snap[e])
    BY SnapInvIs
  <1>a. /\ source.clock \in Nat /\ watermark \in Nat
        /\ \A v \in Variants : source.item[v].at \in Nat
    BY SourceTypes, CatalogueAssumption DEF TypeOK, CatalogueTypeOK, Clock
  <1>b. \A d \in Deliveries : /\ snap[d].clock \in Nat
                              /\ \A v \in Variants : snap[d].item[v].at \in Nat
    BY SnapTypes, CatalogueAssumption DEF Clock
  <1>1. ASSUME source' = source, watermark' \in Nat,
               watermark' <= source.clock,
               \A d \in Deliveries : snap'[d] = NoAnswer \/ snap'[d] = snap[d]
        PROVE  SnapInv'
    <2>1. \A d \in Deliveries : snap'[d] # NoAnswer => SnapPast(snap'[d])
      BY <1>0, <1>1
    <2>2. \A d \in Deliveries : snap'[d] # NoAnswer => SnapPast(snap[d])'
      BY <1>1, <2>1 DEF SnapPast
    <2>3. \A d, e \in Deliveries :
             (snap'[d] # NoAnswer /\ snap'[e] # NoAnswer) =>
                InOrder(snap'[d], snap'[e])
      BY <1>0, <1>1
    <2> QED
      BY <1>0, <1>1, <2>2, <2>3 DEF SnapInv, SnapPast, InOrder
  <1>2. CASE CatalogueRests
    BY <1>0, <1>1, <1>2, <1>a DEF CatalogueRests, catalogueVars
  <1>3. ASSUME NEW d \in Deliveries, Commits(d) PROVE SnapInv'
    <2>1. /\ snap[d] # NoAnswer /\ snap'[d] = NoAnswer /\ source' = source
          /\ \A x \in Deliveries \ {d} : snap'[x] = snap[x]
          /\ watermark' = IF Publishes(snap[d]) THEN snap[d].clock ELSE watermark
      BY <1>3, CommitsIs
    <2>2. snap[d].clock \in 1..source.clock
      BY <1>0, <2>1 DEF SnapPast
    <2>3. watermark' \in Nat /\ watermark' <= source.clock
      BY <1>0, <1>a, <1>b, <2>1, <2>2
    <2> QED
      BY <1>1, <2>1, <2>3
  <1>4. ASSUME NEW d \in Deliveries, Dies(d) PROVE SnapInv'
    <2>1. /\ UNCHANGED <<source, watermark>> /\ snap'[d] = NoAnswer
          /\ \A x \in Deliveries \ {d} : snap'[x] = snap[x]
      BY <1>4, DiesIs
    <2> QED
      BY <1>0, <1>1, <1>a, <2>1
  <1>5. ASSUME NEW d \in Deliveries, Fetches(d) PROVE SnapInv'
    <2>1. /\ UNCHANGED <<source, watermark>>
          /\ \A x \in Deliveries \ {d} : snap'[x] = snap[x]
          /\ snap'[d] # NoAnswer
          /\ snap'[d].clock = source.clock /\ snap'[d].price = source.price
          /\ snap'[d].item = source.item
      BY <1>0, <1>5, FetchesIs
    <2>2. SnapPast(snap'[d])
      BY <1>0, <1>a, <2>1 DEF SnapPast
    <2>3. \A x \in Deliveries : snap'[x] # NoAnswer => SnapPast(snap'[x])
      BY <1>0, <2>1, <2>2
    <2>4. ASSUME NEW x \in Deliveries, NEW y \in Deliveries,
                 snap'[x] # NoAnswer, snap'[y] # NoAnswer
          PROVE  InOrder(snap'[x], snap'[y])
      <3>1. CASE y = d
        BY <1>a, <2>1, <2>3, <2>4, <3>1 DEF InOrder, SnapPast
      <3>2. CASE x = d /\ y # d
        <4>1. snap'[y].clock <= source.clock /\ snap'[y].clock \in Nat
          BY <1>b, <2>1, <2>3, <2>4, <3>2 DEF SnapPast
        <4>2. ~(snap'[x].clock < snap'[y].clock)
          BY <1>a, <2>1, <3>2, <4>1
        <4> QED
          BY <4>2 DEF InOrder
      <3>3. CASE x # d /\ y # d
        BY <1>0, <2>1, <2>4, <3>3
      <3> QED
        BY <3>1, <3>2, <3>3
    <2> QED
      BY <1>0, <2>1, <2>3, <2>4 DEF SnapInv, SnapPast, InOrder
  <1>6. ASSUME NEW d \in Deliveries, TellsOfEdit(d) PROVE SnapInv'
    <2>1. /\ UNCHANGED <<watermark, snap>>
          /\ \/ source'.clock = source.clock + 1 /\ source'.item = source.item
             \/ /\ story[d].variant \in Variants
                /\ source'.clock = source.clock /\ source'.price = source.price
                /\ source'.item[story[d].variant].at
                     = source.item[story[d].variant].at + 1
                /\ \A x \in Variants \ {story[d].variant} :
                     source'.item[x] = source.item[x]
      BY <1>6, TellsIs
    <2>2. source'.clock >= 1 /\ watermark' <= source'.clock
      BY <1>0, <1>a, <2>1
    <2>3. ASSUME NEW x \in Deliveries, snap[x] # NoAnswer
          PROVE  SnapPast(snap[x])'
      <3>0. SnapPast(snap[x])
        BY <1>0, <2>3
      <3>1. CASE source'.clock = source.clock + 1 /\ source'.item = source.item
        <4>1. snap[x].clock \in 1..source'.clock /\ snap[x].clock # source'.clock
          BY <1>a, <1>b, <3>0, <3>1 DEF SnapPast
        <4> QED
          BY <2>1, <3>0, <3>1, <4>1 DEF SnapPast
      <3>2. CASE /\ story[d].variant \in Variants
                 /\ source'.clock = source.clock /\ source'.price = source.price
                 /\ source'.item[story[d].variant].at
                      = source.item[story[d].variant].at + 1
                 /\ \A z \in Variants \ {story[d].variant} :
                      source'.item[z] = source.item[z]
        <4>1. ASSUME NEW v \in Variants
              PROVE  /\ snap[x].item[v].at <= source'.item[v].at
                     /\ snap[x].item[v].at = source'.item[v].at =>
                          snap[x].item[v].cost = source'.item[v].cost
          <5>1. CASE v = story[d].variant
            <6>1. snap[x].item[v].at <= source.item[v].at
              BY <3>0 DEF SnapPast
            <6> QED
              BY <1>a, <1>b, <3>2, <5>1, <6>1
          <5>2. CASE v # story[d].variant
            BY <3>0, <3>2, <5>2 DEF SnapPast
          <5> QED
            BY <5>1, <5>2
        <4> QED
          BY <2>1, <3>0, <3>2, <4>1 DEF SnapPast
      <3> QED
        BY <2>1, <3>1, <3>2
    <2> QED
      BY <1>0, <2>1, <2>2, <2>3 DEF SnapInv, SnapPast, InOrder
  <1> QED
    BY <1>2, <1>3, <1>4, <1>5, <1>6 DEF CatalogueStep

PricesAreRight ==
    /\ watermark = source.clock \/ source.clock = 1
    /\ \A v \in source.sold : rows[v].price \in {0, source.price[v]}

LEMMA PriceKept ==
    ASSUME TypeOK, SnapInv, EditsInv, PriceInv, CatalogueStep, story' = story
    PROVE  PriceInv'
  <1>0. /\ \A x \in Deliveries : Kind(x)' = Kind(x)
        /\ \A x \in Deliveries : Kind(x) \in {"price", "withdraw"} => x \in Edits
        /\ source.clock >= 1
        /\ source.clock \in Nat
    BY SourceTypes, CatalogueAssumption
       DEF Kind, Edits, Told, SnapInv, Clock
  <1>1. PriceInv' <=> (\E x \in Deliveries : PriceIsComing(x)') \/ PricesAreRight'
    BY Zenon DEF PriceInv, PricesAreRight
  <1>2. (\E x \in Deliveries : PriceIsComing(x)) \/ PricesAreRight
    BY Zenon DEF PriceInv, PricesAreRight
  <1>3. ASSUME NEW x \in Deliveries, PriceIsComing(x),
               source'.clock = source.clock, source'.sold = source.sold,
               pc'[x] = pc[x], snap'[x] = snap[x]
        PROVE  PriceIsComing(x)'
    BY <1>0, <1>3 DEF PriceIsComing
  <1>4. ASSUME NEW x \in Deliveries, Kind(x) \in {"price", "withdraw"},
               pc'[x] \in {"waiting", "running"}
        PROVE  PriceInv'
    <2>1. PriceIsComing(x)'
      BY <1>0, <1>4 DEF PriceIsComing, Pending
    <2> QED
      BY <1>1, <2>1
  <1>5. CASE CatalogueRests
    <2>1. /\ UNCHANGED <<source, watermark, rows, snap>>
          /\ \A d \in Edits : \/ pc[d] \notin Pending \/ pc'[d] = pc[d]
                              \/ pc[d] = "waiting" /\ pc'[d] = "running"
                              \/ Kind(d) = "cost"
      BY <1>5 DEF CatalogueRests, catalogueVars, Bystander
    <2>2. PricesAreRight => PricesAreRight'
      BY <2>1 DEF PricesAreRight
    <2>3. ASSUME NEW x \in Deliveries, PriceIsComing(x)
          PROVE  PriceInv'
      <3>1. /\ Kind(x) \in {"price", "withdraw"} /\ pc[x] \in Pending
            /\ x \in Edits
        BY <1>0, <2>3 DEF PriceIsComing
      <3>2. pc'[x] = pc[x] \/ pc'[x] = "running"
        BY <2>1, <3>1
      <3> QED
        BY <1>1, <1>3, <1>4, <2>1, <2>3, <3>1, <3>2
    <2> QED
      BY <1>1, <1>2, <2>2, <2>3
  <1>6. ASSUME NEW d \in Deliveries, TellsOfEdit(d) PROVE PriceInv'
    <2>1. /\ UNCHANGED <<watermark, rows, snap>>
          /\ pc'[d] = "waiting" /\ \A x \in Deliveries \ {d} : pc'[x] = pc[x]
          /\ \/ Kind(d) \in {"price", "withdraw"}
             \/ /\ Kind(d) = "cost"
                /\ source'.clock = source.clock /\ source'.price = source.price
                /\ source'.sold = source.sold
      BY <1>6, TellsIs
    <2>2. CASE Kind(d) \in {"price", "withdraw"}
      BY <1>4, <2>1, <2>2
    <2>3. CASE /\ Kind(d) = "cost"
               /\ source'.clock = source.clock /\ source'.price = source.price
               /\ source'.sold = source.sold
      <3>1. PricesAreRight => PricesAreRight'
        BY <2>1, <2>3 DEF PricesAreRight
      <3>2. ASSUME NEW x \in Deliveries, PriceIsComing(x)
            PROVE  PriceIsComing(x)'
        <4>1. x # d
          BY <2>3, <3>2 DEF PriceIsComing
        <4> QED
          BY <1>3, <2>1, <2>3, <3>2, <4>1
      <3> QED
        BY <1>1, <1>2, <3>1, <3>2
    <2> QED
      BY <2>1, <2>2, <2>3
  <1>7. ASSUME NEW d \in Deliveries, Fetches(d) PROVE PriceInv'
    <2>1. /\ UNCHANGED <<source, watermark, rows>>
          /\ pc'[d] = "fetched"
          /\ \A x \in Deliveries \ {d} : pc'[x] = pc[x] /\ snap'[x] = snap[x]
          /\ snap'[d] # NoAnswer /\ snap'[d].clock = source.clock
          /\ Kind(d) \in {"price", "withdraw"} => snap'[d].of = source.sold
      BY <1>0, <1>7, FetchesIs
    <2>2. PricesAreRight => PricesAreRight'
      BY <2>1 DEF PricesAreRight
    <2>3. ASSUME NEW x \in Deliveries, PriceIsComing(x)
          PROVE  PriceIsComing(x)'
      <3>1. CASE x = d
        BY <1>0, <2>1, <2>3, <3>1 DEF PriceIsComing, Pending
      <3>2. CASE x # d
        BY <1>3, <2>1, <2>3, <3>2
      <3> QED
        BY <3>1, <3>2
    <2> QED
      BY <1>1, <1>2, <2>2, <2>3
  <1>8. ASSUME NEW d \in Deliveries, Dies(d) PROVE PriceInv'
    <2>1. /\ UNCHANGED <<source, watermark, rows>>
          /\ d \in Edits => pc'[d] = "waiting"
          /\ \A x \in Deliveries \ {d} : pc'[x] = pc[x] /\ snap'[x] = snap[x]
      BY <1>8, DiesIs
    <2>2. PricesAreRight => PricesAreRight'
      BY <2>1 DEF PricesAreRight
    <2>3. ASSUME NEW x \in Deliveries, PriceIsComing(x)
          PROVE  PriceInv'
      <3>1. CASE x = d
        BY <1>0, <1>4, <2>1, <2>3, <3>1 DEF PriceIsComing
      <3>2. CASE x # d
        BY <1>1, <1>3, <2>1, <2>3, <3>2
      <3> QED
        BY <3>1, <3>2
    <2> QED
      BY <1>1, <1>2, <2>2, <2>3
  <1>9. ASSUME NEW d \in Deliveries, Commits(d) PROVE PriceInv'
    <2> DEFINE s == snap[d]
    <2>1. /\ s # NoAnswer /\ source' = source /\ pc[d] = "fetched"
          /\ \A x \in Deliveries \ {d} : pc'[x] = pc[x] /\ snap'[x] = snap[x]
          /\ watermark' = IF Publishes(s) THEN s.clock ELSE watermark
          /\ \A v \in Variants :
               rows'[v].price = IF v \in s.of /\ Publishes(s) THEN s.price[v]
                                ELSE rows[v].price
      BY <1>9, CommitsIs, CommitMoves DEF Left
    <2>2. /\ s.clock \in 1..source.clock /\ watermark <= source.clock
          /\ s.clock = source.clock => s.price = source.price
      BY <2>1 DEF SnapInv
    <2>3. /\ s.clock \in Nat /\ watermark \in Nat /\ source.sold \subseteq Variants
      BY SnapTypes, SourceTypes, CatalogueAssumption
         DEF TypeOK, CatalogueTypeOK, Clock
    <2> HIDE DEF s
    <2>4. CASE \E x \in Deliveries \ {d} : PriceIsComing(x)
      BY <1>1, <1>3, <2>1, <2>4
    <2>5. CASE PriceIsComing(d)
      <3>1. s.clock = source.clock /\ s.of = source.sold
        BY <2>1, <2>5 DEF PriceIsComing, s
      <3>2. Publishes(s)
        BY <2>2, <2>3, <3>1 DEF Publishes
      <3>3. PricesAreRight'
        BY <2>1, <2>2, <2>3, <3>1, <3>2 DEF PricesAreRight
      <3> QED
        BY <1>1, <3>3
    <2>6. CASE PricesAreRight
      <3>1. CASE Publishes(s)
        <4>1. s.clock = source.clock
          BY <1>0, <2>2, <2>3, <2>6, <3>1 DEF Publishes, PricesAreRight
        <4>2. PricesAreRight'
          BY <2>1, <2>2, <2>3, <2>6, <3>1, <4>1 DEF PricesAreRight
        <4> QED
          BY <1>1, <4>2
      <3>2. CASE ~Publishes(s)
        <4>1. PricesAreRight'
          BY <2>1, <2>3, <2>6, <3>2 DEF PricesAreRight
        <4> QED
          BY <1>1, <4>1
      <3> QED
        BY <3>1, <3>2
    <2> QED
      BY <1>2, <2>4, <2>5, <2>6
  <1> QED
    BY <1>5, <1>6, <1>7, <1>8, <1>9 DEF CatalogueStep

LEMMA FactsKept ==
    ASSUME TypeOK, CurrentPriceIsAFact, CatalogueStep
    PROVE  CurrentPriceIsAFact'
  <1>1. CASE UNCHANGED <<watermark, rows, facts, undone>>
    BY <1>1 DEF CurrentPriceIsAFact
  <1>2. ASSUME NEW d \in Deliveries, Commits(d) PROVE CurrentPriceIsAFact'
    <2>1. ASSUME NEW v \in Variants, rows'[v].price # 0
          PROVE  \E f \in facts'[v] : f.price = rows'[v].price
      <3>1. Left(snap[d], v)
        BY <1>2, CommitsIs
      <3>2. rows[v].price # 0 => \E f \in facts[v] : f.price = rows[v].price
        BY DEF CurrentPriceIsAFact
      <3> QED
        BY <2>1, <3>1, <3>2 DEF Left
    <2> QED
      BY <2>1 DEF CurrentPriceIsAFact
  <1> QED
    BY <1>1, <1>2, CatalogueCases

(* The cost of a variant is on its way, or there, or an import's.          *)
CostSettles(v) == \/ \E d \in Deliveries : CostIsComing(d, v)
                  \/ rows[v].item = source.item[v].at
                  \/ v \in undone
                  \/ CostWillCome(v)

CostMatches(v) ==
    /\ rows[v].item <= source.item[v].at
    /\ (mayReadCost /\ rows[v].item = source.item[v].at) =>
         rows[v].cost = source.item[v].cost

LEMMA CostInvIs ==
    CostInv <=> \A v \in Variants : /\ CostMatches(v)
                                    /\ mayReadCost => CostSettles(v)
  BY Zenon DEF CostInv, CostMatches, CostSettles

(* A commit and the row, the cost and the item of one variant.             *)
LEMMA CostCommits ==
    ASSUME TypeOK, SnapInv, NEW v \in Variants, CostMatches(v),
           mayReadCost => CostSettles(v),
           NEW d \in Deliveries, Commits(d), story' = story
    PROVE  /\ CostMatches(v)'
           /\ mayReadCost' => CostSettles(v)'
  <1> DEFINE s == snap[d]
             cur == source.item[v]
  <1>1. /\ s # NoAnswer /\ snap'[d] = NoAnswer
        /\ source' = source /\ mayReadCost' = mayReadCost
        /\ pc[d] = "fetched" /\ undone \subseteq undone'
        /\ \A x \in Deliveries \ {d} : pc'[x] = pc[x] /\ snap'[x] = snap[x]
        /\ watermark' = IF Publishes(s) THEN s.clock ELSE watermark
        /\ Left(s, v)
        /\ (/\ Kind(d) # "import" /\ v \in s.of /\ PublishesItem(s, v)
            /\ rows[v].price # 0) => rows'[v].item = s.item[v].at
    BY CommitsIs, CommitMoves
  <1>2. /\ s.clock \in 1..source.clock /\ watermark <= source.clock
        /\ s.item[v].at <= cur.at
        /\ s.item[v].at = cur.at => s.item[v].cost = cur.cost
        /\ \A e \in Deliveries :
             (snap[e] # NoAnswer /\ s.clock < snap[e].clock) =>
                s.item[v].at <= snap[e].item[v].at
    BY <1>1 DEF SnapInv
  <1>3. \A e \in Deliveries : snap[e] # NoAnswer => snap[e].item[v].at <= cur.at
    BY DEF SnapInv
  <1>4. /\ s.item[v].at \in Nat /\ cur.at \in Nat /\ rows[v].item \in Nat
        /\ watermark \in Nat /\ s.clock \in Nat
        /\ \A e \in Deliveries : /\ snap[e].clock \in Nat
                                 /\ snap[e].item[v].at \in Nat
    BY SnapTypes, SourceTypes, RowTypes, CatalogueAssumption
       DEF TypeOK, CatalogueTypeOK, Clock
  <1>5. rows[v].item <= cur.at
    BY DEF CostMatches
  <1> HIDE DEF s
  <1>6. CostMatches(v)'
    <2>1. \/ rows'[v].item = rows[v].item /\ rows'[v].cost = rows[v].cost
          \/ /\ rows'[v].item = s.item[v].at
             /\ mayReadCost => rows'[v].cost = s.item[v].cost
      BY <1>1 DEF Left
    <2> QED
      BY <1>1, <1>2, <2>1 DEF CostMatches
  <1>7. ASSUME mayReadCost PROVE CostSettles(v)'
    <2>1. CostSettles(v)
      BY <1>7
    <2>2. CASE \E e \in Deliveries \ {d} : CostIsComing(e, v)
      <3>1. PICK e \in Deliveries \ {d} : CostIsComing(e, v)
        BY <2>2
      <3>2. CostIsComing(e, v)'
        BY <1>1, <3>1 DEF CostIsComing, Kind
      <3> QED
        BY <3>2, Zenon DEF CostSettles
    <2>3. CASE v \in undone
      <3>1. v \in undone'
        BY <1>1, <2>3
      <3> QED
        BY <3>1, Zenon DEF CostSettles
    <2>4. CASE rows'[v].item = cur.at
      <3>1. rows'[v].item = source'.item[v].at
        BY <1>1, <2>4
      <3> QED
        BY <3>1, Zenon DEF CostSettles
    <2>5. CASE rows[v].item = cur.at
      <3>1. \/ rows'[v].item = rows[v].item
            \/ rows'[v].item = s.item[v].at /\ PublishesItem(s, v)
            \/ v \in undone'
        BY <1>1 DEF Left
      <3>2. CASE v \in undone'
        BY <3>2, Zenon DEF CostSettles
      <3>3. CASE v \notin undone'
        <4>1. rows'[v].item = cur.at
          BY <1>2, <1>4, <2>5, <3>1, <3>3 DEF PublishesItem, s
        <4> QED
          BY <2>4, <4>1
      <3> QED
        BY <3>2, <3>3
    <2>6. CASE CostIsComing(d, v)
      <3>1. /\ Kind(d) = "cost" /\ v \in s.of /\ s.item[v].at = cur.at
        BY <1>1, <2>6 DEF CostIsComing, s
      <3>2. PublishesItem(s, v)
        BY <1>4, <1>5, <3>1 DEF PublishesItem, s
      <3>3. CASE Publishes(s) \/ rows[v].price # 0
        <4>1. rows'[v].item = s.item[v].at
          BY <1>1, <3>1, <3>2, <3>3 DEF Left
        <4> QED
          BY <2>4, <3>1, <4>1
      <3>4. CASE ~Publishes(s) /\ rows[v].price = 0
        <4>1. rows'[v].price = 0 /\ watermark' = watermark
          BY <1>1, <3>4 DEF Left
        <4>2. ASSUME NEW e \in Deliveries, snap'[e] # NoAnswer,
                     Publishes(snap[e])'
              PROVE  snap'[e].item[v].at = source'.item[v].at
          <5>1. e # d /\ snap'[e] = snap[e] /\ snap[e] # NoAnswer
            BY <1>1, <4>2
          <5>2. snap[e].clock >= watermark /\ s.clock < watermark
            BY <1>4, <3>4, <4>1, <4>2, <5>1 DEF Publishes
          <5>3. s.clock < snap[e].clock
            BY <1>4, <5>2
          <5>4. snap[e].item[v].at = cur.at
            BY <1>2, <1>3, <1>4, <3>1, <5>1, <5>3
          <5> QED
            BY <1>1, <5>1, <5>4
        <4>3. CostWillCome(v)'
          BY <4>1, <4>2 DEF CostWillCome
        <4> QED
          BY <4>3, Zenon DEF CostSettles
      <3> QED
        BY <3>3, <3>4
    <2>7. CASE CostWillCome(v)
      <3>1. CASE v \in s.of /\ Publishes(s)
        <4>1. s.item[v].at = cur.at
          BY <1>1, <2>7, <3>1 DEF CostWillCome, s
        <4>2. PublishesItem(s, v)
          BY <1>4, <1>5, <4>1 DEF PublishesItem, s
        <4>3. rows'[v].item = cur.at
          BY <1>1, <3>1, <4>1, <4>2 DEF Left
        <4> QED
          BY <2>4, <4>3
      <3>2. CASE ~(v \in s.of /\ Publishes(s))
        <4>1. rows'[v].price = 0
          BY <1>1, <2>7, <3>2 DEF Left, CostWillCome
        <4>2. ASSUME NEW e \in Deliveries, snap'[e] # NoAnswer,
                     v \in snap'[e].of, Publishes(snap[e])'
              PROVE  snap'[e].item[v].at = source'.item[v].at
          <5>1. e # d /\ snap'[e] = snap[e] /\ snap[e] # NoAnswer
            BY <1>1, <4>2
          <5>2. Publishes(snap[e])
            BY <1>1, <1>2, <1>4, <4>2, <5>1 DEF Publishes
          <5> QED
            BY <1>1, <2>7, <4>2, <5>1, <5>2 DEF CostWillCome
        <4>3. CostWillCome(v)'
          BY <4>1, <4>2 DEF CostWillCome
        <4> QED
          BY <4>3, Zenon DEF CostSettles
      <3> QED
        BY <3>1, <3>2
    <2> QED
      BY <2>1, <2>2, <2>3, <2>5, <2>6, <2>7 DEF CostSettles
  <1> QED
    BY <1>1, <1>6, <1>7

LEMMA CostKept ==
    ASSUME TypeOK, SnapInv, EditsInv, CostInv, CatalogueStep, story' = story
    PROVE  CostInv'
  <1>0. /\ \A x \in Deliveries : Kind(x)' = Kind(x)
        /\ \A x \in Deliveries : Kind(x) = "cost" => x \in Edits
        /\ source.clock >= 1
    BY DEF Kind, Edits, Told, SnapInv
  <1>1. CostInv' <=> \A v \in Variants : /\ CostMatches(v)'
                                         /\ mayReadCost' => CostSettles(v)'
    BY Zenon DEF CostInv, CostMatches, CostSettles
  <1> SUFFICES ASSUME NEW v \in Variants
               PROVE  CostMatches(v)' /\ (mayReadCost' => CostSettles(v)')
    BY <1>1
  <1>2. CostMatches(v) /\ (mayReadCost => CostSettles(v))
    BY CostInvIs
  <1>3. ASSUME NEW x \in Deliveries, CostIsComing(x, v),
               source'.item[v] = source.item[v],
               pc'[x] = pc[x], snap'[x] = snap[x]
        PROVE  CostIsComing(x, v)'
    BY <1>0, <1>3 DEF CostIsComing
  <1>4. ASSUME NEW x \in Deliveries, Kind(x) = "cost", story[x].variant = v,
               pc'[x] \in {"waiting", "running"}
        PROVE  CostSettles(v)'
    <2>1. CostIsComing(x, v)'
      BY <1>0, <1>4 DEF CostIsComing, Pending
    <2> QED
      BY <2>1, Zenon DEF CostSettles
  (* A step that leaves the row and the item settles v if it leaves a cost *)
  (* on its way, or only adds answers that know the item as it is.         *)
  <1>5. ASSUME UNCHANGED <<mayReadCost, watermark, rows, undone>>,
               source'.item[v] = source.item[v],
               \A x \in Deliveries :
                 (mayReadCost /\ CostIsComing(x, v)) => CostSettles(v)',
               \A x \in Deliveries :
                 \/ snap'[x] \in {snap[x], NoAnswer}
                 \/ snap'[x].item[v].at = source.item[v].at
        PROVE  CostMatches(v)' /\ (mayReadCost' => CostSettles(v)')
    <2>1. CostMatches(v)'
      BY <1>2, <1>5 DEF CostMatches
    <2>2. ASSUME mayReadCost PROVE CostSettles(v)'
      <3>1. CASE \E x \in Deliveries : CostIsComing(x, v)
        BY <1>5, <2>2, <3>1
      <3>2. CASE rows[v].item = source.item[v].at
        <4>1. rows'[v].item = source'.item[v].at
          BY <1>5, <3>2
        <4> QED
          BY <4>1, Zenon DEF CostSettles
      <3>3. CASE v \in undone
        <4>1. v \in undone'
          BY <1>5, <3>3
        <4> QED
          BY <4>1, Zenon DEF CostSettles
      <3>4. CASE CostWillCome(v)
        <4>1. \A x \in Deliveries :
                (snap'[x] # NoAnswer /\ v \in snap'[x].of /\ Publishes(snap'[x])) =>
                   snap'[x].item[v].at = source.item[v].at
          BY <1>5, <3>4 DEF CostWillCome
        <4>2. \A x \in Deliveries : Publishes(snap[x])' <=> Publishes(snap'[x])
          BY <1>5 DEF Publishes
        <4>3. NoAnswer' = NoAnswer
          BY DEF NoAnswer
        <4>4. CostWillCome(v)'
          BY <1>5, <3>4, <4>1, <4>2, <4>3 DEF CostWillCome
        <4> QED
          BY <4>4, Zenon DEF CostSettles
      <3> QED
        BY <1>2, <2>2, <3>1, <3>2, <3>3, <3>4 DEF CostSettles
    <2> QED
      BY <1>5, <2>1, <2>2
  <1>6. ASSUME NEW x \in Deliveries, CostIsComing(x, v)'
        PROVE  CostSettles(v)'
    BY <1>6, Zenon DEF CostSettles
  <1>7. CASE CatalogueRests
    <2>1. /\ UNCHANGED <<mayReadCost, source, watermark, rows, snap, undone>>
          /\ \A d \in Edits : \/ pc[d] \notin Pending \/ pc'[d] = pc[d]
                              \/ pc[d] = "waiting" /\ pc'[d] = "running"
                              \/ Kind(d) = "cost" /\ ~mayReadCost
      BY <1>7 DEF CatalogueRests, catalogueVars, Bystander
    <2>2. ASSUME NEW x \in Deliveries, mayReadCost, CostIsComing(x, v)
          PROVE  CostSettles(v)'
      <3>1. /\ Kind(x) = "cost" /\ story[x].variant = v
            /\ pc[x] \in Pending /\ x \in Edits
        BY <1>0, <2>2 DEF CostIsComing
      <3>2. pc'[x] = pc[x] \/ pc'[x] = "running"
        BY <2>1, <2>2, <3>1
      <3> QED
        BY <1>3, <1>4, <1>6, <2>1, <2>2, <3>1, <3>2
    <2> QED
      BY <1>5, <2>1, <2>2
  <1>8. ASSUME NEW d \in Deliveries, TellsOfEdit(d)
        PROVE  CostMatches(v)' /\ (mayReadCost' => CostSettles(v)')
    <2>1. /\ UNCHANGED <<mayReadCost, watermark, rows, snap, undone>>
          /\ pc'[d] = "waiting" /\ pc[d] = "away"
          /\ \A x \in Deliveries \ {d} : pc'[x] = pc[x]
          /\ \/ source'.item = source.item
             \/ /\ Kind(d) = "cost" /\ story[d].variant \in Variants
                /\ source'.item[story[d].variant].at
                     = source.item[story[d].variant].at + 1
                /\ \A x \in Variants \ {story[d].variant} :
                     source'.item[x] = source.item[x]
      BY <1>8, TellsIs
    <2>2. ASSUME NEW x \in Deliveries, CostIsComing(x, v),
                 source'.item[v] = source.item[v]
          PROVE  CostSettles(v)'
      <3>1. x # d
        BY <2>1, <2>2 DEF CostIsComing, Pending
      <3> QED
        BY <1>3, <1>6, <2>1, <2>2, <3>1
    <2>3. CASE source'.item[v] = source.item[v]
      BY <1>5, <2>1, <2>2, <2>3
    <2>4. CASE /\ Kind(d) = "cost" /\ story[d].variant = v
               /\ source'.item[v].at = source.item[v].at + 1
      <3>1. source.item[v].at \in Nat /\ rows[v].item \in Nat
        BY SourceTypes, RowTypes, CatalogueAssumption DEF Clock
      <3>2. CostMatches(v)'
        BY <1>2, <2>1, <2>4, <3>1 DEF CostMatches
      <3> QED
        BY <1>4, <2>1, <2>4, <3>2
    <2> QED
      BY <2>1, <2>3, <2>4
  <1>9. ASSUME NEW d \in Deliveries, Fetches(d)
        PROVE  CostMatches(v)' /\ (mayReadCost' => CostSettles(v)')
    <2>1. /\ UNCHANGED <<mayReadCost, source, watermark, rows, undone>>
          /\ pc'[d] = "fetched"
          /\ \A x \in Deliveries \ {d} : pc'[x] = pc[x] /\ snap'[x] = snap[x]
          /\ snap'[d] # NoAnswer /\ snap'[d].item = source.item
          /\ Kind(d) = "cost" => snap'[d].of = {story[d].variant}
      BY <1>0, <1>9, FetchesIs
    <2>2. ASSUME NEW x \in Deliveries, CostIsComing(x, v)
          PROVE  CostSettles(v)'
      <3>1. CASE x = d
        <4>1. /\ Kind(d)' = "cost" /\ story'[d].variant = v
              /\ v \in snap'[d].of /\ snap'[d].item[v].at = source'.item[v].at
          BY <1>0, <2>1, <2>2, <3>1 DEF CostIsComing
        <4>2. NoAnswer' = NoAnswer
          BY DEF NoAnswer
        <4>3. CostIsComing(d, v)'
          BY <2>1, <4>1, <4>2 DEF CostIsComing, Pending
        <4> QED
          BY <1>6, <4>3
      <3>2. CASE x # d
        BY <1>3, <1>6, <2>1, <2>2, <3>2
      <3> QED
        BY <3>1, <3>2
    <2> QED
      BY <1>5, <2>1, <2>2
  <1>10. ASSUME NEW d \in Deliveries, Dies(d)
         PROVE  CostMatches(v)' /\ (mayReadCost' => CostSettles(v)')
    <2>1. /\ UNCHANGED <<mayReadCost, source, watermark, rows, undone>>
          /\ d \in Edits => pc'[d] = "waiting"
          /\ \A x \in Deliveries \ {d} : pc'[x] = pc[x] /\ snap'[x] = snap[x]
          /\ snap'[d] = NoAnswer
      BY <1>10, DiesIs
    <2>2. ASSUME NEW x \in Deliveries, CostIsComing(x, v)
          PROVE  CostSettles(v)'
      <3>1. CASE x = d
        <4>1. Kind(d) = "cost" /\ story[d].variant = v /\ pc'[d] = "waiting"
          BY <1>0, <2>1, <2>2, <3>1 DEF CostIsComing
        <4> QED
          BY <1>4, <4>1
      <3>2. CASE x # d
        BY <1>3, <1>6, <2>1, <2>2, <3>2
      <3> QED
        BY <3>1, <3>2
    <2> QED
      BY <1>5, <2>1, <2>2
  <1>11. ASSUME NEW d \in Deliveries, Commits(d)
         PROVE  CostMatches(v)' /\ (mayReadCost' => CostSettles(v)')
    BY <1>2, <1>11, CostCommits
  <1> QED
    BY <1>7, <1>8, <1>9, <1>10, <1>11 DEF CatalogueStep

LEMMA CatalogueStarts == Init => CatalogueInv
  <1> SUFFICES ASSUME Init PROVE CatalogueInv
    OBVIOUS
  <1> DEFINE first == Min(Prices)
  <1>1. PICK s \in Stories : CatalogueInit(s.copied, s.costs)
    BY Zenon DEF Init
  <1>2. /\ source = [clock |-> 1, sold |-> Variants,
                     price |-> [v \in Variants |-> first],
                     item  |-> [v \in Variants |-> [at |-> 1, cost |-> first]]]
        /\ watermark = IF s.copied THEN 1 ELSE 0
        /\ rows = [v \in Variants |->
                     IF s.copied
                     THEN [price |-> first, item |-> 1,
                           cost |-> IF mayReadCost THEN first ELSE 0]
                     ELSE NoRow]
        /\ facts = [v \in Variants |->
                      IF s.copied THEN {[price |-> first, at |-> 1]} ELSE {}]
        /\ snap = [r \in Readers |-> NoAnswer]
    BY <1>1, Zenon DEF CatalogueInit
  <1>3. processed = {} /\ Readers = Deliveries
    BY IngestAssumption DEF Init
  <1> HIDE DEF first
  <1>4. /\ source.clock = 1 /\ watermark \in {0, 1}
        /\ \A v \in Variants : /\ source.price[v] = first
                               /\ source.item[v].at = 1
                               /\ source.item[v].cost = first
        /\ source.sold = Variants
        /\ \A d \in Deliveries : snap[d] = NoAnswer
    BY <1>2, <1>3
  <1>5. ASSUME NEW v \in Variants
        PROVE  \/ /\ rows[v].price = 0 /\ rows[v].item = 0
               \/ /\ rows[v].price = first /\ rows[v].item = 1
                  /\ mayReadCost => rows[v].cost = first
                  /\ \E f \in facts[v] : f.price = rows[v].price
    <2>1. CASE s.copied
      <3>1. facts[v] = {[price |-> first, at |-> 1]}
        BY <1>2, <2>1
      <3>2. [price |-> first, at |-> 1] \in facts[v]
        BY <3>1
      <3>3. /\ rows[v].price = first /\ rows[v].item = 1
            /\ mayReadCost => rows[v].cost = first
        BY <1>2, <2>1
      <3>4. [price |-> first, at |-> 1].price = rows[v].price
        BY <3>3
      <3> QED
        BY <3>2, <3>3, <3>4
    <2>2. CASE ~s.copied
      BY <1>2, <2>2 DEF NoRow
    <2> QED
      BY <2>1, <2>2
  <1>6. SnapInv
    BY <1>4 DEF SnapInv
  <1>7. EditsInv
    BY <1>3 DEF EditsInv
  <1>8. PriceInv
    BY <1>4, <1>5 DEF PriceInv
  <1>9. ASSUME NEW v \in Variants
        PROVE  CostMatches(v) /\ CostSettles(v)
    <2>1. CASE rows[v].price = 0 /\ rows[v].item = 0
      <3>1. CostWillCome(v)
        BY <1>4, <2>1 DEF CostWillCome
      <3> QED
        BY <1>4, <2>1, <3>1 DEF CostMatches, CostSettles
    <2>2. CASE /\ rows[v].item = 1
               /\ mayReadCost => rows[v].cost = first
      BY <1>4, <2>2 DEF CostMatches, CostSettles
    <2> QED
      BY <1>5, <2>1, <2>2
  <1>10. CostInv
    BY <1>9, CostInvIs
  <1>11. CurrentPriceIsAFact
    BY <1>5 DEF CurrentPriceIsAFact
  <1> QED
    BY <1>6, <1>7, <1>8, <1>10, <1>11 DEF CatalogueInv

LEMMA CatalogueKept == TypeOK /\ CatalogueInv /\ [Next]_vars => CatalogueInv'
  <1> SUFFICES ASSUME TypeOK, CatalogueInv, [Next]_vars PROVE CatalogueInv'
    OBVIOUS
  <1>1. CatalogueStep /\ story' = story
    BY CatalogueSteps, StoryStays
  <1>2. SnapInv /\ EditsInv /\ PriceInv /\ CostInv /\ CurrentPriceIsAFact
    BY DEF CatalogueInv
  <1>3. SnapInv'
    BY <1>1, <1>2, SnapKept
  <1>4. EditsInv'
    BY <1>2, EditsKept
  <1>5. PriceInv'
    BY <1>1, <1>2, PriceKept
  <1>6. CostInv'
    BY <1>1, <1>2, CostKept
  <1>7. CurrentPriceIsAFact'
    BY <1>1, <1>2, FactsKept
  <1> QED
    BY <1>3, <1>4, <1>5, <1>6, <1>7 DEF CatalogueInv

LEMMA NothingComes == CatalogueInv => CatalogueCatchesUp
  <1> SUFFICES ASSUME CatalogueInv PROVE CatalogueCatchesUp
    OBVIOUS
  <1>1. CurrentPriceIsAFact
    BY DEF CatalogueInv
  <1>2. ASSUME \A d \in Deliveries : pc[d] \in {"away", "done"},
               NEW v \in Variants
        PROVE  CaughtUp(v)
    <2>1. \A d \in Deliveries : ~PriceIsComing(d) /\ ~CostIsComing(d, v)
      BY <1>2 DEF PriceIsComing, CostIsComing, Pending
    <2>2. v \in source.sold => rows[v].price \in {0, source.price[v]}
      BY <2>1 DEF CatalogueInv, PriceInv
    <2>3. CostMatches(v) /\ (mayReadCost => CostSettles(v))
      BY CostInvIs DEF CatalogueInv
    <2>4. mayReadCost => \/ rows[v].cost = source.item[v].cost
                         \/ v \in undone
                         \/ rows[v].price = 0
      BY <2>1, <2>3 DEF CostMatches, CostSettles, CostWillCome
    <2> QED
      BY <2>2, <2>4 DEF CaughtUp
  <1> QED
    BY <1>1, <1>2 DEF CatalogueCatchesUp

(* When no delivery waits or runs, the catalogue is Shopify's: the copy    *)
(* catches up though answers are published in any order, some of them of   *)
(* some variants only, and runs die between any two steps; the history     *)
(* holds every current price.                                              *)
THEOREM CatalogueHolds == Spec => []CatalogueCatchesUp
  BY InitTyped, TypesKept, CatalogueStarts, CatalogueKept, NothingComes, PTL
     DEF Spec
=============================================================================
