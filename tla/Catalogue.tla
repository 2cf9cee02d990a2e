----------------------------- MODULE Catalogue -----------------------------
(***************************************************************************)
(* The copy of a Shopify product: syncProductFromShopify                   *)
(* (app/lib/sync.server.ts), the snapshots it is given                     *)
(* (app/lib/shopify-catalog.server.ts) and importProducts                  *)
(* (app/lib/backfill.server.ts).                                           *)
(*                                                                         *)
(* A webhook says only that something changed.  Its handler asks Shopify   *)
(* for the product as it is by then and publishes that answer later, under *)
(* the product's lock.  A product has one source clock, and each of its    *)
(* inventory items, which hold the cost, a clock of its own.               *)
(*                                                                         *)
(* Abstractions.                                                           *)
(*  - One product: products share no lock and no row.                      *)
(*  - Title, vendor and the like travel with the product's clock, stock    *)
(*    and weight with the variant's price.                                 *)
(*  - What an observed cost does to the cost history is in CostBook.       *)
(*  - The pages of an answer are read in one step.                         *)
(***************************************************************************)
EXTENDS Integers, FiniteSets, FiniteSetsExt

CONSTANTS
    Variants,      \* the variants of the product
    Prices,        \* prices, and costs
    Readers,       \* handlers and imports that may hold a snapshot
    MaxClock       \* bound: mutations of the product or of an item

ASSUME CatalogueAssumption ==
    /\ IsFiniteSet(Variants) /\ Prices \subseteq Nat \ {0} /\ Prices # {}
    /\ MaxClock \in Nat \ {0}

VARIABLES
    mayReadCost, \* capabilitiesForShop(...).inventoryCost; never changes here
    source,    \* Shopify's product: clock, sold variants, price, item
    watermark, \* Product.shopifyUpdatedAt; 0: no row
    rows,      \* Variant: price (0: no row), unitCost, inventoryItemUpdatedAt
    facts,     \* PriceChange
    snap,      \* the answer a handler holds; clock 0: none
    undone     \* ghost: variants whose cost an import page set back

catalogueVars == <<mayReadCost, source, watermark, rows, facts, snap, undone>>

Clock == 0..MaxClock
Item  == [at : Clock, cost : Prices \cup {0}]
Row   == [price : Prices \cup {0}, cost : Prices \cup {0}, item : Clock]
NoRow == [price |-> 0, cost |-> 0, item |-> 0]

Snapshot == [clock : Clock, of : SUBSET Variants,
             price : [Variants -> Prices], item : [Variants -> Item]]

NoAnswer == [clock |-> 0, of |-> {}, price |-> [v \in Variants |-> Min(Prices)],
             item |-> [v \in Variants |-> [at |-> 0, cost |-> 0]]]

Cleared(r) == [snap EXCEPT ![r] = NoAnswer]

CatalogueTypeOK ==
    /\ source \in [clock : Clock, sold : SUBSET Variants,
                   price : [Variants -> Prices], item : [Variants -> Item]]
    /\ watermark \in Clock
    /\ rows \in [Variants -> Row]
    /\ facts \in [Variants -> SUBSET [price : Prices, at : Clock]]
    /\ snap \in [Readers -> Snapshot]
    /\ undone \subseteq Variants
    /\ mayReadCost \in BOOLEAN

(* The product was put up for sale at clock 1; whether it has been copied. *)
CatalogueInit(copied, costs) ==
    LET first == Min(Prices) IN
    /\ mayReadCost = costs
    /\ source = [clock |-> 1, sold |-> Variants,
                 price |-> [v \in Variants |-> first],
                 item  |-> [v \in Variants |-> [at |-> 1, cost |-> first]]]
    /\ watermark = IF copied THEN 1 ELSE 0
    /\ rows = [v \in Variants |->
                 IF copied THEN [price |-> first, item |-> 1,
                                 cost |-> IF mayReadCost THEN first ELSE 0]
                           ELSE NoRow]
    /\ facts = [v \in Variants |->
                  IF copied THEN {[price |-> first, at |-> 1]} ELSE {}]
    /\ snap = [r \in Readers |-> NoAnswer]
    /\ undone = {}

-----------------------------------------------------------------------------
(* Shopify                                                                 *)

EditPrice(v, p) ==
    /\ source.clock < MaxClock /\ v \in source.sold /\ source.price[v] # p
    /\ source' = [source EXCEPT !.clock = @ + 1, !.price[v] = p]
    /\ UNCHANGED <<mayReadCost, watermark, rows, facts, snap, undone>>

(* An inventory edit moves the item's clock.  When it moves the product's  *)
(* as well Shopify tells of both: that is a second edit, with a delivery   *)
(* of its own.                                                             *)
EditCost(v, c) ==
    /\ source.item[v].at < MaxClock /\ source.item[v].cost # c
    /\ source' = [source EXCEPT !.item[v] = [at |-> @.at + 1, cost |-> c]]
    /\ UNCHANGED <<mayReadCost, watermark, rows, facts, snap, undone>>

WithdrawVariant(v) ==
    /\ source.clock < MaxClock /\ v \in source.sold
    /\ source' = [source EXCEPT !.clock = @ + 1, !.sold = @ \ {v}]
    /\ UNCHANGED <<mayReadCost, watermark, rows, facts, snap, undone>>

-----------------------------------------------------------------------------
(* payloadForProduct: the product as it is now, with some of its variants. *)
Answer(vs) == [clock |-> source.clock, of |-> vs,
               price |-> source.price, item |-> source.item]

Hold(r, vs) == /\ snap' = [snap EXCEPT ![r] = Answer(vs)]
               /\ UNCHANGED <<mayReadCost, source, watermark, rows, facts, undone>>

(* hydrateProductWebhook: every variant the product still has.             *)
HydrateProduct(r) == Hold(r, source.sold)

(* hydrateOrderVariantProducts: the variants an order names.  One that     *)
(* Shopify no longer has fails the delivery.                               *)
HydrateOrder(r, vs) == vs \subseteq source.sold /\ Hold(r, vs)

(* hydrateInventoryItemProducts: the variant an item serves.               *)
HydrateInventory(r, v) == /\ mayReadCost /\ v \in source.sold
                          /\ Hold(r, {v})

-----------------------------------------------------------------------------
(* Publishing a snapshot                                                   *)

(* Mutant of Publishes: without the source's order.                        *)
PublishesAlways(s) == TRUE

(* Mutant of Publishes: an equal clock loses.                              *)
PublishesNewer(s) == watermark = 0 \/ s.clock > watermark

(* A row without a clock gives way to anything.                            *)
Publishes(s) == watermark = 0 \/ s.clock >= watermark

PublishesItem(s, v) == rows[v].item = 0 \/ s.item[v].at >= rows[v].item

(* Mutant of WithItem: under the product's clock.                          *)
WithItemAlways(s, v, row) == [row EXCEPT !.item = s.item[v].at,
                                !.cost = IF mayReadCost THEN s.item[v].cost ELSE @]

(* inventoryData: the cost follows the clock of its own item.              *)
WithItem(s, v, row) ==
    IF PublishesItem(s, v)
    THEN [row EXCEPT !.item = s.item[v].at,
                     !.cost = IF mayReadCost THEN s.item[v].cost ELSE @]
    ELSE row

(* A delivery that comes late leaves its price as a fact of its own time,  *)
(* and, when its item is the newer one, its cost.                          *)
Late(s, v) == IF rows[v].price = 0 THEN rows[v] ELSE WithItem(s, v, rows[v])

LateFact(s, v) == IF rows[v].price = 0 THEN {}
                  ELSE {[price |-> s.price[v], at |-> s.clock]}

(* Mutant of PriceFact: the first price is not a change.                   *)
PriceFactOnChange(s, v, at) ==
    IF rows[v].price \in {0, s.price[v]} THEN {}
    ELSE {[price |-> s.price[v], at |-> at]}

(* The current price and its history commit together.                      *)
PriceFact(s, v, at) ==
    IF rows[v].price = s.price[v] /\ facts[v] # {} THEN {}
    ELSE {[price |-> s.price[v], at |-> at]}

(* syncProductFromShopify, in one transaction under the product's lock.    *)
SyncProduct(r) ==
    LET s == snap[r] IN
    /\ s # NoAnswer
    /\ IF Publishes(s)
       THEN /\ watermark' = s.clock
            /\ rows' = [v \in Variants |->
                          IF v \in s.of
                          THEN WithItem(s, v, [rows[v] EXCEPT !.price = s.price[v]])
                          ELSE rows[v]]
            /\ facts' = [v \in Variants |->
                           IF v \in s.of THEN facts[v] \cup PriceFact(s, v, s.clock)
                                         ELSE facts[v]]
       ELSE /\ rows' = [v \in Variants |-> IF v \in s.of THEN Late(s, v) ELSE rows[v]]
            /\ facts' = [v \in Variants |->
                           IF v \in s.of THEN facts[v] \cup LateFact(s, v)
                                         ELSE facts[v]]
            /\ UNCHANGED watermark
    /\ snap' = Cleared(r)
    /\ UNCHANGED <<mayReadCost, source, undone>>

(* importProducts, one product: an older page is dropped, but a page of    *)
(* the same product clock sets cost and item whatever the item's clock.    *)
(* The price is dated by the clock on the wall, here the source's.         *)
ImportProduct(r) ==
    LET s == snap[r] IN
    /\ s # NoAnswer
    /\ IF Publishes(s)
       THEN /\ watermark' = s.clock
            /\ rows' = [v \in Variants |->
                          IF v \notin s.of THEN rows[v]
                          ELSE [price |-> s.price[v], item |-> s.item[v].at,
                                cost |-> IF mayReadCost THEN s.item[v].cost
                                                        ELSE rows[v].cost]]
            /\ facts' = [v \in Variants |->
                           IF v \in s.of
                           THEN facts[v] \cup PriceFact(s, v, source.clock)
                           ELSE facts[v]]
            /\ undone' = undone \cup {v \in s.of : s.item[v].at < rows[v].item}
       ELSE UNCHANGED <<mayReadCost, watermark, rows, facts, undone>>
    /\ snap' = Cleared(r)
    /\ UNCHANGED <<mayReadCost, source>>

(* A handler or an import dies, and its answer with it.                    *)
ForgetSnapshot(r) == /\ snap' = Cleared(r)
                     /\ UNCHANGED <<mayReadCost, source, watermark, rows, facts, undone>>

-----------------------------------------------------------------------------
(* What is stored is what Shopify has: the price, and the cost unless an   *)
(* import page took it back.                                               *)
CaughtUp(v) ==
    \/ rows[v].price = 0
    \/ v \notin source.sold
    \/ /\ rows[v].price = source.price[v]
       /\ (mayReadCost /\ v \notin undone) => rows[v].cost = source.item[v].cost

(* Every price that was ever current is in the history.                    *)
CurrentPriceIsAFact ==
    \A v \in Variants : rows[v].price # 0 =>
        \E f \in facts[v] : f.price = rows[v].price

(* Neither the product nor, but for the imports, an item goes back in the  *)
(* source's time.                                                          *)
CatalogueRunsForward ==
    /\ watermark' >= watermark
    /\ \A v \in Variants \ undone' : rows'[v].item >= rows[v].item
=============================================================================
