------------------------------- MODULE Ingest -------------------------------
(***************************************************************************)
(* What the deliveries of a shop do: the processors of                     *)
(* app/lib/webhook-processors.server.ts, side by side with the historical  *)
(* import, on the order book and the catalogue.                            *)
(*                                                                         *)
(* A delivery is stored, run, and marked as processed in separate steps;   *)
(* the process may die after any of them and the delivery is then run      *)
(* again (WebhookOutbox says when).  A run works on the payload it read    *)
(* when it started.  A redaction rewrites the payloads that are stored,    *)
(* not those that runs hold.                                               *)
(*                                                                         *)
(* Abstractions.                                                           *)
(*  - A story is the set of deliveries of one behaviour.  A delivery of    *)
(*    the kind "price", "cost" or "withdraw" comes with the edit it tells  *)
(*    of; "page" is an order of an import page and "import" a product.     *)
(*  - Duplicates and leases of a delivery are in WebhookOutbox, metering   *)
(*    in UsageMeter, the caches the handlers invalidate in Analytics.      *)
(***************************************************************************)
EXTENDS OrderBook, Catalogue

CONSTANTS
    Deliveries,   \* delivery ids
    Stories,      \* sets of stories: a delivery's kind and content
    MaxCrashes    \* bound: runs that die

(* minimizeWebhookPayload: what is stored of each topic.                   *)
OrderPayload ==
    [kind : {"order", "page"}, order : Orders, at : Times,
     who : Shoppers \cup {NoOne}, placed : Times \ {0}, trail : BOOLEAN,
     header : Statuses, lines : SUBSET Variants]
FulfillmentPayload ==
    [kind : {"ship"}, ship : Ships, order : Orders, created : Times,
     at : Times, live : BOOLEAN]
CustomerPayload == [kind : {"access", "redact"}, who : Shoppers]
ProductPayload  ==
    [kind : {"price"}, variant : Variants, value : Prices]
        \cup [kind : {"cost", "withdraw"}, variant : Variants,
              value : Prices \cup {0}]
CheckoutPayload == [kind : {"checkout"}, at : Times]
NoPayload       == [kind : {"import", "none"}]

Payload == UNION {OrderPayload, FulfillmentPayload, CustomerPayload,
                  ProductPayload, CheckoutPayload, NoPayload}

(* A story; a fulfilment of Shopify's is of one order.                     *)
Tellable(told) ==
    /\ told \in [Deliveries -> Payload]
    /\ \A d, e \in Deliveries :
         (/\ told[d].kind = "ship" /\ told[e].kind = "ship"
          /\ told[d].ship = told[e].ship) => told[d].order = told[e].order

ASSUME IngestAssumption ==
    /\ Readers = Deliveries /\ Requests = Deliveries /\ MaxCrashes \in Nat
    /\ \A s \in Stories : /\ Tellable(s.tells)
                          /\ s.legacy \subseteq Orders
                          /\ s.copied \in BOOLEAN /\ s.costs \in BOOLEAN

VARIABLES
    story,      \* what each delivery says; chosen once
    pc,         \* its step
    stored,     \* the payload in its WebhookEvent row
    held,       \* the payload its run holds
    processed,  \* WebhookEvent.processedAt is set
    received,   \* WebhookEvent.receivedAt
    report,     \* the export its run has assembled
    checkout,   \* Checkout.shopifyUpdatedAt, of one token
    crashes     \* runs that died (bound)

deliveryVars == <<story, pc, stored, held, processed, received, report,
                  checkout, crashes>>
vars == <<bookVars, catalogueVars, deliveryVars>>

Steps    == {"away", "waiting", "running", "fetched", "ready", "acted", "done"}
Payloads == {"none", "full", "scrubbed"}

TypeOK == /\ BookTypeOK /\ CatalogueTypeOK
          /\ Tellable(story)
          /\ pc \in [Deliveries -> Steps]
          /\ stored \in [Deliveries -> Payloads]
          /\ held \in [Deliveries -> Payloads]
          /\ processed \subseteq Deliveries
          /\ received \in [Deliveries -> 0..MaxDay]
          /\ report \in [Deliveries -> SUBSET Orders]
          /\ checkout \in Times
          /\ crashes \in 0..MaxCrashes

Kind(d) == story[d].kind
Told(kinds) == {d \in Deliveries : Kind(d) \in kinds}
Edits   == Told({"price", "cost", "withdraw"})
Imports == Told({"page", "import"})

Init == /\ \E s \in Stories :
             /\ story = s.tells
             /\ BookInit(s.legacy)
             /\ CatalogueInit(s.copied, s.costs)
        /\ pc = [d \in Deliveries |-> "away"]
        /\ stored = [d \in Deliveries |-> "none"]
        /\ held = [d \in Deliveries |-> "none"]
        /\ processed = {}
        /\ received = [d \in Deliveries |-> 0]
        /\ report = [d \in Deliveries |-> {}]
        /\ checkout = 0
        /\ crashes = 0

-----------------------------------------------------------------------------
(* Arrival and the course of a run                                         *)

Moves(d, from, to) == pc[d] = from /\ pc' = [pc EXCEPT ![d] = to]

(* Shopify's edit and the delivery that tells of it.                       *)
Edited(d) == CASE Kind(d) = "price"    -> EditPrice(story[d].variant, story[d].value)
               [] Kind(d) = "cost"     -> EditCost(story[d].variant, story[d].value)
               [] Kind(d) = "withdraw" -> WithdrawVariant(story[d].variant)
               [] OTHER                -> UNCHANGED catalogueVars

(* A delivery is stored; an import comes to a page of its own accord.      *)
Deliver(d) ==
    /\ Kind(d) # "none"
    /\ Moves(d, "away", "waiting")
    /\ Edited(d)
    /\ stored' = [stored EXCEPT ![d] = IF d \in Imports THEN "none" ELSE "full"]
    /\ received' = [received EXCEPT ![d] = day]
    /\ UNCHANGED <<bookVars, story, held, processed, report, checkout, crashes>>

(* dispatchPersistedWebhook: a run reads the stored payload; an import     *)
(* holds the page it has fetched.                                          *)
Start(d) ==
    /\ d \notin processed
    /\ Moves(d, "waiting", "running")
    /\ held' = [held EXCEPT ![d] = IF d \in Imports THEN "full" ELSE stored[d]]
    /\ UNCHANGED <<bookVars, catalogueVars, story, stored, processed, received,
                   report, checkout, crashes>>

(* scrubCustomerFromWebhookPayload.                                        *)
Scrubbed(v) == [v EXCEPT !.who = NoOne, !.trail = FALSE]

(* The payload a run works on.                                             *)
Held(d) == IF held[d] = "scrubbed" THEN Scrubbed(story[d]) ELSE story[d]

(* A step of a run that leaves its payload, the others and the cache of    *)
(* deliveries alone.                                                       *)
Step(d, from, to) ==
    /\ Moves(d, from, to)
    /\ UNCHANGED <<story, stored, held, processed, received, report, checkout,
                   crashes>>

(* The outbox marks the delivery as processed and clears its payload.      *)
Finish(d) ==
    /\ Moves(d, "acted", "done")
    /\ processed' = processed \cup {d}
    /\ stored' = [stored EXCEPT ![d] = "none"]
    /\ held' = [held EXCEPT ![d] = "none"]
    /\ report' = [report EXCEPT ![d] = {}]
    /\ UNCHANGED <<bookVars, catalogueVars, story, received, checkout, crashes>>

(* The process dies, or a request fails: what the run held is gone.        *)
Crash(d) ==
    /\ pc[d] \in {"running", "fetched", "ready", "acted"}
    /\ crashes < MaxCrashes
    /\ crashes' = crashes + 1
    /\ pc' = [pc EXCEPT ![d] = IF d \in processed THEN "done" ELSE "waiting"]
    /\ held' = [held EXCEPT ![d] = "none"]
    /\ report' = [report EXCEPT ![d] = {}]
    /\ ForgetSnapshot(d)
    /\ UNCHANGED <<bookVars, story, stored, processed, received, checkout>>

-----------------------------------------------------------------------------
(* The processors                                                          *)

(* processOrdersWebhook asks for the products of the lines first.          *)
OrderFetches(d) ==
    /\ Kind(d) = "order" /\ Held(d).lines # {}
    /\ HydrateOrder(d, Held(d).lines)
    /\ Step(d, "running", "fetched")
    /\ UNCHANGED bookVars

OrderPublishes(d) ==
    /\ Kind(d) = "order"
    /\ SyncProduct(d)
    /\ Step(d, "fetched", "ready")
    /\ UNCHANGED bookVars

(* ... and records the order last; importOneOrder does only that.          *)
OrderCommits(d) ==
    /\ Kind(d) \in {"order", "page"}
    /\ SyncOrder(Held(d).order, Held(d))
    /\ Step(d, IF Kind(d) = "order" /\ Held(d).lines # {} THEN "ready"
               ELSE "running", "acted")
    /\ UNCHANGED catalogueVars

(* The end of the import settles the flags of the whole shop.              *)
ImportEnds(d) ==
    /\ Kind(d) = "page"
    /\ ReconcileShop
    /\ Step(d, "acted", "done")
    /\ UNCHANGED catalogueVars

(* processProductsWebhook.                                                 *)
ProductFetches(d) ==
    /\ Kind(d) \in {"price", "withdraw", "import"}
    /\ HydrateProduct(d)
    /\ Step(d, "running", "fetched")
    /\ UNCHANGED bookVars

(* processInventoryItemsWebhook: without the scope there is nothing to do. *)
InventoryFetches(d) ==
    /\ Kind(d) = "cost"
    /\ HydrateInventory(d, story[d].variant)
    /\ Step(d, "running", "fetched")
    /\ UNCHANGED bookVars

InventoryIgnored(d) ==
    /\ Kind(d) = "cost" /\ ~mayReadCost
    /\ Step(d, "running", "acted")
    /\ UNCHANGED <<bookVars, catalogueVars>>

ProductCommits(d) ==
    /\ Kind(d) \in {"price", "withdraw", "cost"}
    /\ SyncProduct(d)
    /\ Step(d, "fetched", "acted")
    /\ UNCHANGED bookVars

ImportCommits(d) ==
    /\ Kind(d) = "import"
    /\ ImportProduct(d)
    /\ Step(d, "fetched", "acted")
    /\ UNCHANGED bookVars

(* processFulfillmentsWebhook.                                             *)
FulfillmentCommits(d) ==
    /\ Kind(d) = "ship"
    /\ SyncFulfillment(story[d])
    /\ Step(d, "running", "acted")
    /\ UNCHANGED catalogueVars

(* processCheckoutsWebhook reads the row and writes it without a lock.     *)
CheckoutReads(d) ==
    /\ Kind(d) = "checkout"
    /\ Step(d, "running", IF checkout >= story[d].at THEN "acted" ELSE "ready")
    /\ UNCHANGED <<bookVars, catalogueVars>>

CheckoutWrites(d) ==
    /\ Kind(d) = "checkout"
    /\ Moves(d, "ready", "acted")
    /\ checkout' = story[d].at
    /\ UNCHANGED <<bookVars, catalogueVars, story, stored, held, processed,
                   received, report, crashes>>

(* processCustomerDataRequestWebhook: the export is assembled from plain   *)
(* reads, then recorded.                                                   *)
AccessAssembles(d) ==
    /\ Kind(d) = "access"
    /\ Moves(d, "running", "ready")
    /\ report' = [report EXCEPT ![d] = Assembled(story[d].who)]
    /\ UNCHANGED <<bookVars, catalogueVars, story, stored, held, processed,
                   received, checkout, crashes>>

AccessRecords(d) ==
    /\ Kind(d) = "access"
    /\ RecordDataRequest(d, story[d].who, report[d], received[d])
    /\ Step(d, "ready", "acted")
    /\ UNCHANGED catalogueVars

(* payloadReferencesCustomer, of a delivery that waits or runs.            *)
Names(d, c) == /\ stored[d] = "full"
               /\ Kind(d) \in {"order", "access", "redact"}
               /\ story[d].who = c

(* processCustomersRedactWebhook: stored orders of the shopper become      *)
(* anonymous, other deliveries about them are over.                        *)
Redact(d) ==
    /\ Kind(d) = "redact"
    /\ Moves(d, "running", "acted")
    /\ LET c == story[d].who
           others == {x \in Deliveries \ {d} : Names(x, c)}
           orders == {x \in others : Kind(x) = "order"}
       IN  /\ Forget(c)
           /\ stored' = [x \in Deliveries |->
                           IF x \in orders THEN "scrubbed"
                           ELSE IF x \in others THEN "none" ELSE stored[x]]
           /\ processed' = processed \cup (others \ orders)
    /\ UNCHANGED <<catalogueVars, story, held, received, report, checkout,
                   crashes>>

-----------------------------------------------------------------------------
(* The sweep, the merchant and the calendar                                *)

Purge == /\ PurgeExpiredDataRequests
         /\ UNCHANGED <<catalogueVars, deliveryVars>>

Collect(d) == /\ CollectDataRequest(d)
              /\ UNCHANGED <<catalogueVars, deliveryVars>>

NextDay == /\ Told({"access"}) # {}
           /\ DayPasses
           /\ UNCHANGED <<catalogueVars, deliveryVars>>

Next == \/ \E d \in Deliveries :
             \/ Deliver(d) \/ Start(d) \/ Finish(d) \/ Crash(d)
             \/ OrderFetches(d) \/ OrderPublishes(d) \/ OrderCommits(d)
             \/ ImportEnds(d)
             \/ ProductFetches(d) \/ InventoryFetches(d) \/ InventoryIgnored(d)
             \/ ProductCommits(d) \/ ImportCommits(d)
             \/ FulfillmentCommits(d)
             \/ CheckoutReads(d) \/ CheckoutWrites(d)
             \/ AccessAssembles(d) \/ AccessRecords(d) \/ Redact(d)
             \/ Collect(d)
        \/ Purge \/ NextDay

Spec == Init /\ [][Next]_vars

-----------------------------------------------------------------------------
(* Whatever the order in which deliveries, retries and imports commit, no  *)
(* order, shipment or product goes back in Shopify's own time, and no      *)
(* inventory item does but by an import.                                   *)
SourceClockNeverRunsBack == [][CatalogueRunsForward /\ BookRunsForward]_vars

(* Once a shopper is erased nothing that was on its way brings back their  *)
(* row, an order in their name or an export that names them, and an        *)
(* export's term runs from the day its request was received, whatever was  *)
(* retried.                                                                *)
ErasedStaysErased ==
    /\ NothingOfTheErased
    /\ \A d \in Deliveries : exports[d].due \in {0, received[d] + Term}

(* In every state the summaries agree with the rows they sum up: the flag  *)
(* of a shopper's first order and the customer's first date with their     *)
(* orders, an order's header with its shipments.                           *)
SummariesAgree == /\ \A c \in Shoppers : FirstIsEarliest(c)
                  /\ \A o \in Orders : HeaderAgrees(o)

(* When no delivery waits or runs, the catalogue is Shopify's, though      *)
(* snapshots of the product were published in any order, some of them of   *)
(* some variants only; and no current price is missing in the history.     *)
CatalogueCatchesUp ==
    /\ (\A d \in Deliveries : pc[d] \in {"away", "done"}) =>
         \A v \in Variants : CaughtUp(v)
    /\ CurrentPriceIsAFact

-----------------------------------------------------------------------------
(* What the documentation states and the code does not keep: no run states *)
(* it; the README says how to see it fail.                                 *)

(* What a redaction takes from a delivery that waits is not written by the *)
(* run that already held it: landing site, campaign and tax country "are   *)
(* not required to finish importing the order economically after           *)
(* redaction", and on the order "these purpose-limited identity-adjacent   *)
(* values do not" survive.                                                 *)
RedactedOrdersStayAnonymous ==
    \A d \in Told({"order"}) :
        (stored[d] = "scrubbed" /\ pc[d] = "acted")
            => ~order[story[d].order].trail
=============================================================================
