------------------------------ MODULE Account ------------------------------
(***************************************************************************)
(* A shop's account: installation, store type, scopes and plan.  The       *)
(* truth is Shopify's ("store"); the app keeps copies of it in the Shop    *)
(* and Subscription rows, which page requests (lib/auth.server.ts,         *)
(* lib/provision.server.ts, lib/plan.server.ts), the plan page             *)
(* (routes/app.plan.tsx) and webhook deliveries                            *)
(* (lib/webhook-processors.server.ts) read and write one await at a time.  *)
(***************************************************************************)
EXTENDS Integers, FiniteSets

CONSTANTS Requests,  \* requests that may be under way at once
          Stories    \* first states, and how often things may happen

VARIABLES
    store,       \* Shopify's truth: installed, dev, reports, charges, asked
    deliveries,  \* webhook deliveries that wait, in no order
    handler,     \* the delivery being processed, and the next of its steps
    shop,        \* the Shop row, the shipping connector's status, and what
                 \* Shopify told the import about the type of the store
    session,     \* a session is stored
    row,         \* the Subscription row, its recorded events and the meter
    request,     \* what each request knows
    gap,         \* sales made while the app was not installed are missing
    allowed,     \* how often each disturbance may still happen
    scene        \* who asks, and for what, in this behaviour

accountVars == <<store, deliveries, handler, shop, session, row, request, gap, allowed,
                 scene>>

-----------------------------------------------------------------------------
(* Plans, by the name of a charge: a billing key may be of the annual kind,*)
(* and a name that was changed in the Partner Dashboard matches no plan.   *)
Rank   == [none |-> 0, starter |-> 1, growth |-> 2]
PlanOf == [starter |-> "starter", growth |-> "growth", annual |-> "growth",
           drifted |-> "none"]
Charges == [name : DOMAIN PlanOf, test : BOOLEAN]

(* The most generous plan of the active charges that count.                *)
Counting(charges, isTest) == {c \in charges : c.test => isTest}
BestOf(charges, isTest) ==
    LET plans == {"none"} \cup {PlanOf[c.name] : c \in Counting(charges, isTest)}
    IN  CHOOSE p \in plans : \A q \in plans : Rank[q] <= Rank[p]

TypeName(dev) == IF dev THEN "dev" ELSE "paid"

Idle == [pc |-> "idle"]
Free == [step |-> 0]

(* What Shopify was while a request ran, of those it matters for.          *)
Seen   == [dev |-> {store.dev}, charges |-> store.charges]
Unseen == [dev |-> {}, charges |-> {}]
Watch(new) ==  \* every open request sees what Shopify becomes
    [r \in Requests |-> IF request[r] = Idle \/ request[r].seen = Unseen THEN request[r]
       ELSE [request[r] EXCEPT
               !.seen = [dev |-> @.dev \cup {new.dev},
                         charges |-> @.charges \cup new.charges]]]

Spend(what) == /\ allowed[what] > 0
               /\ allowed' = [allowed EXCEPT ![what] = @ - 1]

(* Shopify's record of the shop, and the app's row of it.                  *)
Truth == [installed : BOOLEAN, dev : BOOLEAN, reports : BOOLEAN,
          charges : SUBSET Charges, asked : SUBSET Charges]
ShopRow == [exists : BOOLEAN, gone : BOOLEAN, type : {"unknown", "dev", "paid"},
            reports : BOOLEAN, sync : {"PENDING", "RUNNING", "COMPLETE", "FAILED"},
            carrier : {"NOT_CONFIGURED", "CONNECTED", "DISCONNECTED"},
            told : {"nothing", "dev", "paid", "stored"}]

ASSUME StoriesAssumption == \A s \in Stories : s.store \in Truth /\ s.shop \in ShopRow

NoShop == [exists |-> FALSE, gone |-> FALSE, type |-> "unknown",
           reports |-> FALSE, sync |-> "PENDING", carrier |-> "NOT_CONFIGURED",
           told |-> "nothing"]

AccountInit(s) ==
    /\ store = s.store
    /\ deliveries = {} /\ handler = Free
    /\ shop = s.shop /\ session = s.shop.exists
    /\ row = [plan |-> IF s.shop.exists
                       THEN BestOf(s.store.charges, s.store.dev) ELSE "none",
              fresh |-> s.shop.exists, events |-> {}, meter |-> "under_limit"]
    /\ request = [r \in Requests |-> Idle]
    /\ gap = FALSE
    /\ allowed = s.allowed /\ scene = [users |-> s.users, asks |-> s.asks]

-----------------------------------------------------------------------------
(* Shopify and the merchant.                                               *)
Becomes(new, news) ==
    /\ store' = new
    /\ deliveries' = deliveries \cup news
    /\ request' = Watch(new)
    /\ UNCHANGED <<handler, shop, session, row>>

Convert ==  \* a development store becomes a paying one
    /\ Spend("converts") /\ store.dev
    /\ Becomes([store EXCEPT !.dev = FALSE], {[topic |-> "shop"]})
    /\ UNCHANGED gap

Regrant ==
    /\ Spend("grants") /\ store.installed
    /\ Becomes([store EXCEPT !.reports = ~@],
               {[topic |-> "scopes", reports |-> ~store.reports]})
    /\ UNCHANGED gap

(* Approving a charge replaces the one before it.                          *)
Approve ==
    /\ store.asked # {} /\ store.installed
    /\ Becomes([store EXCEPT !.charges = store.asked, !.asked = {}],
               {[topic |-> "subscription", plan |-> PlanOf[c.name], active |-> TRUE]
                  : c \in store.asked}
               \cup {[topic |-> "subscription", plan |-> PlanOf[c.name], active |-> FALSE]
                  : c \in store.charges})
    /\ UNCHANGED <<gap, allowed>>

(* Unless an import runs: what an uninstall does to it is Backfill's.      *)
Uninstall ==
    /\ Spend("uninstalls") /\ store.installed /\ shop.sync # "RUNNING"
    /\ Becomes([store EXCEPT !.installed = FALSE, !.charges = {}, !.asked = {}],
               {[topic |-> "uninstalled"]})
    /\ gap' = TRUE

Reinstall ==
    /\ Spend("reinstalls") /\ ~store.installed
    /\ Becomes([store EXCEPT !.installed = TRUE], {})
    /\ UNCHANGED gap

AskRedact ==  \* 48 hours after the app was removed
    /\ Spend("redacts") /\ ~store.installed
    /\ [topic |-> "uninstalled"] \notin deliveries
    /\ Becomes(store, {[topic |-> "redact"]})
    /\ UNCHANGED gap

LoseDelivery ==  \* only an event of a subscription is ever given up
    /\ Spend("losses")
    /\ \E d \in deliveries :
         d.topic = "subscription" /\ deliveries' = deliveries \ {d}
    /\ UNCHANGED <<store, handler, shop, session, row, request, gap>>

-----------------------------------------------------------------------------
(* Deliveries.  Each await of a processor is a step; one that fails is     *)
(* taken again from its start.                                             *)
LastStep == [shop |-> 1, scopes |-> 2, subscription |-> 2, uninstalled |-> 4,
             redact |-> 2]

Take(d) ==
    /\ handler = Free /\ d \in deliveries
    /\ deliveries' = deliveries \ {d}
    /\ handler' = IF /\ \/ d.topic = "scopes" /\ d.reports = shop.reports
                        \/ ~shop.exists
                     /\ d.topic \in {"scopes", "subscription"}
                  THEN Free ELSE [step |-> 1, delivery |-> d]
    /\ UNCHANGED <<store, shop, session, row, request, gap, allowed>>

Now(topic, step) == /\ handler # Free /\ handler.delivery.topic = topic
                    /\ handler.step = step

ShopUpdated ==
    /\ Now("shop", 1)
    /\ shop' = [shop EXCEPT !.type = "unknown"]
    /\ UNCHANGED <<session, row>>

ScopesUpdated ==
    \/ /\ Now("scopes", 1) /\ shop.exists
       /\ shop' = [shop EXCEPT !.reports = handler.delivery.reports]
       /\ UNCHANGED <<session, row>>
    \/ /\ Now("scopes", 2) /\ shop.exists
       /\ shop' = [shop EXCEPT !.carrier = IF handler.delivery.reports
                                           THEN "CONNECTED" ELSE "DISCONNECTED"]
       /\ UNCHANGED <<session, row>>

SubscriptionUpdated ==
    LET plan == IF handler.delivery.active THEN handler.delivery.plan ELSE "none"
    IN  \/ /\ Now("subscription", 1)
           /\ row' = [row EXCEPT !.plan = plan, !.fresh = TRUE]
           /\ UNCHANGED <<shop, session>>
        \/ /\ Now("subscription", 2)
           /\ row' = [row EXCEPT !.events = @ \cup {handler.delivery}]
           /\ UNCHANGED <<shop, session>>

AppUninstalled ==
    \/ Now("uninstalled", 1) /\ session' = FALSE /\ UNCHANGED <<shop, row>>
    \/ /\ Now("uninstalled", 2)
       /\ shop' = [shop EXCEPT !.gone = shop.exists]
       /\ UNCHANGED <<session, row>>
    \/ /\ Now("uninstalled", 3)
       /\ row' = [row EXCEPT !.plan = "none", !.fresh = TRUE]
       /\ UNCHANGED <<shop, session>>
    \/ /\ Now("uninstalled", 4)
       /\ row' = [row EXCEPT !.meter = "suspended"]
       /\ UNCHANGED <<shop, session>>

(* The rows a shop owns go with it.                                        *)
ShopRedacted ==
    \/ Now("redact", 1) /\ session' = FALSE /\ UNCHANGED <<shop, row>>
    \/ /\ Now("redact", 2)
       /\ shop' = NoShop
       /\ row' = [plan |-> "none", fresh |-> FALSE, events |-> {},
                  meter |-> "under_limit"]
       /\ UNCHANGED session

Process ==
    /\ \/ ShopUpdated \/ ScopesUpdated \/ SubscriptionUpdated
       \/ AppUninstalled \/ ShopRedacted
    /\ handler' = IF handler.step = LastStep[handler.delivery.topic] THEN Free
                  ELSE [handler EXCEPT !.step = @ + 1]
    /\ UNCHANGED <<store, deliveries, request, gap, allowed>>

ProcessFails ==
    /\ handler # Free /\ Spend("breaks")
    /\ deliveries' = deliveries \cup {handler.delivery}
    /\ handler' = Free
    /\ UNCHANGED <<store, shop, session, row, request, gap>>

(* An order is counted: the meter's status follows the shop's.             *)
MeterOrder ==
    /\ Spend("orders") /\ shop.exists
    /\ row' = [row EXCEPT !.meter = IF shop.gone THEN "suspended" ELSE "under_limit"]
    /\ UNCHANGED <<store, deliveries, handler, shop, session, request, gap>>

(* Ten minutes later the stored plan is no longer trusted.                 *)
Age ==
    /\ row.fresh /\ row' = [row EXCEPT !.fresh = FALSE]
    /\ UNCHANGED <<store, deliveries, handler, shop, session, request, gap, allowed>>
=============================================================================
