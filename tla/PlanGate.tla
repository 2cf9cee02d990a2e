----------------------------- MODULE PlanGate -----------------------------
(***************************************************************************)
(* Requests of a merchant: signing in (afterAuth of shopify.server.ts),    *)
(* the Shop row (lib/provision.server.ts), the plan of a page              *)
(* (resolvePlan of lib/plan.server.ts) and a new charge                    *)
(* (routes/app.plan.tsx).  One step for each await.                        *)
(***************************************************************************)
EXTENDS Account

Go(r, pc)    == request' = [request EXCEPT ![r].pc = pc]
At(r, pc)    == request[r].pc = pc
Serves(r, p) == request' = [request EXCEPT ![r] =
                  [pc |-> "served", seen |-> @.seen, confirm |-> @.confirm, plan |-> p]]
Ends(r)      == request' = [request EXCEPT ![r] = Idle]
Elsewhere    == UNCHANGED <<store, deliveries, handler, gap, allowed>>

-----------------------------------------------------------------------------
(* A request of an installed shop: "page", or "charge" for one of the      *)
(* names.  Without a session the token is exchanged and afterAuth runs.    *)
Open(r, kind) ==
    /\ At(r, "idle") /\ store.installed /\ r \in scene.users
    /\ kind \in {"page"} \cup scene.asks
    /\ IF kind = "page" THEN UNCHANGED allowed ELSE Spend("charges")
    /\ session' = TRUE
    /\ request' = [request EXCEPT ![r] =
         [pc |-> "find", kind |-> kind, hooks |-> ~session,
          scope |-> store.reports, seen |-> Seen, confirm |-> FALSE]]
    /\ UNCHANGED <<store, deliveries, handler, shop, row, gap>>

After(r) == IF request[r].hooks THEN "recordScopes" ELSE "plan"
Knows(r, pc, known) ==
    request' = [request EXCEPT ![r] =
        [pc |-> pc, kind |-> @.kind, hooks |-> @.hooks, scope |-> @.scope,
         seen |-> @.seen, confirm |-> FALSE, type |-> known.type, sync |-> known.sync]]

(* ensureShopProvisioned: the row is made, found, or found uninstalled.    *)
FindShop(r) ==
    /\ At(r, "find")
    /\ \/ /\ ~shop.exists
          /\ shop' = [NoShop EXCEPT !.exists = TRUE]
          /\ Knows(r, After(r), NoShop)
       \/ shop.exists /\ shop.gone /\ Go(r, "reset") /\ UNCHANGED shop
       \/ shop.exists /\ ~shop.gone /\ Knows(r, After(r), shop) /\ UNCHANGED shop
    /\ UNCHANGED <<session, row>> /\ Elsewhere

(* Mutant of Reinstated: the import counts as done.                        *)
ReinstatedOnly(s) == [s EXCEPT !.gone = FALSE]
(* Nothing that happened while the app was away exists anywhere: the       *)
(* import is to run again.                                                 *)
Reinstated(s) == [s EXCEPT !.gone = FALSE, !.sync = "PENDING"]

ResetShop(r) ==
    /\ At(r, "reset")
    /\ IF shop.exists THEN /\ shop' = Reinstated(shop)
                           /\ Knows(r, After(r), shop')
       ELSE Ends(r) /\ UNCHANGED shop
    /\ UNCHANGED <<session, row>> /\ Elsewhere

RecordScopes(r) ==
    /\ At(r, "recordScopes")
    /\ IF shop.exists THEN /\ shop' = [shop EXCEPT !.reports = request[r].scope]
                           /\ Go(r, "carrier")
       ELSE Ends(r) /\ UNCHANGED shop
    /\ UNCHANGED <<session, row>> /\ Elsewhere

(* synchroniseShopifyShippingConnector: the row exists with the shop.      *)
SynchroniseCarrier(r) ==
    /\ At(r, "carrier")
    /\ IF shop.exists
       THEN /\ shop' = [shop EXCEPT !.carrier = IF request[r].scope THEN "CONNECTED"
                                                ELSE "DISCONNECTED"]
            /\ Go(r, "import")
       ELSE Ends(r) /\ UNCHANGED shop
    /\ UNCHANGED <<session, row>> /\ Elsewhere

(* The decision is taken on the row found above, the claim on the row now. *)
StartImport(r) ==
    /\ At(r, "import")
    /\ LET starts == /\ request[r].sync \notin {"COMPLETE", "RUNNING"}
                     /\ shop.exists /\ shop.sync # "RUNNING"
       IN  shop' = IF starts THEN [shop EXCEPT !.sync = "RUNNING", !.told = "nothing"]
                   ELSE shop
    /\ request' = [request EXCEPT ![r].pc = "find", ![r].hooks = FALSE]
    /\ UNCHANGED <<session, row>> /\ Elsewhere

(* importShopProfile asks Shopify for the type of the store, and writes the*)
(* answer while the import is its own.                                     *)
ImportAsks ==
    /\ shop.sync = "RUNNING" /\ shop.told = "nothing" /\ store.installed
    /\ shop' = [shop EXCEPT !.told = TypeName(store.dev)]
    /\ UNCHANGED <<session, row, request>> /\ Elsewhere
ImportStoresType ==
    /\ shop.sync = "RUNNING" /\ shop.told \in {"dev", "paid"}
    /\ shop' = [shop EXCEPT !.type = shop.told, !.told = "stored"]
    /\ UNCHANGED <<session, row, request>> /\ Elsewhere

(* An import that walks the whole store fills the gap.  Shopify refuses    *)
(* one that began while the app was away, if only for its old token.  One  *)
(* whose row was taken from it ends without a trace.                       *)
ImportEnds ==
    /\ shop.sync = "RUNNING"
    /\ \/ /\ store.installed /\ shop.told = "stored"
          /\ shop' = [shop EXCEPT !.sync = "COMPLETE"] /\ gap' = FALSE
       \/ /\ ~store.installed \/ gap
          /\ shop' = [shop EXCEPT !.sync = "FAILED"] /\ UNCHANGED gap
    /\ UNCHANGED <<store, deliveries, handler, session, row, request, allowed>>
ImportStep == ImportAsks \/ ImportStoresType \/ ImportEnds

-----------------------------------------------------------------------------
(* The store type: asked for a charge, always, and for a page whose row    *)
(* does not know it.                                                       *)

(* Mutant of MustAsk: a charge trusts the stored type.                     *)
MustAskUnknown(kind, type) == type = "unknown"
MustAsk(kind, type) == kind # "page" \/ type = "unknown"

AskStore(r) ==
    /\ At(r, "plan") /\ MustAsk(request[r].kind, request[r].type)
    /\ request' = [request EXCEPT ![r] =
         [pc |-> "storeType", kind |-> @.kind, seen |-> @.seen,
          confirm |-> TRUE, type |-> TypeName(store.dev)]]
    /\ UNCHANGED <<shop, session, row>> /\ Elsewhere

TypeFails(r) ==
    /\ At(r, "plan") /\ MustAsk(request[r].kind, request[r].type)
    /\ Spend("fails")
    /\ Ends(r)
    /\ UNCHANGED <<store, deliveries, handler, shop, session, row, gap>>

(* refreshShopPlanSignal keeps the answer.                                 *)
StoreType(r) ==
    /\ At(r, "storeType")
    /\ IF shop.exists
       THEN /\ shop' = [shop EXCEPT !.type = request[r].type]
            /\ Go(r, IF request[r].kind = "page" THEN "read" ELSE "charge")
       ELSE Ends(r) /\ UNCHANGED shop
    /\ UNCHANGED <<session, row>> /\ Elsewhere

KnowType(r) ==
    /\ At(r, "plan") /\ ~MustAsk(request[r].kind, request[r].type)
    /\ request' = [request EXCEPT ![r] =
         [pc |-> IF request[r].kind = "page" THEN "read" ELSE "charge",
          kind |-> @.kind, confirm |-> FALSE, type |-> @.type,
          seen |-> IF request[r].kind = "page" THEN Unseen ELSE @.seen]]
    /\ UNCHANGED <<shop, session, row>> /\ Elsewhere

(* Mutant of Trusts: a stored plan is trusted for good.                    *)
TrustsStored(r) == ~request[r].confirm
(* A stored plan is enough for ten minutes, but not after the type of the  *)
(* store was in doubt.                                                     *)
Trusts(r) == row.fresh /\ ~request[r].confirm

ReadSubscription(r) ==
    /\ At(r, "read")
    /\ IF Trusts(r) THEN Serves(r, row.plan)
       ELSE request' = [request EXCEPT ![r] =
              [pc |-> "check", seen |-> @.seen, confirm |-> @.confirm,
               type |-> @.type, plan |-> row.plan]]
    /\ UNCHANGED <<shop, session, row>> /\ Elsewhere

CheckBilling(r) ==
    /\ At(r, "check")
    /\ request' = [request EXCEPT ![r].pc = "store",
                     ![r].plan = BestOf(store.charges, request[r].type = "dev")]
    /\ UNCHANGED <<shop, session, row>> /\ Elsewhere

(* Shopify out of reach: what was stored last, but nothing when in doubt.  *)
CheckFails(r) ==
    /\ At(r, "check") /\ Spend("fails")
    /\ Serves(r, IF request[r].confirm THEN "none" ELSE request[r].plan)
    /\ UNCHANGED <<store, deliveries, handler, shop, session, row, gap>>

StorePlan(r) ==
    /\ At(r, "store")
    /\ IF shop.exists THEN /\ row' = [row EXCEPT !.plan = request[r].plan, !.fresh = TRUE]
                           /\ Serves(r, request[r].plan)
       ELSE Ends(r) /\ UNCHANGED row
    /\ UNCHANGED <<shop, session>> /\ Elsewhere

(* The merchant is sent to Shopify to approve a charge of this kind.       *)
RequestCharge(r) ==
    /\ At(r, "charge")
    /\ LET charge == [name |-> request[r].kind, test |-> request[r].type = "dev"]
       IN  /\ store' = IF store.installed THEN [store EXCEPT !.asked = {charge}] ELSE store
           /\ request' = [request EXCEPT ![r] =
                [pc |-> "charged", seen |-> @.seen, test |-> charge.test]]
    /\ UNCHANGED <<deliveries, handler, shop, session, row, gap, allowed>>

Close(r) ==
    /\ request[r].pc \in {"served", "charged"}
    /\ Ends(r)
    /\ UNCHANGED <<shop, session, row>> /\ Elsewhere

RequestStep(r) ==
    \/ FindShop(r) \/ ResetShop(r) \/ RecordScopes(r) \/ SynchroniseCarrier(r)
    \/ StartImport(r) \/ AskStore(r) \/ StoreType(r) \/ KnowType(r)
    \/ ReadSubscription(r) \/ CheckBilling(r) \/ StorePlan(r) \/ RequestCharge(r)
    \/ Close(r)

Happens == \/ Convert \/ Regrant \/ Approve \/ Uninstall \/ Reinstall \/ AskRedact
           \/ LoseDelivery

Steps ==
    \/ Happens
    \/ \E d \in deliveries : Take(d)
    \/ Process \/ ProcessFails \/ MeterOrder \/ Age \/ ImportStep
    \/ \E r \in Requests :
         \/ \E kind \in {"page"} \cup DOMAIN PlanOf : Open(r, kind)
         \/ RequestStep(r) \/ TypeFails(r) \/ CheckFails(r)

Next == Steps /\ UNCHANGED scene

(* Merchants go on opening pages, requests and deliveries run to their end *)
(* and time passes.                                                        *)
Fairness ==
    /\ \A r \in Requests : /\ WF_accountVars(Open(r, "page") /\ UNCHANGED scene)
                           /\ WF_accountVars(RequestStep(r) /\ UNCHANGED scene)
    /\ WF_accountVars((\E d \in deliveries : Take(d)) /\ UNCHANGED scene)
    /\ WF_accountVars(Process /\ UNCHANGED scene)
    /\ SF_accountVars(Age /\ UNCHANGED scene)
    /\ WF_accountVars(ImportStep /\ UNCHANGED scene)

Spec == (\E s \in Stories : AccountInit(s)) /\ [][Next]_accountVars /\ Fairness

-----------------------------------------------------------------------------
TypeOK ==
    /\ store \in Truth /\ shop \in ShopRow
    /\ row.plan \in DOMAIN Rank /\ row.fresh \in BOOLEAN
    /\ session \in BOOLEAN /\ gap \in BOOLEAN

(* Money and access follow what Shopify said, not what was remembered: the *)
(* mode of a charge is one the store had while its request ran, and a page *)
(* that found the type of the store in doubt serves only a plan of which   *)
(* Shopify had a charge, in a mode the store had, while that request ran.  *)
(* Conversions, cleared types, other requests' writes and an unreachable   *)
(* Shopify may come in between.                                            *)
BillingModeIsAnswered ==
    \A r \in Requests :
      /\ At(r, "charged") => request[r].test \in request[r].seen.dev
      /\ (At(r, "served") /\ request[r].confirm /\ request[r].plan # "none") =>
           \E c \in request[r].seen.charges :
             /\ PlanOf[c.name] = request[r].plan
             /\ c.test => TRUE \in request[r].seen.dev

(* The sales of the time the app was not installed are not hidden: once    *)
(* the uninstallation was processed and the shop is back, its import is    *)
(* not called complete while they are missing, whenever the delivery came. *)
GapIsNotHidden ==
    (/\ gap /\ store.installed /\ shop.exists /\ ~shop.gone
     /\ [topic |-> "uninstalled"] \notin deliveries
     /\ handler = Free)
    => shop.sync # "COMPLETE"

(* The account settles.  Of a shop that stays, and whose type of store was *)
(* not overwritten by an older answer, the stored plan becomes the best    *)
(* its charges allow, whatever deliveries were lost, late or out of order; *)
(* one that is removed ends without session and, unless a request that was *)
(* under way took the mark back, with its meter suspended.                 *)
TypeIsHonest == store.installed /\ shop.type \in {"unknown", TypeName(store.dev)}
AccountSettles ==
    /\ <>[]TypeIsHonest => <>[](/\ shop.exists /\ ~shop.gone
                                /\ row.plan = BestOf(store.charges, store.dev))
    /\ <>[]~store.installed => <>[](/\ ~session
                                    /\ shop.gone => row.meter = "suspended")
=============================================================================
