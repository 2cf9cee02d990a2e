------------------------------ MODULE Reports ------------------------------
(***************************************************************************)
(* The pages of figures over the analytics cache, the price suggestions of *)
(* lib/pricing.server.ts with the merchant's decisions on them             *)
(* (routes/app.pricing.tsx), and what the figures have to agree on.        *)
(***************************************************************************)
EXTENDS AnalyticsCache, TaxSplit

VARIABLE suggestions
vars == <<db, made, stamp, owed, generation, retained, tail, mark, request, allowed, scene,
          suggestions>>
Waiting == UNCHANGED <<cacheVars, scene>>
Goes(r, pc, plan) == request' = [request EXCEPT ![r].pc = pc, ![r].plan = plan]

-----------------------------------------------------------------------------
(* generatePricingRecommendations: the strategic products, the histories,  *)
(* what was decided, and then the pending rows are made anew.              *)
Strategic(value) ==
    {p \in DOMAIN value.products : value.products[p].class = "STRATEGIC_LOSS_LEADER"}
ReadInputs(r) ==
    /\ request[r].pc = "inputs"
    /\ LET q  == request[r]
           ids == UNION {Strategic(v) : v \in q.answer}
           of(v) == Recommendation(v, v.product \in ids, Observations(Books(db), v, q.of))
       IN  Goes(r, "decided", {of(v) : v \in Books(db).variants})
    /\ UNCHANGED <<allowed, suggestions>> /\ Waiting
Decided == {s \in suggestions : s.status # "PENDING"}
ReadDecided(r) ==
    /\ request[r].pc = "decided"
    /\ Goes(r, "delete", {x \in request[r].plan : /\ Worthwhile(x)
                                                  /\ \A s \in Decided : s.variant # x.variant})
    /\ UNCHANGED <<allowed, suggestions>> /\ Waiting
DeletePending(r) ==
    /\ request[r].pc = "delete"
    /\ suggestions' = Decided
    /\ Goes(r, IF request[r].plan = {} THEN "done" ELSE "create", request[r].plan)
    /\ UNCHANGED allowed /\ Waiting
CreatePending(r) ==
    /\ request[r].pc = "create"
    /\ suggestions' = suggestions \cup
         {[run |-> r, variant |-> x.variant, price |-> x.price, method |-> x.method,
           status |-> "PENDING"] : x \in request[r].plan}
    /\ Goes(r, "done", request[r].plan)
    /\ UNCHANGED allowed /\ Waiting

(* A suggestion is taken, dismissed or restored; nothing but its status.   *)
Decide(s, status) ==
    /\ s \in suggestions /\ s.status # status /\ Spend("decisions")
    /\ suggestions' = (suggestions \ {s}) \cup {[s EXCEPT !.status = status]}
    /\ UNCHANGED request /\ Waiting

(* Figures of rows alone: the tax of an order, the owner's revenue.        *)
Sheet(r) ==
    /\ request[r].pc = "idle" /\ r \in scene.users
    /\ \E sheet \in scene.sheets :
         request' = [request EXCEPT ![r] =
           [pc |-> "done", kind |-> sheet.kind, of |-> sheet,
            answer |-> {CASE sheet.kind = "tax" -> SplitOrderTax(sheet)
                          [] sheet.kind = "revenue" ->
                               Revenue(sheet.rows, sheet.now) @@
                               [moves |-> Movement(sheet.events, Len(sheet.rows), sheet.window,
                                                   sheet.now)]
                          [] sheet.kind = "cash" -> Cash(sheet.rows)}]]
    /\ UNCHANGED <<allowed, suggestions>> /\ Waiting

-----------------------------------------------------------------------------
Idle == [pc |-> "idle"]
Init ==
    /\ scene \in Stories /\ allowed = scene.allowed
    /\ db = 1 /\ made = 1 /\ stamp = 0 /\ owed = FALSE
    /\ generation = 0 /\ retained = <<>> /\ tail = <<>> /\ mark = [db |-> 1, made |-> 1]
    /\ request = [r \in Requests |-> Idle]
    /\ suggestions = {}

Answering(r) == \/ Look(r) \/ ReadDays(r)
Running == \/ Admit \/ (\E part \in Parts("full") : Load(part)) \/ Refuse \/ Finish
           \/ RunRecompute \/ FinishRecompute
Pricing(r) == ReadInputs(r) \/ ReadDecided(r) \/ DeletePending(r) \/ CreatePending(r)
Next ==
    \/ /\ \/ \E r \in Requests : \/ \E kind \in scene.asks, now \in scene.nows : Arrive(r, kind, now)
                                 \/ Answering(r)
          \/ Running \/ LoadFails \/ RecomputeFails
          \/ Write \/ Invalidate \/ StartRecompute \/ Minute
       /\ UNCHANGED <<scene, suggestions>>
    \/ \E r \in Requests : Pricing(r) \/ Sheet(r)
    \/ \E s \in suggestions, status \in {"APPLIED", "DISMISSED", "PENDING"} : Decide(s, status)

Spec == Init /\ [][Next]_vars

-----------------------------------------------------------------------------
TypeOK ==
    /\ db \in DOMAIN scene.editions /\ made \in 1..db /\ stamp \in Nat /\ owed \in BOOLEAN
    /\ \A i \in DOMAIN tail : tail[i].pc \in {"queued", "reading", "running"}
    /\ \A i \in DOMAIN retained : retained[i].kind \in {"full", "period"}
    /\ \A r \in Requests : request[r].pc \in {"idle", "look", "waiting", "days", "inputs",
                             "decided", "delete", "create", "done", "failed"}

(* What a request is given was read after the last invalidation, and after *)
(* the last recompute, that came before the request.                       *)
Floor(q, part) == IF part = "cohort" THEN q.floor.made ELSE q.floor.db
AnswersAreCurrent ==
    \A r \in Requests : request[r].pc # "idle" /\ request[r].kind \in scene.asks =>
        \A v \in request[r].answer : \A part \in DOMAIN v.read :
            v.read[part] >= Floor(request[r], part)

(* Never two order graphs at once: a window that is held, a build that     *)
(* loads and a recompute exclude each other.                               *)
OnePeakAtATime ==
    Cardinality({i \in DOMAIN tail : tail[i].pc # "queued"})
    + Cardinality({i \in DOMAIN retained : retained[i].kind = "full"}) <= 1

(* The parts of a page agree: spend is charged to orders or to none, the   *)
(* months' overhead is charged whole, the costs of the products and of what*)
(* names no product, the channels and the chart add up to the headline, and*)
(* no order is lost by the forecast.                                       *)
SumOver(f, F(_)) ==
    LET upTo[S \in SUBSET DOMAIN f] ==
          IF S = {} THEN 0
          ELSE LET x == CHOOSE x \in S : TRUE IN F(f[x]) + upTo[S \ {x}]
    IN  upTo[DOMAIN f]
HeadlineAgrees(p, orders, spent, monthly, range) ==
    /\ p.ad + p.unattributed = spent
    /\ p.overhead = SumOver([mo \in {MonthOf(DayOf(orders[i].at)) : i \in DOMAIN orders} |->
                               MonthCharge(monthly, mo, range)], LAMBDA x : x)
    /\ p.net = p.netRevenue - p.cogs - p.shipping - p.pickPack - p.payment - p.returns
                - p.overhead - spent
NamesNone(order)  == \A k \in DOMAIN order.lines : order.lines[k].product = NoOne
Nameless(orders)  == [i \in DOMAIN orders |->
                        SelectSeq(orders[i].lines, LAMBDA l : l.product = NoOne)]
NewBuyers(orders) == {i \in DOMAIN orders : orders[i].first /\ orders[i].customer # NoOne}
PageAgrees(v, orders, profits) ==
    /\ \A f \in {"shipping", "payment", "pickPack", "ad"} :
          SumOver(v.products, LAMBDA x : x[f])
          + SumOf([i \in DOMAIN orders |-> IF NamesNone(orders[i]) THEN profits[i][f] ELSE 0])
          = v.period[f]
    /\ SumOver(v.products, LAMBDA x : x.cogs)
       + Total(Nameless(orders), LAMBDA ls : Total(ls, LAMBDA l : CostOfUnits(l.cost, Sold(l))))
       = v.period.cogs
    /\ SumOver(v.channels, LAMBDA x : x.contribution) = v.period.contribution
    /\ SumOver(v.channels, LAMBDA x : x.spend) = v.period.ad + v.period.unattributed
    /\ SumOver(v.channels, LAMBDA x : x.newCustomers) = Cardinality(NewBuyers(orders))
    /\ Total(v.series, LAMBDA x : x.orders) = v.period.count
    /\ Total(v.series, LAMBDA x : x.net) = v.period.net + v.period.unattributed
ForecastAgrees(c) ==
    c.forecast # <<>> =>
        c.backlog + Total(c.forecast, LAMBDA x : x.inbound)
        = c.forecast[Len(c.forecast)].backlog + Total(c.forecast, LAMBDA x : x.out)
ViewAgrees(v, orders, range) ==
    /\ "period" \in DOMAIN v =>
          HeadlineAgrees(v.period, orders,
                         Total(AdSpendRows(Books(v.read.spend), range), LAMBDA s : s.cents),
                         CostRules(Books(v.read.rules).rules).overhead, range)
    /\ "series" \in DOMAIN v =>
          PageAgrees(v, orders, PeriodOf(range, v.read).orders)
    /\ "capacity" \in DOMAIN v => ForecastAgrees(v.capacity)
SheetAgrees(q, v) ==
    CASE q.kind = "tax" ->
           /\ Total(v, LAMBDA x : x.tax) = q.of.tax
           /\ \A i \in DOMAIN v : v[i].goods + v[i].shipping = v[i].tax
      [] q.kind = "revenue" -> SumOver(v.byPlan, LAMBDA x : x) = v.mrr
      [] q.kind = "cash" -> SumOver(v.byType, LAMBDA x : x.net) = v.net
      [] OTHER -> ViewAgrees(v, IF "orders" \in DOMAIN v.read
                                THEN EngineOrders(Books(v.read.orders), q.of) ELSE <<>>, q.of)
FiguresReconcile ==
    \A r \in Requests : request[r].pc # "idle" =>
        \A v \in request[r].answer : SheetAgrees(request[r], v)

(* A suggested price keeps the least margin over the unit cost in cents, as*)
(* marginAt reckons it.                                                    *)
MarginKept(x) ==
    x.method \in {"ELASTICITY_REGRESSION", "MARGIN_TARGET"} =>
        \E e \in DOMAIN scene.editions : \E v \in Books(e).variants :
            v.id = x.variant /\ 20 * (x.price - UnitCost(v.cost)) >= 3 * x.price
SuggestionsKeepTheMargin == \A s \in suggestions : MarginKept(s)

-----------------------------------------------------------------------------
(* What the documentation states and the code does not keep: a run shows   *)
(* the first, the README says how to see the second.                       *)

(* "There is nothing worse than an overview whose profit figure disagrees  *)
(* with the product page's" (data/analytics.server.ts:36-40): where every  *)
(* line names a product, the products earn what the overview reports but   *)
(* for what no product takes, shipping charged and return labels.          *)
ProductsAgreeWithHeadline ==
    \A r \in Requests : request[r].pc # "idle" =>
        \A v \in request[r].answer : "products" \in DOMAIN v =>
            LET orders == EngineOrders(Books(v.read.orders), request[r].of)
            IN  SumOver(v.products, LAMBDA x : x.contribution)
                + Total(orders, LAMBDA o : o.shipCharged - o.returnCost)
                = v.period.contribution

(* "Recommendations the merchant has already applied or dismissed are left *)
(* alone" (lib/pricing.server.ts:19-20): their variant is not suggested    *)
(* again.                                                                  *)
DecidedIsLeftAlone ==
    \A s \in suggestions : s.status = "PENDING" => \A d \in Decided : d.variant # s.variant
=============================================================================
