------------------------------- MODULE Ledger -------------------------------
(***************************************************************************)
(* From stored rows to the engine's input: app/data/queries.server.ts.     *)
(*                                                                         *)
(* books: the rows of a shop.  Orders in the order of (processedAt, id),   *)
(* parcels (fulfilments) and labels (the correction ledger) by order, ad   *)
(* spend by day, cost rules, warehouse days, and per variant its price, its*)
(* cost and its price history.                                             *)
(***************************************************************************)
EXTENDS Profit

CONSTANT MaxOrders

In(range, at) == range.from <= at /\ at <= range.to

(* A window of more orders than the engine takes is refused, not cut.      *)
TooLarge(rows, range) == Cardinality({i \in DOMAIN rows : In(range, rows[i].at)}) > MaxOrders

(* Nothing from a carrier is not a free parcel: the cost is not known yet, *)
(* unless a label or a correction was recorded.  A correction is added to  *)
(* what the parcels cost; a label for a return is counted apart.           *)
EngineOrder(books, row) ==
    LET own(x)     == x.order = row.id
        outward(x) == own(x) /\ ~x.returned
        parcels  == SumWhere(books.parcels, own, LAMBDA x : x.shipping)
        picked   == SumWhere(books.parcels, own, LAMBDA x : x.pickPack)
        adjusted == SumWhere(books.labels, outward, LAMBDA x : x.cents)
        recorded == \E i \in DOMAIN books.labels : outward(books.labels[i])
    IN  row @@ [shipCost |-> IF parcels > 0 \/ recorded THEN {parcels + adjusted} ELSE {},
                pickCost |-> IF picked > 0 THEN {picked} ELSE {},
                returnCost |-> SumWhere(books.labels, LAMBDA x : own(x) /\ x.returned,
                                        LAMBDA x : x.cents)]
EngineOrders(books, range) ==
    LET rows == SelectSeq(books.orders, LAMBDA o : In(range, o.at))
    IN  [i \in DOMAIN rows |-> EngineOrder(books, rows[i])]

(* A day of spend stands at midnight, so the part of a first day that the  *)
(* window cuts off takes the whole day's spend with it.                    *)
AdSpendRows(books, range) ==
    SelectSeq(books.spend, LAMBDA s : In(range, s.day * Ticks))

(* The first active rule of each kind, or nothing.                         *)
RuleOf(rules, kind, field, default) ==
    LET found == {i \in DOMAIN rules : rules[i].active /\ rules[i].kind = kind}
    IN  IF found = {} THEN default
        ELSE rules[CHOOSE i \in found : \A j \in found : i <= j][field]
CostRules(rules) ==
    [percent     |-> RuleOf(rules, "PAYMENT_FEE", "percent", 0),
     fixed       |-> RuleOf(rules, "PAYMENT_FEE", "perOrder", 0),
     shipDefault |-> RuleOf(rules, "SHIPPING_DEFAULT", "perOrder", 0),
     pickOrder   |-> RuleOf(rules, "PICK_PACK", "perOrder", 0),
     pickItem    |-> RuleOf(rules, "PICK_PACK", "perItem", 0),
     overhead    |-> RuleOf(rules, "OVERHEAD_MONTHLY", "monthly", 0)]

(* The look back over customers reads what a recompute stored.             *)
CohortRows(made, range) == SelectSeq(made, LAMBDA o : o.customer # NoOne /\ In(range, o.at))
CapacityDays(books, range) == SelectSeq(books.days, LAMBDA d : In(range, d.day * Ticks))

-----------------------------------------------------------------------------
(* The history of prices and sales of a variant, in UTC days.              *)
UtcDay(at) == at \div Ticks
PriceInForce(history, at) ==
    LET past == {i \in DOMAIN history : history[i].at <= at}
    IN  IF past = {} THEN {} ELSE {history[CHOOSE i \in past : \A j \in past : j <= i].price}

(* Units of a day and what they really brought: the discount of a line     *)
(* falls equally on the units that stayed sold.                            *)
SalesOf(books, v, range, day) ==
    LET orders == {i \in DOMAIN books.orders :
                     In(range, books.orders[i].at) /\ UtcDay(books.orders[i].at) = day}
        Over(F(_)) == SumOf([i \in DOMAIN books.orders |->
            IF i \in orders
            THEN SumWhere(books.orders[i].lines, LAMBDA l : l.variant = v /\ Sold(l) > 0, F)
            ELSE 0])
    IN  [units   |-> Over(Sold),
         revenue |-> Over(LAMBDA l : l.price * Sold(l)
                                     - Rounded(l.discount * Sold(l), l.quantity))]

BucketStep(listPrice) == Most(25, Rounded(6 * listPrice, 100))
Observation(books, v, range, at) ==
    LET sold == SalesOf(books, v.id, range, UtcDay(at))
    IN  [price |-> LET listed == OrElse(PriceInForce(v.history, at), 0)
                       step   == BucketStep(listed)
                   IN  IF sold.units > 0
                       THEN Rounded(sold.revenue, sold.units * step) * step
                       ELSE listed,
         units |-> sold.units]
(* A day before the first price that was observed says nothing.            *)
Observations(books, v, range) ==
    LET days == Most(1, Rounded(range.to - range.from, Ticks))
        all  == [i \in 1..days |-> range.from + (i - 1) * Ticks]
        seen == SelectSeq(all, LAMBDA at : PriceInForce(v.history, at) # {})
    IN  [i \in DOMAIN seen |-> Observation(books, v, range, seen[i])]
=============================================================================
