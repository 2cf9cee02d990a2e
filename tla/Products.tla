------------------------------ MODULE Products ------------------------------
(***************************************************************************)
(* What each product earns: app/engine/products.ts.  The costs of an order *)
(* are pushed down to its lines by their share of its product revenue, and *)
(* a product that loses money is judged by what its first-time buyers earn *)
(* later.                                                                  *)
(***************************************************************************)
EXTENDS Profit

CONSTANT MinCohort

LineNet(line) == NotBelow0(line.price * Sold(line) - line.discount)

(* The lines of an order that name a product, each with its shares.        *)
LineParts(lines, order, profit, nets) ==
    LET share(cents) == Allocated(cents, nets)
    IN  [i \in DOMAIN lines |->
           [product |-> lines[i].product, units |-> Sold(lines[i]),
            missing |-> lines[i].cost <= 0 /\ Sold(lines[i]) > 0, modelled |-> profit.modelled,
            net  |-> lines[i].price * Sold(lines[i]) - lines[i].discount
                     - share(NotBelow0(order.discount))[i] - share(NotBelow0(order.refunded))[i],
            cogs |-> CostOfUnits(lines[i].cost, Sold(lines[i])),
            shipping |-> share(profit.shipping)[i], payment |-> share(profit.payment)[i],
            pickPack |-> share(profit.pickPack)[i], ad |-> share(profit.ad)[i]]]
Named(order) == SelectSeq(order.lines, LAMBDA l : l.product # NoOne)
ProductParts(order, profit) ==
    LineParts(Named(order), order, profit,
              [i \in DOMAIN Named(order) |-> LineNet(Named(order)[i])])

(* A customer of this window, known by its first order here, and what its  *)
(* later orders earned.  Only a true first order acquires.                 *)
FirstOf(orders, c) ==
    CHOOSE i \in DOMAIN orders : /\ orders[i].customer = c
                                 /\ \A j \in 1..(i - 1) : orders[j].customer # c
Acquired(orders) ==
    {c \in {orders[i].customer : i \in DOMAIN orders} \ {NoOne} :
        orders[FirstOf(orders, c)].first}
EarnedLater(orders, profits, c) ==
    SumOf([i \in DOMAIN orders |->
             IF orders[i].customer = c /\ i > FirstOf(orders, c)
             THEN profits[i].contribution ELSE 0])
BuyersOf(orders, p) ==
    {c \in Acquired(orders) :
        \E k \in DOMAIN orders[FirstOf(orders, c)].lines :
            orders[FirstOf(orders, c)].lines[k].product = p}
LaterProfit(orders, profits, customers) ==
    LET of == [i \in DOMAIN orders |->
                 IF \E c \in customers : FirstOf(orders, c) = i
                 THEN EarnedLater(orders, profits, orders[i].customer) ELSE 0]
    IN  SumOf(of)
Average(cents, n) == IF n = 0 THEN 0 ELSE Rounded(cents, n)

(* A loss leader is strategic only when its buyers cover the loss and come *)
(* back better, by a quarter, than the average customer of the store.      *)
Classification(contribution, net, buyers, later, usual) ==
    IF contribution > 0
    THEN IF net < 0 \/ (net > 0 /\ 10 * contribution < net) THEN "THIN_MARGIN"
         ELSE "PROFITABLE"
    ELSE IF /\ buyers >= MinCohort
            /\ later > -contribution
            /\ 4 * Average(later, buyers) > 5 * usual
         THEN "STRATEGIC_LOSS_LEADER"
         ELSE "BLEEDING"

ProductIds(parts) == UNION {{parts[i][k].product : k \in DOMAIN parts[i]} : i \in DOMAIN parts}
(* Each figure of a product, over all lines that name it.                  *)
ProductSums(parts, p) ==
    [f \in {"units", "net", "cogs", "shipping", "payment", "pickPack", "ad"} |->
       SumOf([i \in DOMAIN parts |->
         SumOf([k \in DOMAIN parts[i] |->
           IF parts[i][k].product = p THEN parts[i][k][f] ELSE 0])])]
ProductEntry(s, n, buyers, later, usual) ==
    LET earned == s.net - s.cogs - s.shipping - s.payment - s.pickPack - s.ad
    IN  s @@ [contribution |-> earned, orders |-> n, acquired |-> Cardinality(buyers),
              class |-> Classification(earned, s.net, Cardinality(buyers), later, usual)]
Flagged(parts, p, flag) ==
    \E i \in DOMAIN parts : \E k \in DOMAIN parts[i] : parts[i][k].product = p /\ parts[i][k][flag]
ProductTable(orders, profits, parts, usual) ==
    [p \in ProductIds(parts) |->
       ProductEntry(ProductSums(parts, p)
                    @@ [f \in {"missing", "modelled"} |-> Flagged(parts, p, f)],
                    Cardinality({i \in DOMAIN parts :
                                   \E k \in DOMAIN parts[i] : parts[i][k].product = p}),
                    BuyersOf(orders, p), LaterProfit(orders, profits, BuyersOf(orders, p)), usual)]
ProductProfits(orders, profits) ==
    ProductTable(orders, profits,
                 [i \in DOMAIN orders |-> ProductParts(orders[i], profits[i])],
                 Average(LaterProfit(orders, profits, Acquired(orders)),
                         Cardinality(Acquired(orders))))
=============================================================================
