------------------------------- MODULE Profit -------------------------------
(***************************************************************************)
(* The profit engine: app/engine/profit.ts over the amounts of money.ts.   *)
(*                                                                         *)
(* Amounts are whole cents, unit costs hundredths of a cent, a rate is in  *)
(* thousandths.  A day has Ticks instants and a month MonthDays days; the  *)
(* clocks of the merchant's zone go forward by one instant at ClocksChange.*)
(* A cost that may not be known is a set of at most one number.            *)
(***************************************************************************)
EXTENDS Shares, TLC

CONSTANTS Ticks, ClocksChange, MonthDays, NoOne

ASSUME CalendarAssumption == Ticks \in Nat \ {0} /\ MonthDays \in Nat \ {0}

Offset(at)   == IF at >= ClocksChange THEN 1 ELSE 0
DayOf(at)    == (at + Offset(at)) \div Ticks
MonthOf(day) == day \div MonthDays
NotBelow0(n) == IF n < 0 THEN 0 ELSE n
Least(a, b)  == IF a < b THEN a ELSE b
Most(a, b)   == IF a > b THEN a ELSE b

(* Math.round of a / b: halves go up.                                      *)
Rounded(a, b)     == (2 * a + b) \div (2 * b)
RoundedAway(a, b) == SignOf(a) * Rounded(Magnitude(a), b)
CostOfUnits(micros, n) == RoundedAway(micros * n, 100)
ApplyRate(cents, rate) == RoundedAway(cents * rate, 1000)
Total(rows, F(_)) == SumOf([i \in DOMAIN rows |-> F(rows[i])])
SumWhere(rows, P(_), F(_)) == SumOf([i \in DOMAIN rows |-> IF P(rows[i]) THEN F(rows[i]) ELSE 0])
OrElse(known, default) == IF known = {} THEN default ELSE CHOOSE n \in known : TRUE

Sold(line) == NotBelow0(line.quantity - line.refunded)
EqualShare(cents, among, i) ==
    Allocated(cents, [k \in 1..Cardinality(among) |-> 1])
             [Cardinality({j \in among : j <= i})]

-----------------------------------------------------------------------------
(* Advertising is spread equally over the orders of its campaign that day, *)
(* or of its channel when no order carries the campaign.                   *)
Matched(orders, row) ==
    LET thatDay    == {i \in DOMAIN orders : DayOf(orders[i].at) = row.day}
        byCampaign == {i \in thatDay : row.campaign # NoOne
                                       /\ orders[i].campaign = row.campaign}
        byChannel  == {i \in thatDay : orders[i].channel = row.channel}
    IN  IF byCampaign # {} THEN byCampaign ELSE byChannel
AdCostOf(orders, spend, i) ==
    SumOf([r \in DOMAIN spend |->
             LET m == Matched(orders, spend[r])
             IN  IF i \in m THEN EqualShare(spend[r].cents, m, i) ELSE 0])
(* Spend of a day without orders of its channel is charged to no order.    *)
Unattributed(orders, spend) ==
    SumOf([r \in DOMAIN spend |-> IF Matched(orders, spend[r]) = {}
                                  THEN spend[r].cents ELSE 0])

(* The days of a month the window touches, in strides of a day's length.   *)
CoveredDays(month, range) ==
    Cardinality({d \in {DayOf(t) : t \in {u \in range.from..range.to :
                                            (u - range.from) % Ticks = 0}} :
                    MonthOf(d) = month})
MonthCharge(monthly, month, range) ==
    Rounded(monthly * Least(CoveredDays(month, range), MonthDays), MonthDays)
(* Fixed costs of a month are shared equally by its orders.                *)
OverheadOf(orders, monthly, range, i) ==
    LET month == MonthOf(DayOf(orders[i].at))
        peers == {j \in DOMAIN orders : MonthOf(DayOf(orders[j].at)) = month}
    IN  IF monthly <= 0 THEN 0 ELSE EqualShare(MonthCharge(monthly, month, range), peers, i)

-----------------------------------------------------------------------------
(* What was paid back, without the tax in it; a fee that was kept is       *)
(* untaxed and comes out whole.                                            *)
RefundOf(order) ==
    LET fees == NotBelow0(order.fees)
        back == order.refunded + fees
    IN  NotBelow0((IF order.total > 0
                   THEN Rounded(back * (order.total - order.tax), order.total)
                   ELSE back) - fees)

Contribution(p) ==
    p.netRevenue - p.cogs - p.shipping - p.payment - p.pickPack - p.ad - p.returns

(* Does a figure rest on no cost at all, or on a modelled one?             *)
MissingCost(order) ==
    \E i \in DOMAIN order.lines : order.lines[i].cost <= 0 /\ Sold(order.lines[i]) > 0
Modelled(p, order, rules) ==
    \/ p.payment # 0
    \/ order.shipCost = {} /\ p.shipping # 0
    \/ order.pickCost = {} /\ p.pickPack # 0
    \/ rules.overhead # 0

Judged(p, order, rules) ==
    p @@ [contribution |-> Contribution(p), missing |-> MissingCost(order),
          modelled |-> Modelled(p, order, rules)]
OrderProfit(order, rules, ad, overhead) ==
    LET units == Total(order.lines, Sold)
    IN  Judged([
          at |-> order.at, channel |-> order.channel, units |-> units,
          netRevenue |-> order.subtotal - order.discount + order.shipCharged - RefundOf(order),
          cogs     |-> Total(order.lines, LAMBDA l : CostOfUnits(l.cost, Sold(l))),
          shipping |-> OrElse(order.shipCost, rules.shipDefault),
          pickPack |-> OrElse(order.pickCost, rules.pickOrder + rules.pickItem * units),
          payment  |-> ApplyRate(order.total, rules.percent) + rules.fixed,
          ad |-> ad, returns |-> order.returnCost, overhead |-> overhead], order, rules)

(* The period: each bucket is the sum of the orders', and the spend that   *)
(* fell on no order is taken off the total.                                *)
Buckets == {"units", "netRevenue", "cogs", "shipping", "pickPack", "payment", "ad", "returns",
            "overhead", "contribution"}
Summed(of, loose) ==
    LET sum == [f \in Buckets |-> SumOf([i \in DOMAIN of |-> of[i][f]])]
    IN  sum @@ [count |-> Len(of), unattributed |-> loose, orders |-> of,
                net |-> sum["contribution"] - sum["overhead"] - loose]
PeriodProfit(orders, spend, rules, range) ==
    Summed([i \in DOMAIN orders |->
              OrderProfit(orders[i], rules, AdCostOf(orders, spend, i),
                          OverheadOf(orders, rules.overhead, range, i))],
           Unattributed(orders, spend))
=============================================================================
