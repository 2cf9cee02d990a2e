------------------------------ MODULE Channels ------------------------------
(***************************************************************************)
(* What each advertising channel and campaign buys:                        *)
(* app/engine/acquisition.ts.  The cost of a customer belongs to the       *)
(* window; what a customer is worth is measured over a longer look back,   *)
(* from the profit that the last recompute stored, by the customers old    *)
(* enough to have answered.                                                *)
(***************************************************************************)
EXTENDS Products

CONSTANTS Checkpoints, JudgedDay

ASSUME CheckpointsAssumption == \E i \in DOMAIN Checkpoints : Checkpoints[i] = JudgedDay

(* Customers of the window brought by a channel, or by a campaign.  Its    *)
(* orders are loaded in time order, so the earliest is the first found.    *)
Brought(orders, channel) ==
    {c \in Acquired(orders) : orders[FirstOf(orders, c)].channel = channel}
BroughtBy(orders, campaign) ==
    {c \in Acquired(orders) : orders[FirstOf(orders, c)].campaign = campaign}

(* The look back: rows of customer, instant, channel, first, contribution  *)
(* and ad cost, in time order.  Value is counted before ad cost.           *)
Gross(row) == row.contribution + row.ad
Aged(rows, c, day, end) == (end - rows[FirstOf(rows, c)].at) >= day * Ticks
EarnedBy(rows, c, day) ==
    SumOf([i \in DOMAIN rows |->
             IF /\ rows[i].customer = c
                /\ (rows[i].at - rows[FirstOf(rows, c)].at) \div Ticks <= day
             THEN Gross(rows[i]) ELSE 0])
ValueAt(rows, channel, day, end) ==
    LET cohort == {c \in Brought(rows, channel) : Aged(rows, c, day, end)}
        total  == SumOf([i \in DOMAIN rows |->
                    IF \E c \in cohort : FirstOf(rows, c) = i
                    THEN EarnedBy(rows, rows[i].customer, day) ELSE 0])
    IN  [day |-> day, value |-> Average(total, Cardinality(cohort)), measurable |-> cohort # {}]
LtvCurve(rows, channel, end) ==
    [i \in DOMAIN Checkpoints |-> ValueAt(rows, channel, Checkpoints[i], end)]

(* The first day the average customer has paid for itself, between two     *)
(* checkpoints by proportion; -1 when it never does.                       *)
PaybackDays(curve, cac) ==
    LET known == SelectSeq(curve, LAMBDA p : p.measurable)
        pays  == {i \in DOMAIN known : known[i].value >= cac}
        i     == CHOOSE k \in pays : \A j \in pays : k <= j
        span  == known[i].value - known[i - 1].value
    IN  IF cac <= 0 THEN 0
        ELSE IF pays = {} THEN -1
        ELSE IF i = 1 THEN known[1].day
        ELSE Rounded(known[i - 1].day * span
                     + (cac - known[i - 1].value) * (known[i].day - known[i - 1].day), span)

ChannelVerdict(spend, cac, value, contribution) ==
    IF spend <= 0 THEN "NO_SPEND"
    ELSE IF cac = {} \/ OrElse(cac, 0) <= 0 \/ ~value.measurable
         THEN IF contribution > 0 THEN "PROFITABLE" ELSE "UNPROFITABLE"
    ELSE IF value.value < OrElse(cac, 0) THEN "UNPROFITABLE"
    ELSE IF 2 * value.value < 3 * OrElse(cac, 0) THEN "MARGINAL" ELSE "PROFITABLE"
CampaignVerdict(spend, contribution) ==
    IF spend <= 0 THEN "NO_SPEND"
    ELSE IF contribution <= 0 THEN "UNPROFITABLE"
    ELSE IF 5 * contribution < spend THEN "MARGINAL" ELSE "PROFITABLE"

CostOfCustomer(spend, n) == IF n = 0 THEN {} ELSE {Rounded(spend, n)}
Where(rows, P(_), F(_)) == SumOf([i \in DOMAIN rows |-> IF P(i) THEN F(i) ELSE 0])

ChannelProfits(orders, profits, spend, rows, end) ==
    [ch \in {orders[i].channel : i \in DOMAIN orders}
            \cup {spend[r].channel : r \in DOMAIN spend} |->
       LET paid == Where(spend, LAMBDA r : spend[r].channel = ch, LAMBDA r : spend[r].cents)
           its(i) == orders[i].channel = ch
           new    == Brought(orders, ch)
           earned == Where(orders, its, LAMBDA i : profits[i].contribution)
           curve  == LtvCurve(rows, ch, end)
           judged == curve[CHOOSE k \in DOMAIN curve : curve[k].day = JudgedDay]
           cac    == CostOfCustomer(paid, Cardinality(new))
       IN  [spend |-> paid, newCustomers |-> Cardinality(new), cac |-> cac,
            orders |-> Cardinality({i \in DOMAIN orders : its(i)}),
            returning |-> Cardinality({i \in DOMAIN orders : its(i) /\ ~orders[i].first}),
            netRevenue |-> Where(orders, its, LAMBDA i : profits[i].netRevenue),
            contribution |-> earned,
            firstProfit |-> Average(Where(orders,
                LAMBDA i : \E c \in new : FirstOf(orders, c) = i,
                LAMBDA i : profits[i].contribution), Cardinality(new)),
            payback |-> {PaybackDays(curve, n) : n \in cac},
            verdict |-> ChannelVerdict(paid, cac, judged, earned)]]

CampaignProfits(orders, profits, spend) ==
    [id \in {spend[r].campaign : r \in DOMAIN spend} \ {NoOne} |->
       LET paid == Where(spend, LAMBDA r : spend[r].campaign = id, LAMBDA r : spend[r].cents)
           its(i) == orders[i].campaign = id
           earned == Where(orders, its, LAMBDA i : profits[i].contribution)
           new    == Cardinality(BroughtBy(orders, id))
       IN  [spend |-> paid, newCustomers |-> new, cac |-> CostOfCustomer(paid, new),
            contribution |-> earned, perCustomer |-> Average(earned, new),
            verdict |-> CampaignVerdict(paid, earned)]]
=============================================================================
