------------------------------ MODULE Pricing ------------------------------
(***************************************************************************)
(* A price for a variant: recommendPrice of app/engine/pricing.ts.         *)
(*                                                                         *)
(* The fit of the demand curve takes logarithms; which slope it finds, in  *)
(* tenths, and how well it fits, is a choice of the input.  Whether there  *)
(* is anything to fit, and what follows from the slope, is the code's.     *)
(***************************************************************************)
EXTENDS Profit

CONSTANTS ManyObservations, SomeObservations

(* Prices that sold anything: at least two are needed.                     *)
PricePoints(observations) ==
    {p \in {observations[i].price : i \in DOMAIN observations} :
        p > 0 /\ \E i \in DOMAIN observations :
                    observations[i].price = p /\ observations[i].units > 0}
Elasticity(observations, slope) ==
    IF Cardinality(PricePoints(observations)) < 2 THEN {} ELSE {slope}
(* The fit, R squared, is given in hundredths.                             *)
Confidence(observations, fit) ==
    LET points == Cardinality(PricePoints(observations))
        days   == Len(observations)
    IN  IF points >= 3 /\ days >= ManyObservations /\ fit >= 50 THEN "HIGH"
        ELSE IF points >= 2 /\ days >= SomeObservations /\ fit >= 25 THEN "MEDIUM"
        ELSE "LOW"

Up(a, b) == -((-a) \div b)
UnitCost(micros)   == Rounded(micros, 100)
FloorOf(cost)      == Up(20 * cost, 17)
LowestOf(cost, now)  == Most(FloorOf(cost), Rounded(3 * now, 4))
HighestOf(now)       == Rounded(5 * now, 4)
Bounded(cost, now, cents) == Least(HighestOf(now), Most(LowestOf(cost, now), cents))

(* The nearest price in .95 or .99 that keeps the margin.                  *)
(* Mutant of RoundToCharmPrice: the nearest one, whatever the floor.       *)
RoundToCharmPriceFree(cents, floor) ==
    LET d == cents \div 100
        near == {d * 100 - 5, d * 100 - 1, d * 100 + 95, d * 100 + 99}
    IN  CHOOSE c \in near : \A e \in near : Magnitude(c - cents) <= Magnitude(e - cents)
RoundToCharmPrice(cents, floor) ==
    LET d      == cents \div 100
        viable == {c \in {d * 100 - 5, d * 100 - 1, d * 100 + 95, d * 100 + 99} : c >= floor}
        far(c) == Magnitude(c - cents)
    IN  IF cents <= 0 THEN cents
        ELSE IF viable = {} THEN Most(cents, floor)
        ELSE CHOOSE c \in viable : \A e \in viable : far(c) < far(e) \/ (far(c) = far(e) /\ c <= e)

(* Elastic demand with slope e is best served at c * e / (1 + e).          *)
Optimal(cost, slope) == Rounded(cost * (-slope), (-slope) - 10)
Recommendation(v, strategic, observations) ==
    LET cost   == UnitCost(v.cost)
        slope  == Elasticity(observations, v.slope)
        sure   == Confidence(observations, v.fit) # "LOW"
        thin   == v.price # 0 /\ 20 * (v.price - cost) < 7 * v.price
        offer(cents) == RoundToCharmPrice(Bounded(cost, v.price, cents), FloorOf(cost))
        target == offer(Up(20 * cost, 13))
        says(method, cents) == [variant |-> v.id, method |-> method, price |-> cents,
                                elastic |-> slope # {}]
    IN  IF strategic THEN says("STRATEGIC_HOLD", v.price)
        ELSE IF v.price <= cost THEN says("BELOW_COST", v.price)
        ELSE IF slope # {} /\ sure /\ OrElse(slope, 0) < -10
             THEN says("ELASTICITY_REGRESSION", offer(Optimal(cost, OrElse(slope, 0))))
        ELSE IF thin /\ target > v.price THEN says("MARGIN_TARGET", target)
        ELSE says("INSUFFICIENT_DATA", v.price)
(* A suggestion that says nothing is not kept.                             *)
Worthwhile(r) == r.method # "INSUFFICIENT_DATA" \/ r.elastic
=============================================================================
