----------------------------- MODULE Warehouse -----------------------------
(***************************************************************************)
(* Will the parcels leave in time?  analyseCapacity of                     *)
(* app/engine/capacity.ts.  Means are kept as fractions <<n, d>> of        *)
(* integers, d > 0, so that nothing is lost before the rounding of the     *)
(* code.  Days carry the orders that came and went, the backlog at their   *)
(* end and the stated ceiling.                                             *)
(***************************************************************************)
EXTENDS Profit

CONSTANTS Trailing, Trend, Forecast, WeekLength, ManyDays

Mean(f)        == IF Len(f) = 0 THEN <<0, 1>> ELSE <<SumOf(f), Len(f)>>
Times(a, b)    == <<a[1] * b[1], a[2] * b[2]>>
Over2(a, b)    == Times(a, <<b[2], b[1]>>)
Exceeds(a, b)  == a[1] * b[2] > b[1] * a[2]
Nearest(a)     == Rounded(a[1], a[2])
Greater(a, b)  == IF Exceeds(b, a) THEN b ELSE a
Last(f, n)     == SubSeq(f, Most(1, Len(f) - n + 1), Len(f))

(* Demand by day of the week, once there are two weeks of it.              *)
WeekdayFactor(days, weekday) ==
    LET same    == SelectSeq(days, LAMBDA d : d.day % WeekLength = weekday)
        came(s) == [i \in DOMAIN s |-> s[i].received]
    IN  IF \/ Len(days) < 2 * WeekLength
           \/ SumOf(came(days)) <= 0 \/ Len(same) = 0
        THEN <<1, 1>>
        ELSE Over2(Mean(came(same)), Mean(came(days)))

Throughput(days) == Mean([i \in DOMAIN Last(days, Trailing) |-> Last(days, Trailing)[i].fulfilled])
(* The larger of what is stated and what has been shown to be possible.    *)
Capacity(days) ==
    LET trailing == Last(days, Trailing)
        peak == CHOOSE n \in {trailing[i].fulfilled : i \in DOMAIN trailing} :
                    \A i \in DOMAIN trailing : trailing[i].fulfilled <= n
    IN  Greater(Mean([i \in DOMAIN trailing |-> trailing[i].ceiling]), <<peak, 1>>)
Recent(days) == Mean([i \in DOMAIN Last(days, Trend) |-> Last(days, Trend)[i].received])
Prior(days)  == LET upTo == SubSeq(days, 1, NotBelow0(Len(days) - Trend))
                IN  Mean([i \in DOMAIN Last(upTo, Trend) |-> Last(upTo, Trend)[i].received])
(* Growth over the trend window, as a fraction; nothing without a past.    *)
Growth(r, p) == IF p[1] > 0 THEN {<<r[1] * p[2] - p[1] * r[2], r[2] * p[1]>>} ELSE {}

Projected(recent, factor, g, i) ==
    NotBelow0(Nearest(Times(Times(recent, factor), <<g[2] * Trend + g[1] * i, g[2] * Trend>>)))
Inbound(days, today, g) ==
    [i \in 1..Forecast |->
       Projected(Recent(days), WeekdayFactor(days, (today + i) % WeekLength), g, i)]

NextDay(available, came, ceiling) ==
    LET out == Least(available, Nearest(ceiling))
    IN  [inbound |-> came, out |-> out, backlog |-> available - out,
         over |-> Exceeds(<<available, 1>>, ceiling)]
(* Day by day, what does not leave waits for the next.                     *)
Forecasts(waiting, inbound, ceiling) ==
    LET backlog[i \in 0..Forecast] ==
            IF i = 0 THEN waiting
            ELSE NextDay(backlog[i - 1] + inbound[i], inbound[i], ceiling).backlog
    IN  [i \in 1..Forecast |-> NextDay(backlog[i - 1] + inbound[i], inbound[i], ceiling)]

(* Later than promised, by the delay in hundredths of a day; with nothing  *)
(* leaving, anything that waits is late.                                   *)
Late(f, sla) == IF f.out > 0 THEN Rounded(100 * f.backlog, f.out) > 100 * sla
                ELSE f.backlog > 0
Utilisation(through, ceiling) == IF ceiling[1] > 0 THEN Over2(through, ceiling) ELSE <<0, 1>>
Alerts(waiting, fs, through, usage, g, sla) ==
    LET behind == through[1] > 0 /\ waiting * through[2] > sla * through[1]
        full   == Cardinality({i \in DOMAIN fs : fs[i].over})
        raised(yes, id, level) == IF yes THEN {<<id, level>>} ELSE {}
    IN  raised(behind, "backlog-over-sla", "CRITICAL")
        \cup raised(~behind /\ \E i \in DOMAIN fs : Late(fs[i], sla),
                    "sla-breach-projected", "WARNING")
        \cup raised(full > 0, "capacity-exceeded",
                    IF full >= ManyDays THEN "CRITICAL" ELSE "WARNING")
        \cup raised(~Exceeds(<<17, 20>>, usage) /\ Exceeds(<<1, 1>>, usage),
                    "utilisation-high", "WARNING")
        \cup raised(Exceeds(g, <<1, 5>>) /\ ~Exceeds(<<7, 10>>, usage),
                    "demand-outpacing-capacity", "INFO")

Analysis(waiting, fs, through, ceiling, g, sla) ==
    [backlog |-> waiting, forecast |-> fs, hasData |-> TRUE,
     alerts |-> Alerts(waiting, fs, through, Utilisation(through, ceiling), g, sla)]
AnalysisOf(days, waiting, g, ceiling, today, sla) ==
    Analysis(waiting, Forecasts(waiting, Inbound(days, today, g), ceiling),
             Throughput(days), ceiling, g, sla)
CapacityAnalysis(days, today, sla) ==
    IF days = <<>> THEN [backlog |-> 0, forecast |-> <<>>, alerts |-> {}, hasData |-> FALSE]
    ELSE AnalysisOf(days, days[Len(days)].backlog,
                    OrElse(Growth(Recent(days), Prior(days)), <<0, 1>>), Capacity(days),
                    today, sla)
=============================================================================
