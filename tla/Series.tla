------------------------------- MODULE Series -------------------------------
(***************************************************************************)
(* The charts beside the headline (app/lib/series.ts) and the owner's own  *)
(* figures (app/lib/revenue.ts, app/lib/cash.ts).                          *)
(***************************************************************************)
EXTENDS Profit

CONSTANTS LongSeries, WeekDays, PriceOf, YearPriceOf

-----------------------------------------------------------------------------
(* The window is walked from midday to midday of the merchant's zone, so   *)
(* that a change of the clocks neither skips a day nor repeats one.        *)
Midday(day) == LET naive == day * Ticks + Ticks \div 2
                   once  == naive - Offset(naive)
               IN  naive - Offset(once)
(* Mutant of SeriesDays: strides of a day's length from the first instant. *)
SeriesDaysStride(range) ==
    {DayOf(t) : t \in {u \in range.from..range.to : (u - range.from) % Ticks = 0}}
SeriesDays(range) ==
    LET bound == range.to - range.from + 1
        walk[n \in 0..bound] == IF n = 0 THEN Midday(DayOf(range.from))
                                ELSE Midday(DayOf(walk[n - 1] + Ticks))
    IN  {d \in {DayOf(walk[n]) : n \in 0..bound} : d <= DayOf(range.to)}

OfDay(profits, days, F(_)) ==
    SumWhere(profits, LAMBDA p : DayOf(p.at) \in days, F)
Point(profits, days) ==
    [netRevenue   |-> OfDay(profits, days, LAMBDA p : p.netRevenue),
     net          |-> OfDay(profits, days, LAMBDA p : p.contribution - p.overhead),
     contribution |-> OfDay(profits, days, LAMBDA p : p.contribution),
     ad           |-> OfDay(profits, days, LAMBDA p : p.ad),
     orders       |-> OfDay(profits, days, LAMBDA p : 1)]
DailySeries(profits, range) ==
    LET days == SeriesDays(range)
        day(k) == CHOOSE d \in days : Cardinality({e \in days : e <= d}) = k
    IN  [k \in 1..Cardinality(days) |-> Point(profits, {day(k)})]

(* A long series is drawn by weeks.                                        *)
AddPoints(points, from, to) ==
    LET Over(F(_)) == SumOf([k \in 1..(to - from + 1) |-> F(points[from + k - 1])])
    IN  [netRevenue |-> Over(LAMBDA p : p.netRevenue), net |-> Over(LAMBDA p : p.net),
         contribution |-> Over(LAMBDA p : p.contribution), ad |-> Over(LAMBDA p : p.ad),
         orders |-> Over(LAMBDA p : p.orders)]
BucketWeekly(points) ==
    IF Len(points) <= LongSeries THEN points
    ELSE [w \in 1..((Len(points) + WeekDays - 1) \div WeekDays) |->
            AddPoints(points, (w - 1) * WeekDays + 1, Least(w * WeekDays, Len(points)))]

-----------------------------------------------------------------------------
(* Subscriptions: one still on trial counts as a subscriber of the future. *)
Live(status) == status \in {"active", "accepted"}
Over(status) == status \in {"cancelled", "expired", "declined", "frozen"}
MonthlyCents(row) == IF row.annual THEN Rounded(YearPriceOf[row.plan] * 100, 12)
                     ELSE PriceOf[row.plan] * 100
Earning(row, now) == Live(row.status) /\ row.plan \in DOMAIN PriceOf /\ row.trialEnds <= now
Revenue(rows, now) ==
    LET monthly(P(_)) == SumWhere(rows, LAMBDA x : Earning(x, now) /\ P(x), MonthlyCents)
        mrr == monthly(LAMBDA x : TRUE)
    IN  [mrr |-> mrr, arr |-> 12 * mrr,
         active   |-> SumWhere(rows, LAMBDA x : Earning(x, now), LAMBDA x : 1),
         trialing |-> SumWhere(rows, LAMBDA x : /\ Live(x.status) /\ x.plan \in DOMAIN PriceOf
                                                /\ x.trialEnds > now, LAMBDA x : 1),
         byPlan |-> [p \in DOMAIN PriceOf |-> monthly(LAMBDA x : x.plan = p)]]
Movement(events, active, window, now) ==
    LET recent(e) == e.at >= now - window
        ended == SumWhere(events, LAMBDA e : recent(e) /\ Over(e.status), LAMBDA e : 1)
    IN  [started |-> SumWhere(events, LAMBDA e : recent(e) /\ Live(e.status), LAMBDA e : 1),
         ended |-> ended,
         churn |-> IF active + ended > 0 THEN {Rounded(1000 * ended, active + ended)} ELSE {}]

Cash(rows) ==
    [count |-> Len(rows), gross |-> Total(rows, LAMBDA x : x.gross),
     fee |-> Total(rows, LAMBDA x : x.fee), net |-> Total(rows, LAMBDA x : x.net),
     byType |-> [t \in {rows[i].type : i \in DOMAIN rows} |->
        [count |-> SumWhere(rows, LAMBDA x : x.type = t, LAMBDA x : 1),
         net   |-> SumWhere(rows, LAMBDA x : x.type = t, LAMBDA x : x.net)]]]
=============================================================================
