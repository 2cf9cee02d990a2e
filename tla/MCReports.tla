----------------------------- MODULE MCReports -----------------------------
(***************************************************************************)
(* Figures on small instances: four instants a day, months of five days, a *)
(* window of four days, the clocks going forward on the seventh day.       *)
(***************************************************************************)
EXTENDS Reports

CONSTANTS a, b, NoName

MCCheckpoints == <<0, 2, 4>>
MCPrices      == [starter |-> 49, growth |-> 149]
MCYearPrices  == [starter |-> 490, growth |-> 1490]
MCVat         == {"DE"}

-----------------------------------------------------------------------------
(* Rows.                                                                   *)
Line(p, n, back, price, cut, cost) ==
    [product |-> p, variant |-> p, quantity |-> n, refunded |-> back, price |-> price,
     discount |-> cut, cost |-> cost]
Plain == [customer |-> NoName, channel |-> "direct", campaign |-> NoName, first |-> FALSE,
          subtotal |-> 3000, discount |-> 0, shipCharged |-> 500, tax |-> 350, total |-> 3850,
          refunded |-> 0, fees |-> 0, lines |-> <<Line("cup", 1, 0, 3000, 0, 100000)>>]
Order(n, at, other) == (other @@ Plain) @@ [id |-> n, at |-> at]
Rule(kind, per, item, percent, monthly) ==
    [kind |-> kind, active |-> TRUE, perOrder |-> per, perItem |-> item, percent |-> percent,
     monthly |-> monthly]
Rules == <<Rule("PAYMENT_FEE", 30, 0, 29, 0), Rule("SHIPPING_DEFAULT", 700, 0, 0, 0),
           Rule("PICK_PACK", 100, 50, 0, 0), Rule("OVERHEAD_MONTHLY", 0, 0, 0, 1000)>>
Paid(day, ch, id, cents) == [day |-> day, channel |-> ch, campaign |-> id, cents |-> cents]
DayRow(day, came, went, left) ==
    [day |-> day, received |-> came, fulfilled |-> went, backlog |-> left, ceiling |-> 4]
Variant(id, price, cost, slope, fit) ==
    [id |-> id, product |-> id, price |-> price, cost |-> cost, slope |-> slope, fit |-> fit,
     history |-> <<[at |-> 6, price |-> price + 500], [at |-> 18, price |-> price]>>]
Empty == [orders |-> <<>>, parcels |-> <<>>, labels |-> <<>>, spend |-> <<>>, rules |-> Rules,
          days |-> <<>>, variants |-> {}]

(* A shop with two shoppers, one acquired earlier, spend on two channels,  *)
(* one parcel priced, one corrected and one coming back.                   *)
Shop(lines, refund, spend) ==
    [Empty EXCEPT
       !.orders = <<Order(1, 9, [customer |-> "ann", first |-> TRUE, channel |-> "meta",
                                 campaign |-> "m1"]),
                    Order(2, 17, [customer |-> "bob", channel |-> "meta"] @@ refund),
                    Order(3, 22, [customer |-> "ann", channel |-> "email", lines |-> lines]),
                    Order(4, 25, [channel |-> "google",
                                  lines |-> <<Line(NoName, 1, 0, 3000, 0, 100000)>>]),
                    Order(5, 30, [customer |-> "eve", first |-> TRUE, channel |-> "google",
                                  lines |-> lines] @@ refund)>>,
       !.parcels = <<[order |-> 1, shipping |-> 820, pickPack |-> 0],
                     [order |-> 2, shipping |-> 0, pickPack |-> 130]>>,
       !.labels = <<[order |-> 1, returned |-> FALSE, cents |-> -45],
                    [order |-> 2, returned |-> FALSE, cents |-> 600],
                    [order |-> 2, returned |-> TRUE, cents |-> 410]>>,
       !.spend = spend,
       !.days = [k \in 1..5 |-> DayRow(k + 1, 3 + k, 3, k)]]

Calm == [recomputes |-> 0, minutes |-> 0, failures |-> 0, decisions |-> 0]
Story(editions, asks, users, nows, budget) ==
    [editions |-> editions, asks |-> asks, users |-> users, nows |-> nows, length |-> 4,
     end |-> 40, sla |-> 1, customers |-> TRUE, allowed |-> budget, sheets |-> {}]

(* One page of many shops.                                                 *)
Baskets == {<<Line("cup", 1, 0, 3000, 0, 100000)>>,
            <<Line("cup", 2, 1, 1000, 300, 33333), Line("pot", 1, 0, 1001, 0, 0),
              Line(NoName, 1, 0, 500, 0, 1000)>>,
            <<Line("pot", 1, 1, 3000, 0, 50000), Line("cup", 1, 0, 50, 50, 90000)>>}
Refunds == {[refunded |-> 0], [refunded |-> 1100, fees |-> 200, discount |-> 150]}
Spends  == {<<>>, <<Paid(4, "meta", "m1", 100), Paid(5, "email", NoName, 101),
                    Paid(6, "google", "g1", 250), Paid(6, "tiktok", "t1", 70)>>,
            <<Paid(2, "meta", "m1", 333), Paid(7, "google", "g2", 1000)>>}
PageStories == {Story(<<Shop(lines, refund, spend)>>, {"dashboard"}, {a}, {31}, Calm) :
                    lines \in Baskets, refund \in Refunds, spend \in Spends}

(* Interleavings: a delivery and a recompute against two or three pages,   *)
(* of one window or of two, while a minute passes or a loader fails.       *)
Small(n) == [Empty EXCEPT !.orders = [i \in 1..n |->
                Order(i, 20 + i, [customer |-> "ann", first |-> i = 1])],
              !.days = <<DayRow(5, n, n, 0)>>]
Crowd == [Empty EXCEPT !.orders = [i \in 1..7 |-> Order(i, 20 + i, [channel |-> "meta"])]]
CacheStories == {
    Story(<<Small(1), Small(2)>>, {"dashboard"}, {a}, {31}, [Calm EXCEPT !.recomputes = 1]),
    Story(<<Small(1), Small(2)>>, {"page"}, {a, b}, {31}, [Calm EXCEPT !.recomputes = 1]),
    Story(<<Small(1), Small(2)>>, {"page", "badge"}, {a, b}, {31, 30}, Calm),
    Story(<<Small(2)>>, {"dashboard"}, {a, b}, {31, 30}, Calm),
    Story(<<Small(1)>>, {"dashboard", "badge"}, {a, b}, {31}, [Calm EXCEPT !.minutes = 1]),
    Story(<<Small(1)>>, {"page"}, {a, b}, {31, 30}, [Calm EXCEPT !.failures = 1, !.recomputes = 1]),
    Story(<<Small(2), Crowd>>, {"page"}, {a, b}, {31}, Calm) }

(* A sale, then one of two cups with a discount, one of which comes back   *)
(* and is paid back with its tax: the header is what Shopify makes of them.*)
Returned == [Empty EXCEPT !.orders = <<
    Order(1, 20, Plain),
    Order(2, 22, [lines |-> <<Line("cup", 2, 1, 1000, 200, 33300)>>, subtotal |-> 1800,
                  discount |-> 200, tax |-> 230, total |-> 2530, refunded |-> 990])>>]
MCReturns == {Story(<<Returned>>, {"dashboard"}, {a}, {31}, Calm)}

(* Prices suggested twice, and decided on meanwhile.                       *)
Priced == [Empty EXCEPT
    !.orders = <<Order(1, 17, [lines |-> <<Line("mug", 2, 0, 1600, 0, 86700)>>]),
                 Order(2, 21, [lines |-> <<Line("mug", 3, 1, 1100, 0, 86700)>>])>>,
    !.variants = {Variant("mug", 1100, 86700, -100, 80), Variant("pot", 120, 10000, -5, 90),
                  Variant("jar", 900, 95000, -15, 10)}]
Strategics == [Empty EXCEPT !.orders = <<
    Order(1, 17, [customer |-> "ann", first |-> TRUE,
                  lines |-> <<Line("pot", 1, 0, 100, 0, 500000)>>, subtotal |-> 100]),
    Order(2, 19, [customer |-> "bob", first |-> TRUE, lines |-> <<Line("jar", 1, 0, 3000, 0, 1)>>]),
    Order(3, 22, [customer |-> "ann", subtotal |-> 90000])>>,
    !.variants = {Variant("pot", 100, 50000, -25, 90), Variant("jar", 3000, 210000, -25, 90)}]
DeskStories == {
    Story(<<Priced>>, {"reprice"}, {a, b}, {31}, [Calm EXCEPT !.decisions = 2]),
    Story(<<Strategics>>, {"reprice"}, {a}, {31}, Calm) }

(* Sheets.                                                                 *)
TaxLine(title, rate, cents) == [title |-> title, rate |-> rate, liable |-> FALSE, cents |-> cents]
TaxOrder(cents, country, goods, ship, whole) ==
    [kind |-> "tax", tax |-> cents, country |-> country, goods |-> goods, shipping |-> ship,
     whole |-> whole]
Sub(status, plan, annual, ends) ==
    [status |-> status, plan |-> plan, annual |-> annual, trialEnds |-> ends]
Sheets == {
    TaxOrder(101, "US", <<TaxLine("state", 60, 60), TaxLine("county", 15, 20), TaxLine("state", 60, 13)>>,
             <<TaxLine("state", 60, 7)>>, <<>>),
    TaxOrder(-7, "DE", <<TaxLine("vat", 190, 3)>>, <<TaxLine("vat", 190, 3), TaxLine("gst", 0, 1)>>, <<>>),
    TaxOrder(50, "FR", <<>>, <<>>, <<TaxLine("gst", 50, 0), TaxLine("other", 0, 0)>>),
    TaxOrder(9, "FR", <<>>, <<>>, <<>>),
    [kind |-> "revenue", now |-> 10, window |-> 5,
     rows |-> <<Sub("active", "starter", FALSE, 0), Sub("active", "growth", TRUE, 4),
                Sub("accepted", "growth", FALSE, 12), Sub("cancelled", "starter", FALSE, 0),
                Sub("active", "unknown", FALSE, 0)>>,
     events |-> <<[at |-> 3, status |-> "active"], [at |-> 6, status |-> "cancelled"],
                  [at |-> 9, status |-> "accepted"]>>],
    [kind |-> "cash", rows |-> <<[gross |-> 100, fee |-> 15, net |-> 85, type |-> "sale"],
        [gross |-> -40, fee |-> -6, net |-> -34, type |-> "refund"],
        [gross |-> 60, fee |-> 9, net |-> 51, type |-> "sale"]>>] }
SheetStory == [Story(<<Empty>>, {}, {a}, {}, Calm) EXCEPT !.sheets = Sheets]

MCStories == PageStories \cup CacheStories \cup DeskStories \cup {SheetStory}
=============================================================================
