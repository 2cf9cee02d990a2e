------------------------------ MODULE TaxSplit ------------------------------
(***************************************************************************)
(* The tax of an order by jurisdiction: splitOrderTax of app/engine/tax.ts.*)
(* A tax line has a title, a rate in thousandths (0: none), whether the    *)
(* channel owes it and an amount; titles stand for their classes.          *)
(***************************************************************************)
EXTENDS Shares

CONSTANTS VatCountries, HomeCountry

(* What a title says, where the country does not decide.                   *)
Regime(title, country) ==
    IF country \in VatCountries \/ title = "vat" THEN "EU_VAT"
    ELSE IF title = "gst" THEN "GST"
    ELSE IF country = HomeCountry \/ title = "sales" THEN "US_SALES_TAX"
    ELSE "OTHER"
Jurisdiction(title, country) ==
    CASE Regime(title, country) = "EU_VAT"       -> "VAT"
      [] Regime(title, country) = "GST"          -> "NATIONAL"
      [] Regime(title, country) = "US_SALES_TAX" ->
           IF title \in {"county", "city", "district"} THEN title ELSE "state"
      [] OTHER -> "OTHER"

KeyOf(line) == <<line.title, line.rate, line.liable>>
(* Lines of one key are one group, with a part for goods and for shipping. *)
GroupCents(lines, key) ==
    SumOf([i \in DOMAIN lines |-> IF KeyOf(lines[i]) = key THEN lines[i].cents ELSE 0])
KeysOf(lines) == {KeyOf(lines[i]) : i \in DOMAIN lines}
RoundRatio(n, d) == SignOf(n) * ((Magnitude(n) + d \div 2) \div d)

Both(goods, shipping, key) == <<GroupCents(goods, key), GroupCents(shipping, key)>>

(* The parts always add up to the tax that Shopify states.  Without a line *)
(* to go by, the lines of the order are taken, and else it is unallocated. *)
Unallocated(order) ==
    IF order.tax = 0 THEN <<>>
    ELSE <<[regime |-> "UNALLOCATED", place |-> "UNALLOCATED", tax |-> order.tax,
            goods |-> order.tax, shipping |-> 0, rounding |-> order.tax, base |-> 0]>>
Share(key, country, reported, tax, halves) ==
    [regime |-> Regime(key[1], country), place |-> Jurisdiction(key[1], country),
     tax |-> tax, goods |-> halves[1], shipping |-> halves[2], rounding |-> tax - reported,
     base |-> IF key[2] > 0 THEN RoundRatio(1000 * tax, key[2]) ELSE 0]
Split(order, keys, groups, parts) ==
    [i \in DOMAIN keys |-> Share(keys[i], order.country, SumOf(groups[i]), parts[i],
                                 Allocated(parts[i], groups[i]))]
SplitBy(order, keys, groups) ==
    Split(order, keys, groups, Allocated(order.tax, [i \in DOMAIN keys |-> SumOf(groups[i])]))
SplitAmong(order, goods, keys) ==
    SplitBy(order, keys, [i \in DOMAIN keys |-> Both(goods, order.shipping, keys[i])])
InSomeOrder(S) ==
    CHOOSE s \in [1..Cardinality(S) -> S] : \A i, j \in DOMAIN s : i # j => s[i] # s[j]
SplitOrderTax(order) ==
    LET stated == KeysOf(order.goods) \cup KeysOf(order.shipping)
    IN  IF stated # {} THEN SplitAmong(order, order.goods, InSomeOrder(stated))
        ELSE IF KeysOf(order.whole) # {}
        THEN SplitAmong(order, order.whole, InSomeOrder(KeysOf(order.whole)))
        ELSE Unallocated(order)
=============================================================================
