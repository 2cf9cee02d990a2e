------------------------------- MODULE Shares -------------------------------
(***************************************************************************)
(* Splitting cents by weight so that the parts sum to the whole:           *)
(* allocateTaxCents of app/engine/tax.ts and allocate of app/engine/money. *)
(*                                                                         *)
(* Both floor the exact shares and hand the pennies that are left to the   *)
(* largest fractions, the earlier part first.  Amounts are of either sign  *)
(* and are split by their absolute value.                                  *)
(***************************************************************************)
EXTENDS Integers, Sequences, FiniteSets

Magnitude(n) == IF n < 0 THEN -n ELSE n
SignOf(n)    == IF n < 0 THEN -1 ELSE 1

(* Sum of f over 1..Len(f): a fold of our own, for sequences of numbers.   *)
SumOf(f) == LET upTo[n \in 0..Len(f)] == IF n = 0 THEN 0 ELSE upTo[n - 1] + f[n]
            IN  upTo[Len(f)]

(* Weights that say nothing count alike.                                   *)
Weighted(weights) ==
    LET kept == [i \in DOMAIN weights |-> IF weights[i] < 0 THEN 0 ELSE weights[i]]
    IN  IF SumOf(kept) = 0 THEN [i \in DOMAIN weights |-> 1] ELSE kept

(* The part of each weight, by the largest remainder.                      *)
Portions(total, w, all) ==
    LET due(i)   == Magnitude(total) * w[i]
        rest     == Magnitude(total) - SumOf([i \in DOMAIN w |-> due(i) \div all])
        ahead(i) == {j \in DOMAIN w : \/ due(j) % all > due(i) % all
                                      \/ due(j) % all = due(i) % all /\ j < i}
    IN  [i \in DOMAIN w |->
           SignOf(total) * (due(i) \div all
                            + IF Cardinality(ahead(i)) < rest THEN 1 ELSE 0)]
Shared(total, w) == Portions(total, w, SumOf(w))
Allocated(total, weights) == Shared(total, Weighted(weights))
=============================================================================
