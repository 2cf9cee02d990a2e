------------------------------ MODULE Bundles ------------------------------
(***************************************************************************)
(* Deriving the cost timelines of multi-packs from those of what they      *)
(* contain: app/engine/bundles.ts.                                         *)
(*                                                                         *)
(* An edge says how many of a component one bundle holds; a bundle has one *)
(* edge to a component at most.  Costs are whole units, as micros are.     *)
(*                                                                         *)
(* Abstractions.                                                           *)
(*  - The answers the walk remembers are left out: they save it from       *)
(*    visiting a bundle twice and change an answer only below MaxDepth     *)
(*    levels, where the first visit decides.                               *)
(*  - The list of problems is shown to the merchant and read by nothing.   *)
(***************************************************************************)
EXTENDS CostTimeline, FiniteSets

CONSTANTS MaxDepth   \* MAX_BUNDLE_DEPTH

(* What the parts of a pack come to.                                       *)
Together(amounts) == MapThenSumSet(LAMBDA e : amounts[e], DOMAIN amounts)

(* A bundle costs, at every instant from the one where its last component  *)
(* is first priced, the sum of its components; a version is emitted only   *)
(* where that sum changes.                                                 *)
CombineComponentTimelines(parts, timelineOf) ==
    LET breakpoints == UNION {Breakpoints(timelineOf[e]) : e \in parts}
        start    == Max({Min(Breakpoints(timelineOf[e])) : e \in parts})
        instants == {i \in breakpoints : i >= start}
        cost(i)  == Together([e \in parts |-> CostEffectiveAt(timelineOf[e], i) * e.quantity])
        changes(i) == i = start \/ cost(i) # cost(Max({j \in instants : j < i}))
    IN  [i \in Instants |->
            IF i \in instants /\ changes(i)
            THEN [cost |-> cost(i), source |-> "BUNDLE_ROLLUP"] ELSE None]

(* The timelines of all variants: a bundle's derived from its components,  *)
(* depth first; what is no bundle has its own.  Empty where a bundle       *)
(* contains itself, is nested too deep or has a component without a cost.  *)
ResolveBundleCostTimelines(edges, base) ==
    LET componentsOf(v) == {e \in edges : e.bundle = v}
        resolve[inside \in SUBSET DOMAIN base] ==
            [v \in DOMAIN base |->
               IF componentsOf(v) = {} THEN base[v]
               ELSE IF v \in inside \/ Cardinality(inside) > MaxDepth THEN Empty
               ELSE LET part == [e \in componentsOf(v) |->
                                    resolve[inside \cup {v}][e.component]]
                    IN  IF \E e \in componentsOf(v) : part[e] = Empty THEN Empty
                        ELSE CombineComponentTimelines(componentsOf(v), part)]
    IN  resolve[{}]
=============================================================================
