---------------------------- MODULE CostTimeline ----------------------------
(***************************************************************************)
(* A variant's cost over time: app/engine/cost-history.ts.                 *)
(*                                                                         *)
(* A timeline is a function from the instants to the version that became   *)
(* effective there, None where there is none: VariantCost is unique on     *)
(* (variantId, effectiveAt), so of two versions of an instant only the     *)
(* later write exists.  A version carries its cost and its source.         *)
(***************************************************************************)
EXTENDS Integers, FiniteSetsExt

CONSTANTS
    LastInstant,   \* instants are 0, the opening basis, to LastInstant
    None           \* no version, no cost, never

Instants == 0..LastInstant

ASSUME InstantsAssumption == LastInstant \in Nat \ {0}

Version  == [cost : Nat, source : {"SHOPIFY", "MANUAL", "BUNDLE_ROLLUP"}]
Timeline == [Instants -> Version \cup {None}]

ASSUME NoneAssumption == None \notin Version /\ None \notin Nat

Empty == [i \in Instants |-> None]

Breakpoints(timeline) == {i \in Instants : timeline[i] # None}

(* The cost in effect at an instant: that of the last version at or before *)
(* it.  None is not zero: the timeline had not started.                    *)
CostEffectiveAt(timeline, at) ==
    LET past == {i \in Breakpoints(timeline) : i <= at}
    IN  IF past = {} THEN None ELSE timeline[Max(past)].cost

(* Mutant of CostDivergenceFrom: the latest of them.                       *)
CostDivergenceLast(before, after) ==
    LET differing == {i \in Breakpoints(before) \cup Breakpoints(after) :
                        CostEffectiveAt(before, i) # CostEffectiveAt(after, i)}
    IN  IF differing = {} THEN None ELSE Max(differing)

(* The earliest instant at which two timelines disagree.  Both change      *)
(* value at a breakpoint only, so those are the instants compared.         *)
CostDivergenceFrom(before, after) ==
    LET differing == {i \in Breakpoints(before) \cup Breakpoints(after) :
                        CostEffectiveAt(before, i) # CostEffectiveAt(after, i)}
    IN  IF differing = {} THEN None ELSE Min(differing)

Earlier(a, b) == IF a = None THEN b ELSE IF b = None THEN a ELSE Min({a, b})
=============================================================================
