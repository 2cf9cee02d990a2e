---------------------------- MODULE MCCostBook ----------------------------
(* Instances of CostBook for TLC: a single, a pack of it, a case of packs. *)
EXTENDS CostBook, TLC

CONSTANTS single, pack, case

Nested   == {<<pack, single>>, <<case, pack>>}
Circular == Nested \cup {<<pack, case>>}

Allow(tick, change, import, save, map, crash, overlap) ==
    [k \in Causes |-> CASE k = "tick"    -> tick
                        [] k = "change"  -> change
                        [] k = "import"  -> import
                        [] k = "save"    -> save
                        [] k = "map"     -> map
                        [] k = "crash"   -> crash
                        [] k = "overlap" -> overlap]

(* A cost is saved on any variant for any time, with a crash and the clock,*)
(* with an edit in Shopify, with a mapping changed; edits in Shopify and a *)
(* re-import while mappings change; mappings removed, proposed, confirmed  *)
(* and drawn in a circle, or changed with a crash; a rollup taken while    *)
(* another runs, and one after both.                                       *)
Alternatives ==
    {Allow(1, 0, 0, 1, 0, 1, 0), Allow(0, 1, 0, 1, 0, 0, 0), Allow(0, 0, 0, 1, 1, 0, 0),
     Allow(1, 1, 1, 0, 1, 0, 0), Allow(0, 0, 0, 0, 3, 0, 0), Allow(0, 0, 0, 0, 2, 1, 0),
     Allow(0, 0, 0, 0, 2, 0, 1)}

Symmetry == Permutations(Workers)
=============================================================================
