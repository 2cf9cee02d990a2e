---------------------------- MODULE MCConnectors ----------------------------
(***************************************************************************)
(* Connectors on small instances: stories of one or two disturbances each. *)
(***************************************************************************)
EXTENDS Connectors, TLC

CONSTANTS c1, c2, p1, p2, s1, s2, shipstation, shopify, l1, l2, r1, r2

MCItems == [f \in 1..2 |-> IF f = 1 THEN 2 ELSE 1]

None   == [revokes |-> 0, expiries |-> 0, stores |-> 0, deaths |-> 0,
           outages |-> 0, restates |-> 0, others |-> 0, flushes |-> 0,
           crashes |-> 0, dues |-> 0]
Never  == [failures |-> 0, voids |-> 0, parcels |-> 0, hooks |-> 0, bills |-> 0]

Ad(refreshes, spare, first, budget) ==
    [part |-> "ads", allowed |-> budget, chance |-> Never, cred |-> c1,
     standby |-> spare, google |-> refreshes, expiry |-> "later",
     today |-> first,
     labels |-> [s \in Sources |-> [l \in Labels |-> NoLabel]], known |-> FALSE,
     parcels |-> {}]

L(cents, count, at, names, foreign) ==
    [cents |-> cents, count |-> count, at |-> at, names |-> names,
     void |-> FALSE, foreign |-> foreign]
Carrier(ours, theirs, stored, active, luck) ==
    [Ad(FALSE, NoCred, 3, None) EXCEPT !.part = "carriers", !.chance = luck,
       !.labels = (shipstation :> ours) @@ (shopify :> theirs),
       !.known = stored, !.parcels = active]
Two(a, b) == (l1 :> a) @@ (l2 :> b)
Luck == [Never EXCEPT !.voids = 1, !.failures = 1]

MCStories == {
    Ad(FALSE, NoCred, 3, [None EXCEPT !.dues = 1, !.revokes = 1]),
    Ad(FALSE, c2, 3, [None EXCEPT !.dues = 1, !.revokes = 1]),
    Ad(TRUE, NoCred, 3, [None EXCEPT !.dues = 1, !.expiries = 1, !.outages = 1]),
    [Ad(TRUE, NoCred, 3, [None EXCEPT !.dues = 1, !.stores = 1])
       EXCEPT !.expiry = "none"],
    Ad(FALSE, NoCred, 3, [None EXCEPT !.dues = 1, !.deaths = 1, !.outages = 1]),
    Ad(FALSE, NoCred, 2, [None EXCEPT !.restates = 1, !.flushes = 1]),
    [Ad(FALSE, c2, 3, [None EXCEPT !.dues = 1, !.outages = 3, !.stores = 1])
       EXCEPT !.part = "health"],
    [Ad(TRUE, c2, 3, [None EXCEPT !.dues = 1, !.expiries = 1, !.outages = 2,
                                  !.revokes = 1]) EXCEPT !.part = "health"],
    Ad(FALSE, NoCred, 2, [None EXCEPT !.restates = 1, !.crashes = 1]),
    Ad(FALSE, NoCred, 2, [None EXCEPT !.restates = 1, !.others = 1]),
    Carrier(Two(L(5, 1, 1, TRUE, FALSE), L(3, 1, 2, TRUE, FALSE)),
            Two(L(7, 1, 2, TRUE, FALSE), NoLabel), TRUE, {1}, Luck),
    Carrier(Two(L(5, 1, 1, TRUE, FALSE), NoLabel),
            Two(L(5, 1, 1, TRUE, FALSE), NoLabel), FALSE, {1, 2},
            [Never EXCEPT !.parcels = 1, !.voids = 1]),
    Carrier(Two(L(5, 1, 1, TRUE, TRUE), L(4, 1, 1, FALSE, FALSE)),
            Two(L(7, 2, 1, TRUE, FALSE), NoLabel), TRUE, {},
            [Never EXCEPT !.parcels = 1, !.hooks = 2, !.bills = 1]) }
=============================================================================
