----------------------------- MODULE MCAccount -----------------------------
(***************************************************************************)
(* A shop's account on small instances: stories of a few disturbances.     *)
(***************************************************************************)
EXTENDS PlanGate, TLC

CONSTANTS r1, r2

Calm == [converts |-> 0, grants |-> 0, uninstalls |-> 0, reinstalls |-> 0,
         redacts |-> 0, losses |-> 0, breaks |-> 0, orders |-> 0, charges |-> 0,
         fails |-> 0]
Known(type) == [exists |-> TRUE, gone |-> FALSE, type |-> type, reports |-> FALSE,
                sync |-> "COMPLETE", carrier |-> "DISCONNECTED", told |-> "stored"]
Of(isDev, active, known, users, asks, budget) ==
    [store |-> [installed |-> TRUE, dev |-> isDev, reports |-> FALSE,
                charges |-> active, asked |-> {}],
     shop |-> known, users |-> users, asks |-> asks, allowed |-> budget]
Charge(key, trial) == [name |-> key, test |-> trial]
One == {r1}
Two == {r1, r2}

(* In turn: a first installation and a charge, converted meanwhile, then   *)
(* one by two requests; a development store converted on its old test      *)
(* charge, then with a new charge under way; an  *)
(* upgrade, one charge by a name that has drifted and events lost;         *)
(* uninstalled and installed again, deliveries late or broken off, then    *)
(* by two requests at once, then erased, then twice in a row; permissions  *)
(* that come and go.                                                       *)
MCStories == {
    Of(TRUE, {}, NoShop, One, {"growth"}, [Calm EXCEPT !.charges = 1, !.converts = 1]),
    Of(TRUE, {}, NoShop, Two, {}, [Calm EXCEPT !.grants = 1]),
    Of(TRUE, {Charge("annual", TRUE)}, Known("dev"), Two, {},
       [Calm EXCEPT !.converts = 1, !.fails = 1]),
    Of(TRUE, {Charge("starter", TRUE)}, Known("dev"), Two, {"growth"},
       [Calm EXCEPT !.converts = 1, !.charges = 1]),
    Of(FALSE, {Charge("starter", FALSE), Charge("drifted", FALSE)}, Known("paid"), One,
       {"annual"}, [Calm EXCEPT !.charges = 1, !.losses = 1, !.fails = 1]),
    Of(FALSE, {Charge("growth", FALSE)}, Known("paid"), One, {"starter"},
       [Calm EXCEPT !.uninstalls = 1, !.reinstalls = 1, !.charges = 1]),
    Of(FALSE, {Charge("growth", FALSE)}, Known("paid"), One, {},
       [Calm EXCEPT !.uninstalls = 1, !.reinstalls = 1, !.breaks = 1, !.orders = 1]),
    Of(FALSE, {Charge("growth", FALSE)}, Known("paid"), Two, {},
       [Calm EXCEPT !.uninstalls = 1, !.reinstalls = 1]),
    Of(FALSE, {Charge("growth", FALSE)}, Known("paid"), One, {},
       [Calm EXCEPT !.uninstalls = 1, !.reinstalls = 1, !.redacts = 1]),
    Of(FALSE, {Charge("growth", FALSE)}, Known("paid"), One, {},
       [Calm EXCEPT !.uninstalls = 2, !.reinstalls = 2]),
    Of(FALSE, {Charge("growth", FALSE)}, Known("paid"), One, {},
       [Calm EXCEPT !.grants = 2, !.breaks = 1]) }
=============================================================================
