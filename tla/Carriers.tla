------------------------------ MODULE Carriers ------------------------------
(***************************************************************************)
(* What carriers charge for the labels of one order:                       *)
(* app/integrations/shipping.server.ts, the webhook that hurries it        *)
(* (app/routes/webhooks.shipstation.tsx) and the corrections of carrier    *)
(* invoices (app/lib/shipping-adjustments.server.ts).                      *)
(*                                                                         *)
(* Two connectors see the labels of a shop.  A reader is a sweep, a        *)
(* webhook or a fulfilment delivery that has claimed one connector's lease *)
(* and reconciles it; readers of different connectors do not exclude each  *)
(* other, and the writes are not fenced.                                   *)
(*                                                                         *)
(* Abstractions.                                                           *)
(*  - One order; a label's reference names it or nothing.  Paging and the  *)
(*    overlap of windows are left out: a fetch has every label.            *)
(*  - Fulfilments are numbered in the order of their creation; Items gives *)
(*    the item count of each.                                              *)
(***************************************************************************)
EXTENDS Shares, FiniteSetsExt

CONSTANTS
    Sources,      \* the connectors; the first of equals is FirstSource
    FirstSource,  \* SHIPSTATION
    Labels,       \* label ids of a source
    Readers,      \* reconciliations that may run
    NoReader,
    Parcels,      \* fulfilments: 1..n
    Items,        \* the item count of each
    Bills,        \* lines of carrier invoices
    NoLabel

(* enum ShippingCostSource has SHIPSTATION and one other.                  *)
ASSUME CarriersAssumption ==
    /\ FirstSource \in Sources /\ NoReader \notin Readers
    /\ \A s, t \in Sources \ {FirstSource} : s = t
    /\ IsFiniteSet(Labels)
    /\ IsFiniteSet(Parcels) /\ Parcels = 1..Cardinality(Parcels)
    /\ Items \in [Parcels -> Nat]

VARIABLES
    chance,   \* what may still happen (bounds)
    label,    \* what the providers have: cents, count, at, names, void, foreign
    obs,      \* ShippingCostObservation rows: a label and a status
    known,    \* the order is stored
    parcels,  \* its active fulfilments
    cost,     \* Fulfillment.shippingCost
    holder,   \* the lease of each connector
    reader,   \* the readers
    clean,    \* ghost: the costs were written from what was then stored
    hooks,    \* listeners at ShipStation
    hook,     \* Connector.webhookId: 0, or the listener known
    booked    \* ShippingLabelAdjustment rows

carrierVars == <<chance, label, obs, known, parcels, cost, holder, reader,
                 clean, hooks, hook, booked>>

Label  == [cents : Nat, count : Nat, at : Nat, names : BOOLEAN,
           void : BOOLEAN, foreign : BOOLEAN]
States == {"UNMATCHED", "VOIDED", "CURRENCY_MISMATCH", "MATCHED", "CONFLICT"}
NoRow  == [of |-> NoLabel, status |-> "UNMATCHED", order |-> FALSE]
Resting == [pc |-> "idle", source |-> FirstSource, known |-> FALSE, left |-> {},
            took |-> [l \in Labels |-> NoLabel], hit |-> FALSE,
            rows |-> {}, fills |-> {}, fresh |-> FALSE]

CarrierTypeOK ==
    /\ label \in [Sources -> [Labels -> Label \cup {NoLabel}]]
    /\ obs \in [Sources -> [Labels -> [of : Label \cup {NoLabel},
                                       status : States, order : BOOLEAN]]]
    /\ known \in BOOLEAN /\ clean \in BOOLEAN
    /\ parcels \subseteq Parcels /\ cost \in [Parcels -> Int]
    /\ holder \in [Sources -> Readers \cup {NoReader}]
    /\ \A r \in Readers : reader[r].pc \in {"idle", "held", "match", "store",
                                            "settle", "write", "end"}
    /\ hooks \in Nat /\ hook \in 0..hooks /\ booked \subseteq Bills

CarriersInit(first, stored, active) ==
    /\ label = first
    /\ obs = [s \in Sources |-> [l \in Labels |-> NoRow]]
    /\ known = stored /\ parcels = active
    /\ cost = [f \in Parcels |-> 0]
    /\ holder = [s \in Sources |-> NoReader]
    /\ reader = [r \in Readers |-> Resting]
    /\ clean = TRUE
    /\ hooks = 0 /\ hook = 0 /\ booked = {}

Chance(what) == chance[what] > 0
Took(what) == chance' = [chance EXCEPT ![what] = @ - 1]

-----------------------------------------------------------------------------
(* selectCarrierTotal                                                      *)

(* Rows are <<source, label id>> with their labels.                        *)
Cents(x)  == x.of.cents
Count(x)  == x.of.count
TotalOf(rows, s)  == LET Mine == {x \in rows : x.source = s} IN
    [source |-> s, cents |-> MapThenSumSet(Cents, Mine),
     labels |-> MapThenSumSet(Count, Mine),
     newest |-> IF Mine = {} THEN 0
                ELSE CHOOSE t \in {x.of.at : x \in Mine} :
                       \A x \in Mine : x.of.at <= t]

(* Mutant of Chosen: what the carriers say is added up.                    *)
ChosenAll(rows) ==
    [source |-> FirstSource, cents |-> MapThenSumSet(Cents, rows), conflict |-> FALSE]

(* Sources that see the same labels are never added up: the one with more  *)
(* labels counts, then the newer, then ShipStation.                        *)
Chosen(rows) ==
    LET totals == {TotalOf(rows, s) : s \in {x.source : x \in rows}}
        Beats(a, b) == \/ a.labels > b.labels
                       \/ a.labels = b.labels /\ a.newest > b.newest
                       \/ a.labels = b.labels /\ a.newest = b.newest
                          /\ (a.source = FirstSource \/ a = b)
        best == CHOOSE a \in totals : \A b \in totals : Beats(a, b)
    IN  [source |-> best.source, cents |-> best.cents,
         conflict |-> \E t \in totals : t.cents # best.cents]

-----------------------------------------------------------------------------
(* reconcileCarrierConnector under withConnectorWork                       *)

Reads(r, from, changes) ==
    /\ reader[r].pc = from
    /\ reader' = [reader EXCEPT ![r] = changes]
Now(r, pc) == [reader[r] EXCEPT !.pc = pc]

(* A sweep, a listener's call or a delivery; a lease that is held turns it *)
(* away for good.                                                          *)
Claim(r, s) ==
    /\ holder[s] = NoReader
    /\ Reads(r, "idle", [Resting EXCEPT !.pc = "held", !.source = s])
    /\ holder' = [holder EXCEPT ![s] = r]
    /\ UNCHANGED <<chance, label, obs, known, parcels, cost, clean, hooks, hook,
                   booked>>

(* fetchShipStationCosts, fetchShopifyShippingCosts.                       *)
FetchCosts(r) ==
    LET took == label[reader[r].source]
        some == {l \in Labels : took[l] # NoLabel}
    IN  /\ Reads(r, "held", [Now(r, IF some = {} THEN "end" ELSE "match")
                               EXCEPT !.took = took, !.left = some])
        /\ UNCHANGED <<chance, label, obs, known, parcels, cost, holder, clean,
                       hooks, hook, booked>>

(* The orders are read once for all labels.                                *)
ReadOrders(r) ==
    /\ Reads(r, "match", [Now(r, "store") EXCEPT !.known = known])
    /\ UNCHANGED <<chance, label, obs, known, parcels, cost, holder, clean,
                   hooks, hook, booked>>

(* matchOrderReference.                                                    *)
Matches(r, l) == reader[r].known /\ l.names

(* What a label counts for.                                                *)
StatusOf(r, l) == CASE l.void                       -> "VOIDED"
                    [] ~l.void /\ ~Matches(r, l)    -> "UNMATCHED"
                    [] ~l.void /\ Matches(r, l) /\ l.foreign -> "CURRENCY_MISMATCH"
                    [] OTHER                        -> "MATCHED"

(* Other readers that have read the rows or parcels have stale copies.     *)
Outdates(r) == [q \in Readers |-> IF q # r THEN [reader[q] EXCEPT !.fresh = FALSE]
                                           ELSE reader[q]]

(* Mutant of Affects: a label that no longer counts affects nothing.       *)
AffectsMatched(r, l) == StatusOf(r, l) = "MATCHED"

(* Any label that names the order has it settled again.                    *)
Affects(r, l) == Matches(r, l)

(* One label is stored after the other.                                    *)
StoreObservation(r) ==
    /\ reader[r].pc = "store" /\ reader[r].left # {}
    /\ LET s  == reader[r].source
           id == CHOOSE l \in reader[r].left : TRUE
           l  == reader[r].took[id]
       IN  /\ obs' = [obs EXCEPT ![s][id] = [of |-> l, status |-> StatusOf(r, l),
                                             order |-> Matches(r, l)]]
           /\ reader' = [Outdates(r) EXCEPT ![r].left = @ \ {id},
                                            ![r].hit = @ \/ Affects(r, l)]
    /\ UNCHANGED <<chance, label, known, parcels, cost, holder, clean, hooks,
                   hook, booked>>

Matched == {[source |-> s, id |-> l, of |-> obs[s][l].of] :
              s \in Sources, l \in Labels}
MatchedRows == {x \in Matched : /\ obs[x.source][x.id].status = "MATCHED"
                                /\ obs[x.source][x.id].order}

(* The order's rows and its active fulfilments are read.  An order with    *)
(* nothing to carry the cost has its rows set aside.                       *)
ReadOrderRows(r) ==
    /\ reader[r].pc = "store" /\ reader[r].left = {}
    /\ IF ~reader[r].hit
       THEN Reads(r, "store", Now(r, "end")) /\ UNCHANGED obs
       ELSE IF parcels = {}
       THEN /\ obs' = [s \in Sources |-> [l \in Labels |->
                         IF obs[s][l].status = "MATCHED" /\ obs[s][l].order
                         THEN [obs[s][l] EXCEPT !.status = "UNMATCHED"]
                         ELSE obs[s][l]]]
            /\ reader' = [Outdates(r) EXCEPT ![r].pc = "end"]
       ELSE /\ Reads(r, "store", [Now(r, "settle") EXCEPT !.rows = MatchedRows,
                                    !.fills = parcels, !.fresh = TRUE])
            /\ UNCHANGED obs
    /\ UNCHANGED <<chance, label, known, parcels, cost, holder, clean, hooks,
                   hook, booked>>

(* The rows of a source that says otherwise are set aside first.           *)
SetAsideConflicts(r) ==
    LET best == Chosen(reader[r].rows)
    IN  /\ reader[r].pc = "settle"
        /\ IF reader[r].rows # {} /\ best.conflict
           THEN /\ obs' = [s \in Sources |-> [l \in Labels |->
                     IF /\ s # best.source /\ obs[s][l].status = "MATCHED"
                        /\ obs[s][l].order
                     THEN [obs[s][l] EXCEPT !.status = "CONFLICT"]
                     ELSE obs[s][l]]]
                /\ reader' = [Outdates(r) EXCEPT ![r].pc = "write"]
           ELSE Reads(r, "settle", Now(r, "write")) /\ UNCHANGED obs
        /\ UNCHANGED <<chance, label, known, parcels, cost, holder, clean, hooks,
                       hook, booked>>

(* The chosen total by item count.  No row: the parcels cost nothing.      *)
WriteShares(r) ==
    LET i == reader[r]
        place(f) == Cardinality({e \in i.fills : e <= f})
        parts == Allocated(Chosen(i.rows).cents,
                           [j \in 1..Cardinality(i.fills) |->
                              Items[CHOOSE f \in i.fills : place(f) = j]])
    IN  /\ Reads(r, "write", Now(r, "end"))
        /\ cost' = [f \in Parcels |->
                      IF f \notin i.fills THEN cost[f]
                      ELSE IF i.rows = {} THEN 0
                      ELSE parts[place(f)]]
        /\ clean' = i.fresh
        /\ UNCHANGED <<chance, label, obs, known, parcels, holder, hooks, hook,
                       booked>>

(* lastSyncedAt is stamped and the lease given back.                       *)
Release(r) ==
    /\ Reads(r, "end", Resting)
    /\ holder' = [holder EXCEPT ![reader[r].source] = IF @ = r THEN NoReader ELSE @]
    /\ UNCHANGED <<chance, label, obs, known, parcels, cost, clean, hooks, hook,
                   booked>>

(* The provider fails, or the process dies; a dead one's lease runs out.   *)
Fails(r) ==
    /\ reader[r].pc # "idle" /\ Chance("failures") /\ Took("failures")
    /\ reader' = [reader EXCEPT ![r] = Resting]
    /\ holder' = [holder EXCEPT ![reader[r].source] = NoReader]
    /\ clean' = (clean /\ reader[r].pc = "held")
    /\ UNCHANGED <<label, obs, known, parcels, cost, hooks, hook, booked>>

-----------------------------------------------------------------------------
(* The providers, the order and its fulfilments                            *)

Void(s, l) ==
    /\ label[s][l] # NoLabel /\ ~label[s][l].void
    /\ Chance("voids") /\ Took("voids")
    /\ label' = [label EXCEPT ![s][l].void = TRUE]
    /\ UNCHANGED <<obs, known, parcels, cost, holder, reader, clean, hooks, hook,
                   booked>>

OrderArrives ==
    /\ ~known /\ known' = TRUE
    /\ UNCHANGED <<chance, label, obs, parcels, cost, holder, reader, clean,
                   hooks, hook, booked>>

(* A fulfilment delivery adds or cancels a parcel, then claims the leases  *)
(* as any reader does.                                                     *)
ParcelChanges(f) ==
    /\ known /\ Chance("parcels") /\ Took("parcels")
    /\ parcels' = IF f \in parcels THEN parcels \ {f} ELSE parcels \cup {f}
    /\ reader' = [q \in Readers |-> [reader[q] EXCEPT !.fresh = FALSE]]
    /\ clean' = FALSE
    /\ UNCHANGED <<label, obs, known, cost, holder, hooks, hook, booked>>

-----------------------------------------------------------------------------
(* ensureShipStationWebhook: an existing listener is looked up and updated *)
(* or, if it is gone, made anew.  A list that fails is taken for an empty  *)
(* one; a process that dies before the row is written leaves a listener.   *)
EnsureShipStationWebhook ==
    /\ Chance("hooks") /\ Took("hooks")
    /\ \E listed, saved \in BOOLEAN :
         LET found == IF hook # 0 THEN hook
                      ELSE IF listed /\ hooks > 0 THEN 1 ELSE 0
             make  == found = 0
         IN  /\ hooks' = IF make THEN hooks + 1 ELSE hooks
             /\ hook' = IF saved THEN IF make THEN hooks' ELSE found ELSE hook
    /\ UNCHANGED <<label, obs, known, parcels, cost, holder, reader, clean, booked>>

(* recordShippingAdjustments: each line of a batch by itself; one that is  *)
(* booked already or names no order is passed over; a batch may break off. *)
RecordShippingAdjustments ==
    /\ known /\ Chance("bills") /\ Took("bills")
    /\ \E lines \in SUBSET Bills : booked' = booked \cup lines
    /\ UNCHANGED <<label, obs, known, parcels, cost, holder, reader, clean,
                   hooks, hook>>

ReaderStep(r) == \/ FetchCosts(r) \/ ReadOrders(r) \/ StoreObservation(r)
                 \/ ReadOrderRows(r) \/ SetAsideConflicts(r) \/ WriteShares(r)
                 \/ Release(r)

CarriersNext ==
    \/ \E r \in Readers : ReaderStep(r) \/ Fails(r)
                          \/ \E s \in Sources : Claim(r, s)
    \/ \E s \in Sources, l \in Labels : Void(s, l)
    \/ OrderArrives \/ EnsureShipStationWebhook \/ RecordShippingAdjustments
    \/ \E f \in Parcels : ParcelChanges(f)

-----------------------------------------------------------------------------
CostOf(fills) == SumOf([f \in Parcels |-> IF f \in fills THEN cost[f] ELSE 0])

(* When no reader is at work and none has written from a stale read, the   *)
(* parcels of the order carry, to the cent, the total of one source, which *)
(* sees no fewer labels than the other, and nothing once all labels are    *)
(* void: the same labels seen twice are not paid twice.                    *)
CarrierCostIsChosen ==
    (clean /\ known /\ parcels # {} /\ \A r \in Readers : reader[r].pc = "idle") =>
        IF MatchedRows = {} THEN CostOf(parcels) = 0
        ELSE \E s \in Sources :
               /\ CostOf(parcels) = TotalOf(MatchedRows, s).cents
               /\ \A t \in Sources : TotalOf(MatchedRows, t).labels
                                     <= TotalOf(MatchedRows, s).labels
=============================================================================
