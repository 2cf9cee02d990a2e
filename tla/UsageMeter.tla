----------------------------- MODULE UsageMeter -----------------------------
(***************************************************************************)
(* Usage metering and the charging of soft overage:                        *)
(* app/lib/usage-meter.server.ts, called by processOrdersWebhook           *)
(* (app/lib/webhook-processors.server.ts).                                 *)
(*                                                                         *)
(* Every delivery of an order counts the order in the month's meter, then  *)
(* may charge one batch of overage: it reads the meter, asks Shopify how   *)
(* much of the subscription's cap is left, creates a usage record under an *)
(* idempotency key and moves billedUnits if nobody else has.  The four     *)
(* steps are separate requests, and deliveries run side by side.           *)
(*                                                                         *)
(* Abstractions.                                                           *)
(*  - One shop, one metric, one month; the meter exists and the shop stays *)
(*    installed.                                                           *)
(*  - Money is counted in units of OVERAGE_UNIT_PRICE ($0.05).  Counted(n) *)
(*    is Math.floor(n * 0.05 / 0.05) in binary floating point: n, but one  *)
(*    less for a few n (43, 81, 86 and 91 below the batch of 100).         *)
(*  - recordOrderUsage is one transaction with a row lock and a unique     *)
(*    source id, hence one step; its retries are inside it.                *)
(***************************************************************************)
EXTENDS Naturals, FiniteSets

CONSTANTS
    Orders,      \* orders of the month
    Deliveries,  \* webhook deliveries that describe an order
    OrderOf,     \* the order a delivery describes
    SoftLimit,   \* MeterPolicy.softLimit
    HardLimit,   \* MeterPolicy.hardLimit
    Batch,       \* USAGE_CHARGE_BATCH_UNITS
    Cap,         \* USAGE_CAP_AMOUNT, in units
    Slips,       \* amounts whose dollars divide back to one unit less
    MaxFaults    \* bound: crashes, failed requests and late answers

(* $50 is a whole number of $5 batches, and a whole batch does not slip.   *)
ASSUME OrdersAssumption == /\ IsFiniteSet(Orders)
                           /\ OrderOf \in [Deliveries -> Orders]
ASSUME LimitsAssumption == /\ SoftLimit \in Nat /\ HardLimit \in Nat
                           /\ SoftLimit < HardLimit
                           /\ MaxFaults \in Nat
ASSUME BatchAssumption == /\ Batch \in Nat /\ Batch > 1
                          /\ Cap \in Nat /\ Cap % Batch = 0
                          /\ Slips \subseteq 1..(Batch - 1)

VARIABLES
    used,     \* UsageMeter.used
    billed,   \* UsageMeter.billedUnits
    warned,   \* UsageMeter.capWarningNotifiedAt is set
    status,   \* UsageMeter.status
    counted,  \* the UsageMeterEvent rows: orders already counted
    balance,  \* Shopify: AppUsagePricing.balanceUsed, all that is charged
    keys,     \* Shopify: the idempotency keys of its usage records
    call,     \* the deliveries' handlers
    faults    \* faults spent so far (bound)

meter     == <<used, billed, warned, status, counted>>
shopify   == <<balance, keys>>
meterVars == <<used, billed, warned, status, counted, balance, keys, call,
               faults>>

Statuses == {"under_limit", "soft_overage", "cap_reached"}

(* A handler: its step, the billedUnits it read, the units it asks for,    *)
(* and, once it has seen the cap, the price and the units it will count.   *)
PC == {"unsent", "read", "query", "charge", "claim", "done"}
Call == [pc : PC, billed : Nat, units : 0..Batch, counts : 0..Batch]

MeterTypeOK ==
    /\ used \in Nat /\ billed \in Nat /\ warned \in BOOLEAN
    /\ status \in Statuses
    /\ counted \subseteq Orders
    /\ balance \in 0..Cap /\ keys \subseteq Nat
    /\ call \in [Deliveries -> Call]
    /\ faults \in Nat

Handling(pc) == [pc |-> pc, billed |-> 0, units |-> 0, counts |-> 0]

MeterInit ==
    /\ used = 0 /\ billed = 0 /\ warned = FALSE
    /\ status = "under_limit"
    /\ counted = {}
    /\ balance = 0 /\ keys = {}
    /\ call = [d \in Deliveries |-> Handling("unsent")]
    /\ faults = 0

-----------------------------------------------------------------------------
(* usageMeterStatus.                                                       *)
StatusAt(n) == CASE n >= HardLimit -> "cap_reached"
                 [] n < HardLimit /\ n > SoftLimit -> "soft_overage"
                 [] OTHER -> "under_limit"

(* Math.floor(chargeAmount / OVERAGE_UNIT_PRICE).                          *)
Counted(n) == IF n \in Slips THEN n - 1 ELSE n

Smaller(m, n) == IF m < n THEN m ELSE n

Overage == IF used > SoftLimit THEN used - SoftLimit ELSE 0

(* pendingUnits, at least zero.                                            *)
Pending == IF Overage > billed THEN Overage - billed ELSE 0

(* Whether a delivery goes on to charge: the status it got, not the new    *)
(* one of the order it has just counted.                                   *)
GoesOn(d) == call' = [call EXCEPT ![d] =
                        Handling(IF status \in {"soft_overage", "cap_reached"}
                                 THEN "read" ELSE "done")]

(* Mutant of CountOrder: no unique source id.                              *)
CountAlways(d) ==
    /\ call[d].pc = "unsent"
    /\ counted' = counted \cup {OrderOf[d]}
    /\ used' = used + 1
    /\ status' = StatusAt(used')
    /\ warned' = (warned \/ used' >= HardLimit)
    /\ GoesOn(d)
    /\ UNCHANGED <<billed, shopify, faults>>

(* recordOrderUsage counts an order it has not seen.  The row it returns   *)
(* is that of the increment, before the status is written.                 *)
CountOrder(d) ==
    /\ call[d].pc = "unsent"
    /\ OrderOf[d] \notin counted
    /\ counted' = counted \cup {OrderOf[d]}
    /\ used' = used + 1
    /\ status' = StatusAt(used')
    /\ warned' = (warned \/ used' >= HardLimit)
    /\ GoesOn(d)
    /\ UNCHANGED <<billed, shopify, faults>>

(* The unique source id shows a replay, or the order's other topic.        *)
CountReplay(d) ==
    /\ call[d].pc = "unsent"
    /\ OrderOf[d] \in counted
    /\ GoesOn(d)
    /\ UNCHANGED <<meter, shopify, faults>>

-----------------------------------------------------------------------------
(* billSoftOrderOverage                                                    *)

(* The units to charge: a whole batch, or what is left after a warning.    *)
Chargeable == IF Pending < Batch /\ ~warned THEN 0
              ELSE Smaller(Pending, Batch)

ReadMeter(d) ==
    /\ call[d].pc = "read"
    /\ call' = [call EXCEPT ![d] =
                  IF Chargeable = 0 THEN Handling("done")
                  ELSE [pc |-> "query", billed |-> billed,
                        units |-> Chargeable, counts |-> 0]]
    /\ UNCHANGED <<meter, shopify, faults>>

(* The subscription's usage line shows how much of the cap is left.        *)
Price(d) == Smaller(call[d].units, Cap - balance)

QueryCap(d) ==
    /\ call[d].pc = "query"
    /\ Counted(Price(d)) > 0
    /\ call' = [call EXCEPT ![d] = [pc |-> "charge", billed |-> @.billed,
                                    units |-> Price(d),
                                    counts |-> Counted(Price(d))]]
    /\ UNCHANGED <<meter, shopify, faults>>

(* Nothing is left: the meter says so, and nothing is charged.             *)
QueryCapReached(d) ==
    /\ call[d].pc = "query"
    /\ Counted(Price(d)) = 0
    /\ status' = "cap_reached"
    /\ call' = [call EXCEPT ![d] = Handling("done")]
    /\ UNCHANGED <<used, billed, warned, counted, shopify, faults>>

(* A legacy subscription has no usage line, which is recorded, or the      *)
(* query fails, which is dropped: nothing is charged.                      *)
QueryNoLine(d) ==
    /\ call[d].pc = "query"
    /\ faults < MaxFaults /\ faults' = faults + 1
    /\ call' = [call EXCEPT ![d] = Handling("done")]
    /\ UNCHANGED <<meter, shopify>>

(* Mutant of Key: the orders counted so far, which another order moves.    *)
KeyOfUsed(d) == used

(* idempotencyKey: the billedUnits this charge is to lead to.              *)
Key(d) == call[d].billed + call[d].counts

(* appUsageRecordCreate.  Shopify creates a record under a new key, unless *)
(* it exceeds the cap, and answers a known key with the record it has.     *)
Known(d) == Key(d) \in keys
Accepts(d) == Known(d) \/ balance + call[d].units <= Cap
Create(d) == /\ keys' = keys \cup {Key(d)}
             /\ balance' = balance + call[d].units

Charge(d) ==
    /\ call[d].pc = "charge"
    /\ Accepts(d)
    /\ IF Known(d) THEN UNCHANGED shopify ELSE Create(d)
    /\ call' = [call EXCEPT ![d] = [@ EXCEPT !.pc = "claim"]]
    /\ UNCHANGED <<meter, faults>>

(* userErrors: the error escapes, and the webhook processor drops it.      *)
ChargeRefused(d) ==
    /\ call[d].pc = "charge"
    /\ ~Accepts(d)
    /\ call' = [call EXCEPT ![d] = Handling("done")]
    /\ UNCHANGED <<meter, shopify, faults>>

(* The request reaches Shopify but the answer does not come back, or the   *)
(* request itself is lost.  The error is dropped.                          *)
ChargeLost(d) ==
    /\ call[d].pc = "charge"
    /\ faults < MaxFaults /\ faults' = faults + 1
    /\ \/ Accepts(d) /\ ~Known(d) /\ Create(d)
       \/ UNCHANGED shopify
    /\ call' = [call EXCEPT ![d] = Handling("done")]
    /\ UNCHANGED meter

(* Mutant of Claims: no comparison.                                        *)
ClaimsAlways(d) == TRUE

(* billedUnits moves only from the value that was read.                    *)
Claims(d) == billed = call[d].billed

ClaimBilled(d) ==
    /\ call[d].pc = "claim"
    /\ billed' = IF Claims(d) THEN billed + call[d].counts ELSE billed
    /\ call' = [call EXCEPT ![d] = Handling("done")]
    /\ UNCHANGED <<used, warned, status, counted, shopify, faults>>

-----------------------------------------------------------------------------
(* The process dies, or an earlier request of the handler fails: the       *)
(* outbox runs the delivery again from the start.                          *)
Crash(d) ==
    /\ call[d].pc \in PC \ {"unsent", "done"}
    /\ faults < MaxFaults /\ faults' = faults + 1
    /\ call' = [call EXCEPT ![d] = Handling("unsent")]
    /\ UNCHANGED <<meter, shopify>>

(* APP_SUBSCRIPTIONS_APPROACHING_CAPPED_AMOUNT: Shopify says that 90% of   *)
(* the cap, all but one of the ten batches, is used.                       *)
ApproachingCap ==
    /\ balance + Batch >= Cap
    /\ ~warned
    /\ warned' = TRUE
    /\ status' = "cap_reached"
    /\ UNCHANGED <<used, billed, counted, shopify, call, faults>>

Handle(d) == \/ CountOrder(d) \/ CountReplay(d)
             \/ ReadMeter(d)
             \/ QueryCap(d) \/ QueryCapReached(d) \/ QueryNoLine(d)
             \/ Charge(d) \/ ChargeRefused(d) \/ ChargeLost(d)
             \/ ClaimBilled(d)
             \/ Crash(d)

MeterNext == ApproachingCap \/ \E d \in Deliveries : Handle(d)

MeterSpec == MeterInit /\ [][MeterNext]_meterVars

-----------------------------------------------------------------------------
(* Properties                                                              *)

(* Until the cap warning the charges are exact, whatever runs side by side *)
(* and whatever fails: Shopify holds what billedUnits says, or one batch   *)
(* more while a claim is due or was lost, and never more than there are    *)
(* distinct orders above the soft limit (billSoftOrderOverage).            *)
ChargesAreExactBeforeWarning ==
    ~warned => /\ balance \in {billed, billed + Batch}
               /\ balance <= Cardinality(counted) - SoftLimit \/ balance = 0

(* billedUnits never says that units are charged which Shopify does not    *)
(* hold, also when partial charges reuse each other's keys.                *)
BilledIsCharged == billed <= balance

(* When nothing failed and no handler is running, the books agree with     *)
(* Shopify's: of the handlers that charged one batch under one key, one    *)
(* has claimed it (billSoftOrderOverage).                                  *)
HealthyBooksAgree ==
    (/\ faults = 0 /\ ~warned
     /\ \A d \in Deliveries : call[d].pc \in {"unsent", "done"})
    => billed = balance

(* The comment on billSoftOrderOverage calls the mutation idempotent: no   *)
(* more units are charged than there are orders above the soft limit.      *)
NeverOvercharged == balance <= Overage
=============================================================================
