--------------------------- MODULE WebhookOutbox ---------------------------
(***************************************************************************)
(* The durable webhook outbox: app/lib/webhooks.server.ts, with what the   *)
(* processors of the privacy topics do to its table                        *)
(* (app/lib/webhook-processors.server.ts, customer-erasure.server.ts).     *)
(*                                                                         *)
(* Shopify sends a delivery one or more times.  A copy is claimed in the   *)
(* table before the 200 response; the process that claimed it runs the     *)
(* handler straight away (a direct run).  Each process also has one sweep, *)
(* which recovers the deliveries whose run died, stalled or failed.        *)
(*                                                                         *)
(* Abstractions.                                                           *)
(*  - A payload is present or null (`held`); what the minimised payload    *)
(*    contains, and the handlers' writes elsewhere, are other modules'.    *)
(*  - A lease token is the name of the run that drew it: a run draws a new *)
(*    one only when it has given up, or died with, the one before.         *)
(*  - Time: `due` says availableAt <= now, `live` that leaseExpiresAt is   *)
(*    in the future, `old` that payloadExpiresAt has passed.               *)
(*    `after` holds the rows whose availableAt is earlier: findFirst's     *)
(*    order, which keeps a poison delivery from starving the others.       *)
(***************************************************************************)
EXTENDS Naturals, FiniteSets

CONSTANTS
    Deliveries,    \* Shopify webhook ids
    TopicOf,       \* the topic of each delivery
    Poison,        \* deliveries whose handler always throws
    Processes,     \* server processes
    MaxCopies,     \* bound: how often Shopify sends a delivery
    Traffic,       \* bound: the sets of copies that Shopify may send
    BatchSize,     \* WEBHOOK_BATCH_SIZE
    MaxFaults,     \* bound: crashes, lost leases, failed writes and handlers
    None           \* no lease token, no delivery, no process

Topics == {"order", "ordinary", "access", "redact", "shop_redact"}

(* ORDERS_CREATE and ORDERS_UPDATED, the topics that expire.               *)
Expiring == {d \in Deliveries : TopicOf[d] = "order"}
(* The mandatory privacy topics.                                           *)
Compliance ==
    {d \in Deliveries : TopicOf[d] \in {"access", "redact", "shop_redact"}}

Runs   == Deliveries \cup Processes
Copies == Deliveries \X (1..MaxCopies)

ASSUME NamesAssumption == /\ Deliveries \cap Processes = {}
                          /\ None \notin Runs
ASSUME TopicAssumption == /\ TopicOf \in [Deliveries -> Topics]
                          /\ Poison \in SUBSET Deliveries
ASSUME BoundsAssumption == /\ MaxCopies \in Nat /\ MaxFaults \in Nat
                           /\ BatchSize \in Nat \ {0}

VARIABLES
    shop,     \* the Shop row exists
    copy,     \* the HTTP requests: program counter
    event,    \* the WebhookEvent table, by webhook id
    run,      \* the handler runs: direct ones and sweeps
    handled,  \* history: how often a delivery's handler has returned (0..2)
    faults    \* faults spent so far (bound)

vars == <<shop, copy, event, run, handled, faults>>

(* One row of the table.  `taker` and `closer` are history fields: the run *)
(* that leased the row last, and the run that marked it processed.         *)
Event == [status : {"none", "pending", "processed", "deleted"},
          held   : BOOLEAN,
          token  : Runs \cup {None},
          live   : BOOLEAN,
          due    : BOOLEAN,
          after  : SUBSET Deliveries,
          old    : BOOLEAN,
          taker  : Runs \cup {None},
          closer : Runs \cup {None}]

RunPC == {"idle", "sweep", "lease", "run", "mark", "fail"}
Active == {"run", "mark", "fail"}
Run == [pc : RunPC, job : Deliveries \cup {None},
        home : Processes \cup {None}, done : 0..BatchSize]

CopyPC == {"never", "unsent", "claim", "acknowledged", "refused"}

TypeOK == /\ shop    \in BOOLEAN
          /\ copy    \in [Copies -> CopyPC]
          /\ event   \in [Deliveries -> Event]
          /\ run     \in [Runs -> Run]
          /\ handled \in [Deliveries -> 0..2]
          /\ faults  \in Nat

Blank(status) == [status |-> status, held |-> FALSE, token |-> None,
                  live |-> FALSE, due |-> FALSE, after |-> {},
                  old |-> FALSE, taker |-> None, closer |-> None]
NoRun == [pc |-> "idle", job |-> None, home |-> None, done |-> 0]

Init == /\ shop    = TRUE
        /\ \E sent \in Traffic :
              copy = [c \in Copies |-> IF c \in sent THEN "unsent" ELSE "never"]
        /\ event   = [d \in Deliveries |-> Blank("none")]
        /\ run     = [x \in Runs |-> NoRun]
        /\ handled = [d \in Deliveries |-> 0]
        /\ faults  = 0

-----------------------------------------------------------------------------
(* Receiving                                                               *)

(* The rows that are available now, all of them earlier than a new one.    *)
Available == {d \in Deliveries : event[d].status = "pending" /\ event[d].due}

(* claimWebhook looks the shop up.  A delivery for an unknown or redacted  *)
(* shop is answered 200 and not recorded.                                  *)
Receive(c) ==
    /\ copy[c] = "unsent"
    /\ copy' = [copy EXCEPT ![c] = IF shop THEN "claim" ELSE "acknowledged"]
    /\ UNCHANGED <<shop, event, run, handled, faults>>

(* claimWebhook inserts the row, leased; the response is 200 and the       *)
(* handler runs in process p.                                              *)
ClaimFresh(c, p) ==
    LET d == c[1] IN
    /\ copy[c] = "claim"
    /\ shop
    /\ event[d].status = "none"
    /\ event' = [event EXCEPT ![d] =
                   [Blank("pending") EXCEPT !.held = TRUE, !.token = d,
                       !.live = TRUE, !.due = TRUE, !.after = Available,
                       !.taker = d]]
    /\ run' = [run EXCEPT ![d] =
                 [pc |-> "run", job |-> d, home |-> p, done |-> 0]]
    /\ copy' = [copy EXCEPT ![c] = "acknowledged"]
    /\ UNCHANGED <<shop, handled, faults>>

(* The unique webhook id shows a replay, which starts nothing.             *)
ClaimReplay(c) ==
    /\ copy[c] = "claim"
    /\ event[c[1]].status \in {"pending", "processed"}
    /\ copy' = [copy EXCEPT ![c] = "acknowledged"]
    /\ UNCHANGED <<shop, event, run, handled, faults>>

(* The shop went after it was looked up: the foreign key refuses the row,  *)
(* the error escapes and Shopify gets no 200.                              *)
ClaimOrphan(c) ==
    /\ copy[c] = "claim"
    /\ ~shop
    /\ copy' = [copy EXCEPT ![c] = "refused"]
    /\ UNCHANGED <<shop, event, run, handled, faults>>

-----------------------------------------------------------------------------
(* Running a handler (runHandler)                                          *)

Fault == faults < MaxFaults /\ faults' = faults + 1

(* Mutant of Fenced: the token is left out of the where-clause.            *)
FencedById(x) == {d \in Deliveries : /\ d = run[x].job
                                     /\ event[d].status = "pending"}

(* The rows that `where: { webhookId, leaseToken, processedAt: null }`     *)
(* matches for run x.                                                      *)
Fenced(x) == {d \in Deliveries : /\ d = run[x].job
                                 /\ event[d].status = "pending"
                                 /\ event[d].token = x}

(* Mutant of Superseded: a settled delivery keeps its payload.             *)
SupersededHeld(d) == [event[d] EXCEPT !.status = "processed", !.token = None,
                                      !.live = FALSE, !.after = {}]

(* What a processor does to the outbox itself.  customers/redact closes    *)
(* the shopper's pending access requests and other redactions              *)
(* (redactCustomerEverywhere); shop/redact deletes the shop and, by        *)
(* cascade, every row.  The others leave the table alone.                  *)
Superseded(d) == [event[d] EXCEPT !.status = "processed", !.held = FALSE,
                                  !.token = None, !.live = FALSE,
                                  !.after = {}]
Effect(job) ==
    CASE TopicOf[job] = "redact" ->
           /\ event' = [d \in Deliveries |->
                IF /\ d # job
                   /\ TopicOf[d] \in {"access", "redact"}
                   /\ event[d].status = "pending"
                THEN Superseded(d) ELSE event[d]]
           /\ UNCHANGED shop
      [] TopicOf[job] = "shop_redact" ->
           /\ event' = [d \in Deliveries |->
                IF event[d].status = "none" THEN event[d] ELSE Blank("deleted")]
           /\ shop' = FALSE
      [] OTHER -> UNCHANGED <<event, shop>>

(* Processors of a shop that is gone return without doing anything.        *)
HandlerReturns(x) ==
    /\ run[x].pc = "run"
    /\ run[x].job \notin Poison
    /\ IF shop THEN Effect(run[x].job) ELSE UNCHANGED <<event, shop>>
    /\ handled' = [handled EXCEPT ![run[x].job] = IF @ = 2 THEN 2 ELSE @ + 1]
    /\ run' = [run EXCEPT ![x].pc = "mark"]
    /\ UNCHANGED <<copy, faults>>

(* A poison delivery throws every time; any other, as a fault.             *)
HandlerThrows(x) ==
    /\ run[x].pc = "run"
    /\ IF run[x].job \in Poison THEN UNCHANGED faults ELSE Fault
    /\ run' = [run EXCEPT ![x].pc = "fail"]
    /\ UNCHANGED <<shop, copy, event, handled>>

(* A finished run: a direct one is over, a sweep goes on.                  *)
Finished(x) == IF x \in Processes
               THEN [NoRun EXCEPT !.pc = "sweep", !.done = run[x].done]
               ELSE NoRun

(* markWebhookSucceeded.                                                   *)
MarkSucceeded(x) ==
    /\ run[x].pc = "mark"
    /\ event' = [d \in Deliveries |->
                   IF d \in Fenced(x)
                   THEN [Superseded(d) EXCEPT !.closer = x] ELSE event[d]]
    /\ run' = [run EXCEPT ![x] = Finished(x)]
    /\ UNCHANGED <<shop, copy, handled, faults>>

(* markWebhookFailed: retry after a backoff.                               *)
MarkFailed(x) ==
    /\ run[x].pc = "fail"
    /\ event' = [d \in Deliveries |->
                   IF d \in Fenced(x)
                   THEN [event[d] EXCEPT !.due = FALSE, !.token = None,
                                         !.live = FALSE, !.after = {}]
                   ELSE [event[d] EXCEPT !.after = @ \ Fenced(x)]]
    /\ run' = [run EXCEPT ![x] = Finished(x)]
    /\ UNCHANGED <<shop, copy, handled, faults>>

(* A success that cannot be recorded is recorded as a failure; a failure   *)
(* that cannot be recorded is left to the lease.                           *)
MarkSucceededThrows(x) ==
    /\ Fault
    /\ run[x].pc = "mark"
    /\ run' = [run EXCEPT ![x].pc = "fail"]
    /\ UNCHANGED <<shop, copy, event, handled>>

MarkFailedThrows(x) ==
    /\ Fault
    /\ run[x].pc = "fail"
    /\ run' = [run EXCEPT ![x] = Finished(x)]
    /\ UNCHANGED <<shop, copy, event, handled>>

Heartbeat(x) ==
    /\ run[x].pc \in Active
    /\ \E d \in Fenced(x) : /\ ~event[d].live
                            /\ event' = [event EXCEPT ![d].live = TRUE]
    /\ UNCHANGED <<shop, copy, run, handled, faults>>

-----------------------------------------------------------------------------
(* Sweeping (drainWebhookQueue)                                            *)

(* Mutant of Expired: privacy topics expire too.                           *)
ExpiredAnyTopic(d) == /\ event[d].status = "pending"
                      /\ event[d].held
                      /\ event[d].old
                      /\ ~event[d].live

(* expireWebhookRecoveryPayloads: order payloads past their deadline whose *)
(* lease is free are given up.                                             *)
Expired(d) == /\ event[d].status = "pending"
              /\ event[d].held
              /\ event[d].old
              /\ d \in Expiring
              /\ ~event[d].live

(* drainWebhookQueue starts with the expiry.                               *)
BeginSweep(p) ==
    /\ run[p].pc = "idle"
    /\ event' = [d \in Deliveries |-> IF Expired(d) THEN Superseded(d)
                                                    ELSE event[d]]
    /\ run' = [run EXCEPT ![p] = [NoRun EXCEPT !.pc = "sweep"]]
    /\ UNCHANGED <<shop, copy, handled, faults>>

(* Mutant of Due: a leased row is due too.                                 *)
DueLeased(d) == event[d].status = "pending" /\ event[d].due

(* The where-clause of the compare-and-set; of the candidate query, which  *)
(* also asks for a payload; and its order.                                 *)
Due(d) == event[d].status = "pending" /\ event[d].due /\ ~event[d].live
Claimable(d) == Due(d) /\ event[d].held
(* Mutant of First: no orderBy.                                            *)
FirstAny(d) == Claimable(d)
First(d) == Claimable(d) /\ \A e \in event[d].after : ~Claimable(e)

(* leaseNextWebhook, first call.                                           *)
SelectCandidate(p, d) ==
    /\ run[p].pc = "sweep"
    /\ run[p].done < BatchSize
    /\ First(d)
    /\ run' = [run EXCEPT ![p].pc = "lease", ![p].job = d]
    /\ UNCHANGED <<shop, copy, event, handled, faults>>

(* leaseNextWebhook, the compare-and-set; a lost race goes round the loop. *)
TryLease(p) ==
    LET d == run[p].job IN
    /\ run[p].pc = "lease"
    /\ \/ /\ Due(d)
          /\ event' = [event EXCEPT ![d].token = p, ![d].live = TRUE,
                                    ![d].taker = p]
          /\ run' = [run EXCEPT ![p].pc = "run", ![p].home = p,
                                ![p].done = @ + 1]
       \/ /\ ~Due(d)
          /\ run' = [run EXCEPT ![p].pc = "sweep", ![p].job = None]
          /\ UNCHANGED event
    /\ UNCHANGED <<shop, copy, handled, faults>>

(* The sweep ends with nothing to lease, or a full batch.                  *)
EndSweep(p) ==
    /\ run[p].pc = "sweep"
    /\ \/ run[p].done = BatchSize
       \/ \A d \in Deliveries : ~Claimable(d)
    /\ run' = [run EXCEPT ![p] = NoRun]
    /\ UNCHANGED <<shop, copy, event, handled, faults>>

Handle(x) == \/ HandlerReturns(x) \/ HandlerThrows(x)
             \/ MarkSucceeded(x) \/ MarkFailed(x)
Sweep(p) == \/ BeginSweep(p) \/ EndSweep(p) \/ TryLease(p)
            \/ \E d \in Deliveries : SelectCandidate(p, d)

-----------------------------------------------------------------------------
(* Time and faults                                                         *)

Owned(d) == \E x \in Runs : run[x].pc \in Active /\ d \in Fenced(x)

(* Nobody extends the lease of a dead run: it runs out.                    *)
LeaseExpires(d) ==
    /\ event[d].live
    /\ ~Owned(d)
    /\ event' = [event EXCEPT ![d].live = FALSE]
    /\ UNCHANGED <<shop, copy, run, handled, faults>>

(* The heartbeats of a living run fail for a whole lease.                  *)
LeaseLapses(d) ==
    /\ Fault
    /\ event[d].live
    /\ Owned(d)
    /\ event' = [event EXCEPT ![d].live = FALSE]
    /\ UNCHANGED <<shop, copy, run, handled>>

BackoffElapses(d) ==
    /\ event[d].status = "pending"
    /\ ~event[d].due
    /\ event' = [event EXCEPT ![d].due = TRUE, ![d].after = Available]
    /\ UNCHANGED <<shop, copy, run, handled, faults>>

(* Seven days pass.                                                        *)
PayloadAges(d) ==
    /\ event[d].status = "pending"
    /\ ~event[d].old
    /\ event' = [event EXCEPT ![d].old = TRUE]
    /\ UNCHANGED <<shop, copy, run, handled, faults>>

(* The database cannot store a claim: no 200, Shopify will send it again.  *)
ClaimThrows(c) ==
    /\ Fault
    /\ copy[c] = "claim"
    /\ copy' = [copy EXCEPT ![c] = "refused"]
    /\ UNCHANGED <<shop, event, run, handled>>

(* The process dies: its direct runs and its sweep are gone.               *)
Crash(p) ==
    /\ Fault
    /\ \E x \in Runs : run[x].home = p
    /\ run' = [x \in Runs |-> IF run[x].home = p \/ x = p THEN NoRun
                                                          ELSE run[x]]
    /\ UNCHANGED <<shop, copy, event, handled>>

-----------------------------------------------------------------------------
Next == \/ \E c \in Copies : \/ Receive(c) \/ ClaimReplay(c) \/ ClaimOrphan(c)
                             \/ ClaimThrows(c)
                             \/ \E p \in Processes : ClaimFresh(c, p)
        \/ \E x \in Runs : \/ Handle(x) \/ Heartbeat(x)
                           \/ MarkSucceededThrows(x) \/ MarkFailedThrows(x)
        \/ \E p \in Processes : Sweep(p) \/ Crash(p)
        \/ \E d \in Deliveries : \/ LeaseExpires(d) \/ LeaseLapses(d)
                                 \/ BackoffElapses(d) \/ PayloadAges(d)

Spec == Init /\ [][Next]_vars

(* Handlers settle, every process polls its sweep for ever, clocks advance.*)
(* Nothing is assumed of Shopify or of faults.                             *)
Fairness == /\ \A x \in Runs : WF_vars(Handle(x))
            /\ \A p \in Processes : WF_vars(Sweep(p))
            /\ \A d \in Deliveries : /\ WF_vars(LeaseExpires(d))
                                     /\ WF_vars(BackoffElapses(d))

FairSpec == Spec /\ Fairness

-----------------------------------------------------------------------------
(* Properties                                                              *)

Sent(d) == {i \in 1..MaxCopies : copy[<<d, i>>] = "acknowledged"}

(* "no copy of the webhook payload survives success", nor an expiry or an  *)
(* erasure (markWebhookSucceeded and the other writers of processedAt).    *)
PayloadOnlyWhilePending ==
    \A d \in Deliveries : event[d].held <=> event[d].status = "pending"

(* "age can never discharge a legal action"                                *)
(* (expireWebhookRecoveryPayloads): a privacy delivery is closed by its    *)
(* own handler, or superseded by a redaction that was handled.             *)
ComplianceNeverLapses ==
    \A d \in Compliance :
        event[d].status = "processed" =>
            \/ event[d].closer # None
            \/ \E e \in Deliveries : TopicOf[e] = "redact" /\ handled[e] > 0

(* As long as nothing fails, a delivery is handled once however often      *)
(* Shopify sends it and however many processes sweep the table.            *)
HealthyDeliveryHandledOnce ==
    faults = 0 => \A d \in Deliveries : handled[d] <= 1

(* Every acknowledged delivery is eventually handled, unless its handler   *)
(* can only throw, or it is overtaken by expiry or erasure.                *)
AcknowledgedIsHandled ==
    \A d \in Deliveries \ Poison :
        Sent(d) # {} ~> \/ handled[d] > 0
                        \/ event[d].status = "processed"
                        \/ ~shop

(* The outbox implements the durable-work pattern.                         *)
PhaseOf(status) == CASE status = "none"      -> "absent"
                     [] status = "pending"   -> "open"
                     [] status = "processed" -> "closed"
                     [] status = "deleted"   -> "gone"
LeaseItem == [d \in Deliveries |-> [phase  |-> PhaseOf(event[d].status),
                                    holder |-> event[d].taker,
                                    closer |-> event[d].closer]]
Lease == INSTANCE FencedLease WITH
    Items <- Deliveries, Takers <- Runs, NoOne <- None, item <- LeaseItem
ImplementsFencedLease == Lease!LSpec
=============================================================================
