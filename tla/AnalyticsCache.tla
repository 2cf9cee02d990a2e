--------------------------- MODULE AnalyticsCache ---------------------------
(***************************************************************************)
(* The figures of a page and the two caches in front of them:              *)
(* app/data/analytics.server.ts, lib/analytics-admission.server.ts and     *)
(* lib/route-data.server.ts, in one process.                               *)
(*                                                                         *)
(* Stored rows change by editions: a delivery writes the next edition and  *)
(* then invalidates.  A recompute stores per-order profit and stamps the   *)
(* shop.  A value remembers of which edition each loader read.             *)
(***************************************************************************)
EXTENDS Channels, Ledger, Series, Warehouse, Pricing

CONSTANTS Requests, Stories, LookBack, CacheBudget, PeriodLimit

(* A story starts with rows, a sheet is no page, and a variant has a cost. *)
ASSUME StoriesAssumption ==
    \A s \in Stories :
        /\ Len(s.editions) \in Nat \ {0} /\ DOMAIN s.editions = 1..Len(s.editions)
        /\ \A sheet \in s.sheets : sheet.kind \notin s.asks
        /\ \A e \in DOMAIN s.editions : \A v \in s.editions[e].variants :
              /\ {"id", "price", "cost", "slope"} \subseteq DOMAIN v
              /\ v.cost \in Nat /\ v.price \in Int /\ v.slope \in Int

VARIABLES db,         \* the edition of the stored rows
          made,       \* the edition the stored profit was computed from
          stamp,      \* lastComputedAt of the shop
          owed,       \* is an invalidation of a write still to come?
          generation, retained, tail,
          mark,       \* db and made at the last invalidation or stamp
          request, allowed, scene
cacheVars == <<db, made, stamp, owed, generation, retained, tail, mark>>

Books(e) == scene.editions[e]
Spend(name) == allowed[name] > 0 /\ allowed' = [allowed EXCEPT ![name] = @ - 1]

-----------------------------------------------------------------------------
(* resolveRange: the last days before now.  The window before it, of the   *)
(* same length, ends an instant earlier.                                   *)
ResolveRange(days, now) == [from |-> now - days * Ticks, to |-> now]
PreviousRange(range) == [from |-> 2 * range.from - range.to, to |-> range.from - 1]

PeriodOf(range, read) ==
    PeriodProfit(EngineOrders(Books(read.orders), range), AdSpendRows(Books(read.spend), range),
                 CostRules(Books(read.rules).rules), range)
(* Per-order profit as the last recompute stored it.                       *)
StoredProfit(orders, p) ==
    [i \in DOMAIN orders |-> orders[i] @@ [contribution |-> p.orders[i].contribution,
                                           ad |-> p.orders[i].ad]]
Made(e) == LET all == [from |-> 0, to |-> scene.end]
           IN  StoredProfit(EngineOrders(Books(e), all),
                            PeriodOf(all, [orders |-> e, spend |-> e, rules |-> e]))

Parts(kind) == IF kind = "full" THEN {"orders", "spend", "rules", "days", "cohort"}
               ELSE {"orders", "spend", "rules"}
Summary(p) == [f \in DOMAIN p \ {"orders"} |-> p[f]]
PeriodValue(range, read) == [read |-> read, period |-> Summary(PeriodOf(range, read))]
CapacityValue(range, e) ==
    [read |-> [days |-> e],
     capacity |-> CapacityAnalysis(CapacityDays(Books(e), range), DayOf(range.to), scene.sla)]
PageOf(orders, spend, p, rows, range, read) ==
    [read |-> read, period |-> Summary(p), weight |-> Len(orders),
     capacity  |-> CapacityValue(range, read.days).capacity,
     products  |-> ProductProfits(orders, p.orders),
     channels  |-> ChannelProfits(orders, p.orders, spend, rows, range.to),
     campaigns |-> CampaignProfits(orders, p.orders, spend),
     series    |-> BucketWeekly(DailySeries(p.orders, range))]
FullValue(range, read) ==
    PageOf(EngineOrders(Books(read.orders), range), AdSpendRows(Books(read.spend), range),
           PeriodOf(range, read),
           IF scene.customers
           THEN CohortRows(Made(read.cohort),
                           [from |-> range.to - LookBack * Ticks, to |-> range.to])
           ELSE <<>>,
           range, read)
ValueOf(kind, range, read) ==
    IF kind = "full" THEN FullValue(range, read) ELSE PeriodValue(range, read)

-----------------------------------------------------------------------------
(* An entry is found by window and stamp while it is younger than a minute.*)
(* A full window also answers for its period and for its warehouse.        *)
Serves(entry, kind, key) ==
    entry.fresh /\ entry.key = key /\ entry.kind \in {"full", kind}
Hits(kind, key) == {i \in DOMAIN retained : Serves(retained[i], kind, key)}
Cut(kind, value) == IF kind = "full" THEN value
                    ELSE [f \in DOMAIN value \cap {"read", "period", "capacity"} |-> value[f]]
(* Of a full window and a period of one key, the full one is looked at     *)
(* first.                                                                  *)
HitValue(kind, key) ==
    LET whole == {i \in Hits(kind, key) : retained[i].kind = "full"}
        found == IF whole # {} THEN whole ELSE Hits(kind, key)
    IN  Cut(kind, retained[CHOOSE i \in found : TRUE].value)

(* The entries that stay, in their order, when the others are deleted.     *)
Picked(entries, kept) ==
    LET at(k) == CHOOSE i \in kept : Cardinality({j \in kept : j <= i}) = k
    IN  [k \in 1..Cardinality(kept) |-> entries[at(k)]]
(* Mutant of Dropped: the windows held are kept while the next one loads.  *)
DroppedNone(entries) == entries
(* A window that is held must not meet the peak of the next one.           *)
Dropped(entries) == Picked(entries, {i \in DOMAIN entries : entries[i].kind # "full"})
(* After a store: stale periods go, then the oldest periods over the limit,*)
(* or the oldest of all over the budget of rows.  The newest stays.        *)
Current(entries) ==
    Picked(entries, {i \in DOMAIN entries : entries[i].fresh \/ entries[i].kind = "full"})
WithinLimit(entries) ==
    LET periods(i) == Cardinality({j \in i..Len(entries) : entries[j].kind = "period"})
    IN  {i \in DOMAIN entries : entries[i].kind = "full" \/ periods(i) <= PeriodLimit}
WithinBudget(entries) ==
    LET n == Len(entries)
        rest(i) == SumOf([k \in 1..(n - i + 1) |-> entries[i + k - 1].weight])
    IN  {i \in DOMAIN entries : i = n \/ rest(i) <= CacheBudget}
Trimmed(entries, kind) ==
    IF kind = "period" THEN Picked(Current(entries), WithinLimit(Current(entries)))
    ELSE Picked(entries, WithinBudget(entries))
Others(kind, key) ==
    Picked(retained, {i \in DOMAIN retained : retained[i].kind # kind \/ retained[i].key # key})
Stored(kind, key, value) ==
    Trimmed(Append(Others(kind, key),
                   [kind |-> kind, key |-> key, fresh |-> TRUE, value |-> value,
                    weight |-> IF kind = "full" THEN value.weight ELSE 0]), kind)

-----------------------------------------------------------------------------
(* What a request goes through: a dashboard asks for its window and then   *)
(* for the one before it, a price run for its window and then for prices.  *)
Flight(q) == [kind |-> q.stage, key |-> q.key, gen |-> generation]
Waits(q, build) ==
    q.pc = "waiting" /\ q.flight = [kind |-> build.kind, key |-> build.key, gen |-> build.gen]
Answered(q, value) ==
    IF q.kind = "dashboard" /\ q.stage = "full"
    THEN [q EXCEPT !.pc = "look", !.stage = "period", !.answer = {value}, !.of = q.key.range,
                   !.key = [q.key EXCEPT !.range = PreviousRange(q.key.range)]]
    ELSE [q EXCEPT !.pc = IF q.kind = "reprice" THEN "inputs" ELSE "done",
                   !.answer = {value}, !.of = q.key.range]
Failed(q) == [q EXCEPT !.pc = "failed"]

(* The gate: whoever is at the head runs, and goes whatever becomes of it. *)
Released(queue) == Tail(queue)
Resolve(outcome) ==
    /\ tail' = Released(tail)
    /\ request' = [r \in Requests |->
         IF ~Waits(request[r], tail[1]) THEN request[r]
         ELSE IF outcome = {} THEN Failed(request[r])
         ELSE Answered(request[r], CHOOSE v \in outcome : TRUE)]

(* A request comes with the shop as it is now.                             *)
Arrive(r, kind, now) ==
    /\ request[r].pc = "idle" /\ r \in scene.users /\ kind \in scene.asks /\ now \in scene.nows
    /\ request' = [request EXCEPT ![r] =
         [pc |-> "look", kind |-> kind, stage |-> IF kind = "badge" THEN "capacity" ELSE "full",
          key |-> [range |-> ResolveRange(scene.length, now), stamp |-> stamp],
          floor |-> mark, flight |-> {}, answer |-> {}, of |-> {}, plan |-> {}]]
    /\ UNCHANGED <<cacheVars, allowed>>

(* Up to its first wait a request runs alone: the cache, a build under way *)
(* of the same generation, or a new build at the end of the queue.         *)
Look(r) ==
    LET q == request[r]
        running == {i \in DOMAIN tail : tail[i].kind = q.stage /\ tail[i].key = q.key
                                        /\ tail[i].gen = generation}
    IN  /\ q.pc = "look"
        /\ IF Hits(q.stage, q.key) # {}
           THEN /\ request' = [request EXCEPT ![r] = Answered(q, HitValue(q.stage, q.key))]
                /\ UNCHANGED tail
           ELSE IF q.stage = "capacity"
           THEN request' = [request EXCEPT ![r].pc = "days"] /\ UNCHANGED tail
           ELSE /\ request' = [request EXCEPT ![r].pc = "waiting", ![r].flight = Flight(q)]
                /\ tail' = IF running # {} THEN tail
                           ELSE Append(tail, [kind |-> q.stage, key |-> q.key, gen |-> generation,
                                              pc |-> "queued", read |-> <<>>])
        /\ UNCHANGED <<db, made, stamp, owed, generation, retained, mark, allowed>>

(* The badge of the shell reads its own days.                              *)
ReadDays(r) ==
    /\ request[r].pc = "days"
    /\ request' = [request EXCEPT ![r] = Answered(@, CapacityValue(@.key.range, db))]
    /\ UNCHANGED <<cacheVars, allowed>>

Head1 == tail[1]
Busy(kinds, pc) == tail # <<>> /\ Head1.kind \in kinds /\ Head1.pc = pc
Go(pc, read) == tail' = [tail EXCEPT ![1].pc = pc, ![1].read = read]
Rest == UNCHANGED <<db, made, stamp, owed, generation, mark, allowed>>

(* Admitted, it looks again: one ahead of it may have had the same window. *)
Admit ==
    /\ Busy({"full", "period"}, "queued")
    /\ IF Hits(Head1.kind, Head1.key) # {}
       THEN Resolve({HitValue(Head1.kind, Head1.key)}) /\ UNCHANGED retained
       ELSE retained' = Dropped(retained) /\ Go("reading", <<>>) /\ UNCHANGED request
    /\ Rest

(* The loaders run side by side; each sees the rows of its own moment.     *)
Load(part) ==
    /\ Busy({"full", "period"}, "reading") /\ part \in Parts(Head1.kind) \ DOMAIN Head1.read
    /\ part = "orders" => ~TooLarge(Books(db).orders, Head1.key.range)
    /\ Go("reading", [of \in DOMAIN Head1.read \cup {part} |->
                        IF of # part THEN Head1.read[of]
                        ELSE IF part = "cohort" THEN made ELSE db])
    /\ UNCHANGED <<retained, request>> /\ Rest
(* A window too large is refused.                                          *)
Refuse ==
    /\ Busy({"full", "period"}, "reading") /\ "orders" \notin DOMAIN Head1.read
    /\ TooLarge(Books(db).orders, Head1.key.range)
    /\ Resolve({}) /\ UNCHANGED retained /\ Rest
LoadFails ==
    /\ Busy({"full", "period"}, "reading") /\ Spend("failures") /\ Resolve({})
    /\ UNCHANGED <<db, made, stamp, owed, generation, retained, mark>>

(* Mutant of Keeps: the value of before an invalidation is put back.       *)
KeepsAlways(build) == TRUE
Keeps(build) == build.gen = generation
Deliver(value) ==
    /\ retained' = IF Keeps(Head1) THEN Stored(Head1.kind, Head1.key, value) ELSE retained
    /\ Resolve({value})
Finish ==
    /\ Busy({"full", "period"}, "reading") /\ DOMAIN Head1.read = Parts(Head1.kind)
    /\ Deliver(ValueOf(Head1.kind, Head1.key.range, Head1.read))
    /\ Rest

-----------------------------------------------------------------------------
Forget(now) == generation' = generation + 1 /\ retained' = <<>> /\ mark' = now

(* A delivery writes, and then invalidates.                                *)
Write ==
    /\ db < Len(scene.editions) /\ ~owed /\ db' = db + 1 /\ owed' = TRUE
    /\ UNCHANGED <<made, stamp, generation, retained, tail, mark, request, allowed>>
Invalidate ==
    /\ owed /\ owed' = FALSE /\ Forget([db |-> db, made |-> made])
    /\ UNCHANGED <<db, made, stamp, tail, request, allowed>>

(* A recompute invalidates, waits for the gate like a page, and stamps.    *)
StartRecompute ==
    /\ Spend("recomputes") /\ \A i \in DOMAIN tail : tail[i].kind # "recompute"
    /\ Forget([db |-> db, made |-> made])
    /\ tail' = Append(tail, [kind |-> "recompute", key |-> {}, gen |-> 0,
                             pc |-> "queued", read |-> <<>>])
    /\ UNCHANGED <<db, made, stamp, owed, request>>
RunRecompute ==
    /\ Busy({"recompute"}, "queued") /\ Go("running", [orders |-> db])
    /\ UNCHANGED <<retained, request>> /\ Rest
FinishRecompute ==
    /\ Busy({"recompute"}, "running")
    /\ made' = Head1.read.orders /\ stamp' = stamp + 1
    /\ mark' = [db |-> db, made |-> made']
    /\ tail' = Released(tail)
    /\ UNCHANGED <<db, owed, generation, retained, request, allowed>>

(* One that throws leaves the gate and stamps nothing, whether or not the  *)
(* profit of the months was stored by then.                                *)
RecomputeFails ==
    /\ Busy({"recompute"}, "running") /\ Spend("failures")
    /\ made' \in {made, Head1.read.orders}
    /\ tail' = Released(tail)
    /\ UNCHANGED <<db, stamp, owed, generation, retained, mark, request>>

(* A minute passes, and with it every entry's time.                        *)
Minute ==
    /\ Spend("minutes") /\ \E i \in DOMAIN retained : retained[i].fresh
    /\ retained' = [i \in DOMAIN retained |-> [retained[i] EXCEPT !.fresh = FALSE]]
    /\ UNCHANGED <<db, made, stamp, owed, generation, tail, mark, request>>
=============================================================================
