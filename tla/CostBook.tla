------------------------------ MODULE CostBook ------------------------------
(***************************************************************************)
(* Cost history and bundles of one shop: app/lib/cost-history.server.ts,   *)
(* app/lib/bundles.server.ts and their callers in the costs page, the      *)
(* product sync and the product import.                                    *)
(*                                                                         *)
(* Shopify's inventory items change and are delivered or imported, late or *)
(* twice; the merchant saves dated costs and draws, confirms and removes   *)
(* bundle mappings; workers run the rollup that derives the packs' costs.  *)
(* A product is written in one locked transaction and is one step; saves   *)
(* and rollups run without one, so each of their statements is a step.     *)
(*                                                                         *)
(* Abstractions.                                                           *)
(*  - The recalculation queue is what RecalcQueue shows of it: a job that  *)
(*    is queued is handled, one whose worker dies is leased again, and an  *)
(*    enqueue is absorbed by a queued job.  Rollups carry no payload, so   *)
(*    an absorbed one is not lost.                                         *)
(*  - The restatement that a rollup asks for is taken to have run: it      *)
(*    makes `reported` what the timeline says from its date on.            *)
(*  - A product has one variant, and its title and price are left out.     *)
(***************************************************************************)
EXTENDS Bundles

CONSTANTS
    Variants,
    Priced,        \* those Shopify has a cost for when the shop is imported,
    OpeningCost,   \* namely this one
    Mappable,      \* the <<bundle, component>> pairs the merchant may map
    Drawn,         \* those just drawn when the behaviour starts
    Detectable,    \* those whose names say pack
    Quantities, DetectedQuantity,
    Costs,         \* the costs Shopify and the merchant come up with
    Workers, Requests,
    Budgets        \* bound: how often each of Causes may happen, alternatives

Causes == {"tick", "change", "import", "save", "map", "crash", "overlap"}

ASSUME VariantsAssumption ==
    /\ IsFiniteSet(Variants) /\ Priced \in SUBSET Variants
    /\ Mappable \in SUBSET (Variants \X Variants)
    /\ \A p \in Mappable : p[1] # p[2]
    /\ Drawn \in SUBSET Mappable /\ Detectable \in SUBSET Mappable
ASSUME NumbersAssumption ==
    /\ Quantities \in SUBSET (Nat \ {0}) /\ DetectedQuantity \in Nat \ {0}
    /\ Drawn # {} => Quantities # {}
    /\ Costs \in SUBSET (Nat \ {0}) /\ OpeningCost \in Costs
    /\ MaxDepth \in Nat
    /\ Budgets \in SUBSET [Causes -> Nat]

VARIABLES
    now,
    rows,       \* VariantCost: each variant's timeline
    catalog,    \* Variant.unitCost
    stamp,      \* Variant.inventoryItemUpdatedAt
    sent,       \* what Shopify's inventory items have said, and when
    edges,      \* BundleComponent
    page,       \* the merchant's requests being served
    work,       \* the rollups being run
    queued,     \* a rollup waits under the shop's key
    orphaned,   \* rollups whose worker died
    left,       \* what is left of the budget
    reported,   \* history: the costs the ledger was last asked to reflect
    fresh,      \* history: no cost was written, and no mapping changed without
                \* asking for a rollup, since one last read the mappings, alone
    aligned,    \* history: by variant, whether the catalog was its timeline's
                \* head and has since been written by one writer at a time
    disturbed   \* history: whether anything died or two rollups ran at once

books == <<rows, catalog, stamp, edges>>
ghosts == <<reported, fresh, aligned, disturbed>>
vars == <<now, books, sent, page, work, queued, orphaned, left, ghosts>>

Fact == [variant : Variants, cost : Costs \cup {None}, at : Instants]
Edge == [state : {"absent", "proposed", "confirmed"}, quantity : Nat]
NoEdge == [state |-> "absent", quantity |-> 0]

IdlePage == [pc |-> "idle", v |-> None, at |-> 0, cost |-> None, before |-> Empty]
IdleWork == [pc |-> "idle", edges |-> {}, holders |-> {},
             derived |-> [v \in Variants |-> Empty], todo |-> {}, v |-> None,
             before |-> Empty, after |-> Empty, changed |-> {}, from |-> None]

PagePC == {"idle", "save", "publish", "enqueue"}
WorkPC == {"idle", "edges", "holders", "base", "next", "withdraw", "derive",
           "after", "publish", "handover", "complete"}

TypeOK ==
    /\ now \in Instants
    /\ rows \in [Variants -> Timeline]
    /\ catalog \in [Variants -> Nat \cup {None}]
    /\ stamp \in [Variants -> Instants]
    /\ sent \in SUBSET Fact
    /\ edges \in [Mappable -> Edge]
    /\ page \in [Requests -> [pc : PagePC, v : Variants \cup {None}, at : Instants,
                              cost : Costs \cup {None}, before : Timeline]]
    /\ \A w \in Workers :
         /\ work[w].pc \in WorkPC
         /\ work[w].holders \in SUBSET Variants /\ work[w].todo \in SUBSET Variants
         /\ work[w].changed \in SUBSET Variants
         /\ work[w].derived \in [Variants -> Timeline]
         /\ work[w].from \in Instants \cup {None}
    /\ queued \in BOOLEAN /\ orphaned \in Nat
    /\ left \in [Causes -> Nat]
    /\ reported \in [Variants -> [Instants -> Nat \cup {None}]]
    /\ fresh \in BOOLEAN /\ disturbed \in BOOLEAN
    /\ aligned \in [Variants -> BOOLEAN]

-----------------------------------------------------------------------------
(* Who is between its first look at a variant's timeline and its last      *)
(* write to the variant.                                                   *)
Updating(v) ==
    {r \in Requests : page[r].v = v /\ page[r].pc \in {"save", "publish"}}
        \cup {w \in Workers : work[w].v = v /\ work[w].pc \in
                                {"withdraw", "derive", "after", "publish"}}

(* History after a step that compares nothing but leaves things as they    *)
(* are: the catalogue is the head or it is not.                            *)
Realigned(cat, book, t) ==
    [v \in Variants |-> cat[v] = CostEffectiveAt(book[v], t) /\ Updating(v) = {}]

Entering(v) == [aligned EXCEPT ![v] = @ /\ Updating(v) = {}]

Spend(cause) == left[cause] > 0 /\ left' = [left EXCEPT ![cause] = @ - 1]

IsDerived(version) == version # None /\ version.source = "BUNDLE_ROLLUP"
IsDirect(version)  == version # None /\ version.source # "BUNDLE_ROLLUP"

Without(timeline, P(_)) == [i \in Instants |-> IF P(timeline[i]) THEN None ELSE timeline[i]]
DirectRows(timeline)  == Without(timeline, IsDerived)
DerivedRows(timeline) == Without(timeline, IsDirect)

Written(timeline, at, cost, source) ==
    [timeline EXCEPT ![at] = [cost |-> cost, source |-> source]]

(* Mutant of Published: the newest version is published, due or not.       *)
PublishedNewest(v, before, after) ==
    IF CostEffectiveAt(before, LastInstant) = CostEffectiveAt(after, LastInstant)
    THEN catalog
    ELSE [catalog EXCEPT ![v] = CostEffectiveAt(after, LastInstant)]

(* publishCurrentCost: the catalogue is written only if the value as of    *)
(* now differs between the two timelines, and then with that of the later. *)
Published(v, before, after) ==
    IF CostEffectiveAt(before, now) = CostEffectiveAt(after, now) THEN catalog
    ELSE [catalog EXCEPT ![v] = CostEffectiveAt(after, now)]

-----------------------------------------------------------------------------
(* Shopify and the clock                                                   *)

Tick ==
    /\ now < LastInstant
    /\ Spend("tick")
    /\ now' = now + 1
    /\ aligned' = Realigned(catalog, rows, now')
    /\ UNCHANGED <<books, sent, page, work, queued, orphaned, reported, fresh, disturbed>>

(* A merchant edits an inventory item in Shopify.                          *)
InventoryChanges(v, cost) ==
    /\ Spend("change")
    /\ \A f \in sent : f.variant = v => f.at < now
    /\ sent' = sent \cup {[variant |-> v, cost |-> cost, at |-> now]}
    /\ UNCHANGED <<now, books, page, work, queued, orphaned, ghosts>>

(* observeVariantCost: a cost that is in effect already writes nothing.    *)
Observed(timeline, fact) ==
    IF fact.cost = None \/ CostEffectiveAt(timeline, fact.at) = fact.cost THEN timeline
    ELSE Written(timeline, fact.at, fact.cost, "SHOPIFY")

(* A product is synced from what Shopify said at some time: the catalogue  *)
(* takes the cost, or its absence, and the timeline a cost it did not have.*)
SyncProduct(fact) ==
    LET v == fact.variant IN
    /\ fact.at >= stamp[v]
    /\ catalog' = [catalog EXCEPT ![v] = fact.cost]
    /\ stamp'   = [stamp EXCEPT ![v] = fact.at]
    /\ rows'    = [rows EXCEPT ![v] = Observed(@, fact)]
    /\ fresh'   = (fresh /\ rows' = rows)
    /\ aligned' = Realigned(catalog', rows', now)
    /\ UNCHANGED <<now, edges, sent, page, work, queued, orphaned, left,
                   reported, disturbed>>

(* seedOpeningCostBasis: only an empty timeline gets a floor.              *)
Seeded(timeline, cost) ==
    IF cost = None \/ timeline # Empty THEN timeline
    ELSE Written(timeline, 0, cost, "SHOPIFY")

(* The import writes a product page it may have fetched some time ago; it  *)
(* compares the product's own time, not that of the inventory item.        *)
ImportProduct(fact) ==
    LET v == fact.variant IN
    /\ Spend("import")
    /\ catalog' = [catalog EXCEPT ![v] = fact.cost]
    /\ stamp'   = [stamp EXCEPT ![v] = fact.at]
    /\ rows'    = [rows EXCEPT ![v] = Seeded(@, fact.cost)]
    /\ fresh'   = (fresh /\ rows' = rows)
    /\ aligned' = Realigned(catalog', rows', now)
    /\ UNCHANGED <<now, edges, sent, page, work, queued, orphaned, reported, disturbed>>

-----------------------------------------------------------------------------
(* The costs page                                                          *)

(* recordVariantCost, statement by statement: the timeline is read, ...    *)
LoadBefore(r, v, at, cost) ==
    /\ page[r].pc = "idle"
    /\ Spend("save")
    /\ page' = [page EXCEPT ![r] = [pc |-> "save", v |-> v, at |-> at,
                                    cost |-> cost, before |-> rows[v]]]
    /\ aligned' = Entering(v)
    /\ UNCHANGED <<now, books, sent, work, queued, orphaned, reported, fresh, disturbed>>

(* ... the version is written over any other of its instant, ...           *)
SaveVersion(r) ==
    LET p == page[r] IN
    /\ p.pc = "save"
    /\ rows' = [rows EXCEPT ![p.v] = Written(@, p.at, p.cost, "MANUAL")]
    /\ page' = [page EXCEPT ![r].pc = "publish"]
    /\ fresh' = FALSE
    /\ UNCHANGED <<now, catalog, stamp, edges, sent, work, queued, orphaned, left,
                   reported, aligned, disturbed>>

(* ... and the catalogue is published from the timeline as it was read     *)
(* with the version put in, which is not read again.                       *)
PublishSaved(r) ==
    LET p == page[r] IN
    /\ p.pc = "publish"
    /\ catalog' = Published(p.v, p.before, Written(p.before, p.at, p.cost, "MANUAL"))
    /\ page' = [page EXCEPT ![r] = IdlePage]
    /\ UNCHANGED <<now, rows, stamp, edges, sent, work, queued, orphaned, left, ghosts>>

(* A mapping is drawn or changed, a proposal confirmed, a mapping removed, *)
(* and only then a rollup asked for.                                       *)
Map(r, pair, edge) ==
    /\ page[r].pc = "idle"
    /\ Spend("map")
    /\ edges' = [edges EXCEPT ![pair] = edge]
    /\ page'  = [page EXCEPT ![r].pc = "enqueue"]
    /\ UNCHANGED <<now, rows, catalog, stamp, sent, work, queued, orphaned, ghosts>>

UpsertMapping(r, pair, quantity) ==
    Map(r, pair, [state |-> "confirmed", quantity |-> quantity])

ConfirmMapping(r, pair) ==
    /\ edges[pair] # NoEdge
    /\ Map(r, pair, [edges[pair] EXCEPT !.state = "confirmed"])

RemoveMapping(r, pair) ==
    /\ edges[pair] # NoEdge
    /\ Map(r, pair, NoEdge)

EnqueueRollup(r) ==
    /\ page[r].pc = "enqueue"
    /\ queued' = TRUE
    /\ page'   = [page EXCEPT ![r] = IdlePage]
    /\ UNCHANGED <<now, books, sent, work, orphaned, left, ghosts>>

(* Detection adds the pairs that are not there, as proposals.              *)
DetectBundles ==
    /\ Spend("map")
    /\ edges' = [p \in Mappable |->
                   IF p \in Detectable /\ edges[p] = NoEdge
                   THEN [state |-> "proposed", quantity |-> DetectedQuantity]
                   ELSE edges[p]]
    /\ UNCHANGED <<now, rows, catalog, stamp, sent, page, work, queued, orphaned,
                   ghosts>>

RequestDies(r) ==
    /\ page[r].pc # "idle"
    /\ Spend("crash")
    /\ disturbed' = TRUE
    /\ fresh'   = (fresh /\ page[r].pc # "enqueue")
    /\ aligned' = [v \in Variants |-> aligned[v] /\ r \notin Updating(v)]
    /\ page'    = [page EXCEPT ![r] = IdlePage]
    /\ UNCHANGED <<now, books, sent, work, queued, orphaned, reported>>

-----------------------------------------------------------------------------
(* The rollup job                                                          *)

(* A request that comes during a rollup queues one more, which another     *)
(* process may take at once.                                               *)
Lease(w) ==
    /\ work[w].pc = "idle"
    /\ \/ queued /\ queued' = FALSE /\ UNCHANGED orphaned
       \/ orphaned > 0 /\ orphaned' = orphaned - 1 /\ UNCHANGED queued
    /\ \/ (\A x \in Workers : work[x].pc = "idle") /\ UNCHANGED left
       \/ (\E x \in Workers : work[x].pc # "idle") /\ Spend("overlap")
    /\ work' = [work EXCEPT ![w] = [IdleWork EXCEPT !.pc = "edges"]]
    /\ UNCHANGED <<now, books, sent, page, ghosts>>

ConfirmedEdges ==
    {[bundle |-> p[1], component |-> p[2], quantity |-> edges[p].quantity] :
        p \in {q \in Mappable : edges[q].state = "confirmed"}}

(* No other rollup is between its first look and its last write.           *)
Alone(w) == \A x \in Workers \ {w} : work[x].pc \in {"idle", "edges", "complete"}

LoadConfirmedEdges(w) ==
    /\ work[w].pc = "edges"
    /\ work' = [work EXCEPT ![w].pc = "holders", ![w].edges = ConfirmedEdges]
    /\ fresh' = Alone(w)
    /\ disturbed' = (disturbed \/ ~Alone(w))
    /\ UNCHANGED <<now, books, sent, page, queued, orphaned, left, reported, aligned>>

(* Mutant of DerivedHolders: only what is mapped is looked at.             *)
DerivedHoldersMapped == {}

(* Who wears a derived cost now, mapped or not; without any and without    *)
(* mappings there is nothing to do.                                        *)
DerivedHolders == {v \in Variants : \E i \in Instants : IsDerived(rows[v][i])}

LoadDerivedHolders(w) ==
    /\ work[w].pc = "holders"
    /\ work' = [work EXCEPT ![w].holders = DerivedHolders,
                            ![w].pc = IF work[w].edges = {} /\ DerivedHolders = {}
                                      THEN "complete" ELSE "base"]
    /\ UNCHANGED <<now, books, sent, page, queued, orphaned, left, ghosts>>

(* The costs that were told, not derived, are read and the packs' derived. *)
BaseTimelines == [v \in Variants |-> DirectRows(rows[v])]

LoadBaseTimelines(w) ==
    /\ work[w].pc = "base"
    /\ LET bundles  == {e.bundle : e \in work[w].edges}
           resolved == ResolveBundleCostTimelines(work[w].edges, BaseTimelines)
       IN  work' = [work EXCEPT
                      ![w].derived = [v \in Variants |->
                                        IF v \in bundles THEN resolved[v] ELSE Empty],
                      ![w].todo = bundles \cup work[w].holders,
                      ![w].edges = {}, ![w].holders = {}, ![w].pc = "next"]
    /\ UNCHANGED <<now, books, sent, page, queued, orphaned, left, ghosts>>

(* replaceDerivedCostTimeline, statement by statement, for each of them.   *)
LoadPack(w, v) ==
    /\ work[w].pc = "next"
    /\ v \in work[w].todo
    /\ work' = [work EXCEPT ![w].v = v, ![w].todo = @ \ {v},
                            ![w].before = rows[v], ![w].pc = "withdraw"]
    /\ aligned' = Entering(v)
    /\ UNCHANGED <<now, books, sent, page, queued, orphaned, left, reported,
                   fresh, disturbed>>

WithdrawDerived(w) ==
    /\ work[w].pc = "withdraw"
    /\ rows' = [rows EXCEPT ![work[w].v] = DirectRows(@)]
    /\ work' = [work EXCEPT ![w].pc = "derive"]
    /\ UNCHANGED <<now, catalog, stamp, edges, sent, page, queued, orphaned, left, ghosts>>

(* Mutant of Merged: the derived version replaces what was told.           *)
MergedDerived(timeline, derived) ==
    [i \in Instants |-> IF derived[i] # None THEN derived[i] ELSE timeline[i]]

(* Where a direct version has the instant, it stays.                       *)
Merged(timeline, derived) ==
    [i \in Instants |-> IF timeline[i] # None THEN timeline[i] ELSE derived[i]]

CreateDerived(w) ==
    LET v == work[w].v IN
    /\ work[w].pc = "derive"
    /\ rows' = [rows EXCEPT ![v] = Merged(@, work[w].derived[v])]
    /\ work' = [work EXCEPT ![w].derived[v] = Empty, ![w].pc = "after"]
    /\ UNCHANGED <<now, catalog, stamp, edges, sent, page, queued, orphaned, left, ghosts>>

LoadAfter(w) ==
    /\ work[w].pc = "after"
    /\ work' = [work EXCEPT ![w].after = rows[work[w].v], ![w].pc = "publish"]
    /\ UNCHANGED <<now, books, sent, page, queued, orphaned, left, ghosts>>

(* The catalogue follows, and what moved is remembered.                    *)
PublishPack(w) ==
    LET k    == work[w]
        from == CostDivergenceFrom(k.before, k.after) IN
    /\ k.pc = "publish"
    /\ catalog' = Published(k.v, k.before, k.after)
    /\ work' = [work EXCEPT ![w].pc = "next", ![w].v = None,
                            ![w].before = Empty, ![w].after = Empty,
                            ![w].changed = IF from = None THEN @ ELSE @ \cup {k.v},
                            ![w].from = Earlier(@, from)]
    /\ UNCHANGED <<now, rows, stamp, edges, sent, page, queued, orphaned, left, ghosts>>

(* One restatement for all packs that moved, from the earliest instant.    *)
HandOver(w) ==
    LET k == work[w] IN
    /\ k.pc = "next" /\ k.todo = {}
    /\ reported' = [v \in Variants |-> [i \in Instants |->
                      IF v \in k.changed /\ i >= k.from
                      THEN CostEffectiveAt(rows[v], i) ELSE reported[v][i]]]
    /\ work' = [work EXCEPT ![w].pc = "complete"]
    /\ UNCHANGED <<now, books, sent, page, queued, orphaned, left, fresh, aligned, disturbed>>

Complete(w) ==
    /\ work[w].pc = "complete"
    /\ work' = [work EXCEPT ![w] = IdleWork]
    /\ UNCHANGED <<now, books, sent, page, queued, orphaned, left, ghosts>>

(* The process dies, or a statement throws: the job is leased again.       *)
WorkerDies(w) ==
    LET k == work[w] IN
    /\ k.pc # "idle"
    /\ Spend("crash")
    /\ disturbed' = TRUE
    /\ orphaned' = orphaned + 1
    /\ aligned' = [v \in Variants |-> aligned[v] /\ w \notin Updating(v)]
    /\ work' = [work EXCEPT ![w] = IdleWork]
    /\ UNCHANGED <<now, books, sent, page, queued, reported, fresh>>

-----------------------------------------------------------------------------
Opening(v) == IF v \in Priced THEN OpeningCost ELSE None

(* A shop that has been imported and where the merchant has just drawn     *)
(* some mappings.                                                          *)
Init ==
    /\ now = 1
    /\ rows = [v \in Variants |-> Seeded(Empty, Opening(v))]
    /\ catalog = [v \in Variants |-> Opening(v)]
    /\ stamp = [v \in Variants |-> 0]
    /\ sent = {[variant |-> v, cost |-> Opening(v), at |-> 0] : v \in Variants}
    /\ edges = [p \in Mappable |-> IF p \in Drawn
                                   THEN [state |-> "confirmed", quantity |-> Min(Quantities)]
                                   ELSE NoEdge]
    /\ page = [r \in Requests |-> IdlePage]
    /\ work = [w \in Workers |-> IdleWork]
    /\ queued = (Drawn # {}) /\ orphaned = 0
    /\ left \in Budgets
    /\ reported = [v \in Variants |-> [i \in Instants |-> Opening(v)]]
    /\ fresh = FALSE /\ disturbed = FALSE
    /\ aligned = [v \in Variants |-> TRUE]

Outside ==
    \/ Tick
    \/ \E v \in Variants, c \in Costs \cup {None} : InventoryChanges(v, c)
    \/ \E f \in sent : SyncProduct(f) \/ ImportProduct(f)
    \/ DetectBundles

Request(r) ==
    \/ \E v \in Variants, at \in Instants, c \in Costs : LoadBefore(r, v, at, c)
    \/ SaveVersion(r)
    \/ PublishSaved(r)
    \/ \E p \in Mappable, q \in Quantities : UpsertMapping(r, p, q)
    \/ \E p \in Mappable : ConfirmMapping(r, p) \/ RemoveMapping(r, p)
    \/ EnqueueRollup(r)
    \/ RequestDies(r)

Rollup(w) ==
    \/ Lease(w)
    \/ LoadConfirmedEdges(w)
    \/ LoadDerivedHolders(w)
    \/ LoadBaseTimelines(w)
    \/ \E v \in Variants : LoadPack(w, v)
    \/ WithdrawDerived(w)
    \/ CreateDerived(w)
    \/ LoadAfter(w)
    \/ PublishPack(w)
    \/ HandOver(w)
    \/ Complete(w)
    \/ WorkerDies(w)

Next ==
    \/ Outside
    \/ \E r \in Requests : Request(r)
    \/ \E w \in Workers : Rollup(w)

Spec == Init /\ [][Next]_vars

-----------------------------------------------------------------------------
(* What a pack costs, instant by instant and without timelines: nothing    *)
(* known unless every component's cost is, else their sum.  A bundle that  *)
(* contains itself never gets a cost, however many levels are allowed.     *)
ComponentsOf(v) == {e \in ConfirmedEdges : e.bundle = v}

CostAt[level \in 0..Cardinality(Variants)] ==
    [v \in Variants |-> [i \in Instants |->
       IF ComponentsOf(v) = {} THEN CostEffectiveAt(BaseTimelines[v], i)
       ELSE IF level = 0 THEN None
       ELSE LET costOf(e) == CostAt[level - 1][e.component][i]
            IN  IF \E e \in ComponentsOf(v) : costOf(e) = None THEN None
                ELSE Together([e \in ComponentsOf(v) |-> costOf(e) * e.quantity])]]

(* The rows that a pack should wear: one where its cost starts or changes, *)
(* unless that instant is taken.                                           *)
Expected(v) ==
    LET cost(i) == CostAt[Cardinality(Variants)][v][i]
    IN  [i \in Instants |->
            IF /\ ComponentsOf(v) # {}
               /\ cost(i) # None
               /\ i = 0 \/ cost(i) # cost(i - 1)
               /\ ~IsDirect(rows[v][i])
            THEN [cost |-> cost(i), source |-> "BUNDLE_ROLLUP"]
            ELSE None]

PacksMatchComponents == \A v \in Variants : DerivedRows(rows[v]) = Expected(v)

(* Nothing is running, waiting or about to be asked for.                   *)
Settled ==
    /\ ~queued /\ orphaned = 0
    /\ \A w \in Workers : work[w].pc = "idle"
    /\ \A r \in Requests : page[r].pc = "idle"

(* When all rollups that the mappings asked for are done, the last of them *)
(* alone, and no cost has moved since, every pack has the history its      *)
(* components give it, at every level of nesting, whatever had been        *)
(* derived before, died half-way or was mapped in a circle, and packs no   *)
(* longer mapped have none.                                                *)
PackHistoryIsDerived == Settled /\ fresh => PacksMatchComponents

(* Every instant at which the rollups changed what a pack is said to have  *)
(* cost has been handed to the restatement engine, as long as nothing died,*)
(* they ran one after another and the pack has no cost of its own.         *)
DerivedCostsReachHistory ==
    Settled /\ ~disturbed =>
        \A v \in Variants : (\A i \in Instants : ~IsDirect(rows[v][i])) =>
            \A i \in Instants : reported[v][i] = CostEffectiveAt(rows[v], i)

(* Saves, backdated and forward-dated, and rollups keep the catalogue at   *)
(* the cost in effect now, as long as they do not overlap on a variant.    *)
SoleWriterKeepsHead ==
    \A v \in Variants : aligned[v] /\ Updating(v) = {} => catalog[v] = CostEffectiveAt(rows[v], now)

(* What Shopify or the merchant said is never deleted or replaced by       *)
(* something derived.                                                      *)
DirectCostsSurvive ==
    [][\A v \in Variants, i \in Instants : IsDirect(rows[v][i]) => IsDirect(rows'[v][i])]_vars

-----------------------------------------------------------------------------
(* What the documentation states and the code does not keep: no run states *)
(* it; the README says how to see it fail.                                 *)

(* app/lib/bundles.server.ts:36-38: "a component's cost moving re-derives  *)
(* every pack containing it, at every level of nesting".                   *)
PacksFollowComponents == Settled => PacksMatchComponents
=============================================================================
