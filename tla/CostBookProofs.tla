--------------------------- MODULE CostBookProofs ---------------------------
(***************************************************************************)
(* Proofs about CostBook, for all variants, mappings, workers, requests    *)
(* and budgets.  What was told about a cost is never deleted and never     *)
(* replaced by something derived (DirectCostsSurvive); one writer at a     *)
(* time keeps the catalogue at the timeline's head (SoleWriterKeepsHead);  *)
(* what undisturbed rollups move reaches the ledger                        *)
(* (DerivedCostsReachHistory); and once the rollups are done, packs have   *)
(* the history their components give them (PackHistoryIsDerived), for the  *)
(* walk over packs within packs finds every cost that adding up level by   *)
(* level finds, and no other.                                              *)
(***************************************************************************)
EXTENDS CostBook, WellFoundedInduction, FiniteSetTheorems, TLAPS

(* A timeline has a place for every instant, and what was told is a cost   *)
(* or its absence, so that writing it down never writes None.              *)
RowsInv == DOMAIN rows = Variants /\ \A v \in Variants : DOMAIN rows[v] = Instants
PageInv == /\ DOMAIN page = Requests
           /\ \A r \in Requests : /\ {"pc", "cost"} \subseteq DOMAIN page[r]
                                  /\ page[r].pc \in PagePC
                                  /\ page[r].pc = "save" => page[r].cost \in Nat
ToldInv == RowsInv /\ sent \in SUBSET Fact /\ PageInv

(* A step that keeps every direct version of a timeline.                   *)
Keeps(before, after) ==
    /\ DOMAIN after = Instants
    /\ \A i \in Instants : IsDirect(before[i]) => IsDirect(after[i])

(* What is written down as told is a direct version.                       *)
LEMMA WrittenKeeps ==
    ASSUME NEW t, DOMAIN t = Instants, NEW at, NEW c \in Nat,
           NEW s \in {"SHOPIFY", "MANUAL"}
    PROVE  Keeps(t, Written(t, at, c, s))
<1> DEFINE new == [cost |-> c, source |-> s]
<1>1. new \in Version BY DEF Version
<1>2. new # None BY <1>1, NoneAssumption
<1>3. new.source # "BUNDLE_ROLLUP" OBVIOUS
<1>4. IsDirect(new) BY <1>2, <1>3 DEF IsDirect
<1>5. Written(t, at, c, s) = [t EXCEPT ![at] = new] BY DEF Written
<1> HIDE DEF new
<1> QED BY <1>4, <1>5 DEF Keeps

LEMMA ObservedKeeps ==
    ASSUME NEW t, DOMAIN t = Instants, NEW f \in Fact
    PROVE  Keeps(t, Observed(t, f))
<1>1. f.cost \in Costs \cup {None} BY DEF Fact
<1>2. CASE f.cost \in Nat BY <1>2, WrittenKeeps DEF Observed, Keeps
<1>3. CASE f.cost = None BY <1>3 DEF Observed, Keeps
<1> QED BY <1>1, <1>2, <1>3, NumbersAssumption

LEMMA SeededKeeps ==
    ASSUME NEW t, DOMAIN t = Instants, NEW f \in Fact
    PROVE  Keeps(t, Seeded(t, f.cost))
<1>1. f.cost \in Costs \cup {None} BY DEF Fact
<1>2. CASE f.cost \in Nat BY <1>2, WrittenKeeps DEF Seeded, Keeps
<1>3. CASE f.cost = None BY <1>3 DEF Seeded, Keeps
<1> QED BY <1>1, <1>2, <1>3, NumbersAssumption

(* The rollup takes only derived versions away and adds them only where    *)
(* there is none.                                                          *)
LEMMA RollupKeeps ==
    ASSUME NEW t, DOMAIN t = Instants, NEW d
    PROVE  Keeps(t, DirectRows(t)) /\ Keeps(t, Merged(t, d))
<1>1. DirectRows(t) = [i \in Instants |-> IF IsDerived(t[i]) THEN None ELSE t[i]]
  BY DEF DirectRows, Without
<1>2. \A i \in Instants : IsDirect(t[i]) => ~IsDerived(t[i]) /\ t[i] # None
  BY DEF IsDirect, IsDerived
<1>3. Keeps(t, DirectRows(t)) BY <1>1, <1>2 DEF Keeps
<1>4. Keeps(t, Merged(t, d)) BY <1>2 DEF Keeps, Merged
<1> QED BY <1>3, <1>4

(* One variant's timeline is replaced by one that keeps what was told.     *)
LEMMA OneTimeline ==
    ASSUME RowsInv, NEW u, NEW t,
           rows' = [rows EXCEPT ![u] = t],
           u \in Variants => Keeps(rows[u], t)
    PROVE  RowsInv' /\ \A v \in Variants, i \in Instants :
                          IsDirect(rows[v][i]) => IsDirect(rows'[v][i])
<1>1. DOMAIN rows' = Variants BY DEF RowsInv
<1>2. ASSUME NEW v \in Variants
      PROVE  /\ DOMAIN rows'[v] = Instants
             /\ \A i \in Instants : IsDirect(rows[v][i]) => IsDirect(rows'[v][i])
  <2>1. CASE u = v BY <2>1 DEF RowsInv, Keeps
  <2>2. CASE u # v
    <3>1. rows'[v] = rows[v] BY <2>2 DEF RowsInv
    <3> QED BY <3>1 DEF RowsInv
  <2> QED BY <2>1, <2>2
<1> QED BY <1>1, <1>2 DEF RowsInv

Told == \A v \in Variants, i \in Instants :
            IsDirect(rows[v][i]) => IsDirect(rows'[v][i])

LEMMA Initially == Init => ToldInv
<1> SUFFICES ASSUME Init PROVE ToldInv OBVIOUS
<1>1. \A v \in Variants : Opening(v) \in Costs \cup {None}
  BY NumbersAssumption DEF Opening
<1>2. RowsInv
  <2>1. rows = [v \in Variants |-> Seeded(Empty, Opening(v))] BY DEF Init
  <2>2. \A v \in Variants : DOMAIN Seeded(Empty, Opening(v)) = Instants
    BY DEF Seeded, Written, Empty
  <2> QED BY <2>1, <2>2 DEF RowsInv
<1>3. sent \in SUBSET Fact
  <2>1. 0 \in Instants BY InstantsAssumption DEF Instants
  <2> QED BY <1>1, <2>1 DEF Init, Fact
<1>4. PageInv
  <2>1. page = [r \in Requests |-> IdlePage] BY DEF Init
  <2> QED BY <2>1 DEF PageInv, IdlePage, PagePC
<1> QED BY <1>2, <1>3, <1>4 DEF ToldInv

(* What the steps of each actor leave alone.                               *)
LEMMA OutsideFrame ==
    ASSUME Outside
    PROVE  /\ UNCHANGED page
           /\ rows' = rows \/ \E f \in sent : SyncProduct(f) \/ ImportProduct(f)
           /\ sent' = sent \/ \E v \in Variants, c \in Costs \cup {None} :
                                 InventoryChanges(v, c)
           /\ now' = now \/ Tick
<1>1. CASE Tick BY <1>1 DEF Tick, books
<1>2. ASSUME NEW v \in Variants, NEW c \in Costs \cup {None}, InventoryChanges(v, c)
      PROVE  UNCHANGED <<page, rows, now>>
  BY <1>2 DEF InventoryChanges, books
<1>3. ASSUME NEW f \in sent, SyncProduct(f) PROVE UNCHANGED <<page, sent, now>>
  BY <1>3 DEF SyncProduct
<1>4. ASSUME NEW f \in sent, ImportProduct(f) PROVE UNCHANGED <<page, sent, now>>
  BY <1>4 DEF ImportProduct
<1>5. CASE DetectBundles BY <1>5 DEF DetectBundles
<1> QED BY <1>1, <1>2, <1>3, <1>4, <1>5 DEF Outside

LEMMA RequestFrame ==
    ASSUME NEW r \in Requests, Request(r)
    PROVE  UNCHANGED <<sent, now>> /\ (rows' = rows \/ SaveVersion(r))
<1>1. ASSUME NEW v \in Variants, NEW at \in Instants, NEW c \in Costs,
             LoadBefore(r, v, at, c)
      PROVE  UNCHANGED <<sent, now, rows>>
  BY <1>1 DEF LoadBefore, books
<1>2. CASE SaveVersion(r) BY <1>2 DEF SaveVersion
<1>3. CASE PublishSaved(r) BY <1>3 DEF PublishSaved
<1>4. ASSUME NEW p, NEW e, Map(r, p, e) PROVE UNCHANGED <<sent, now, rows>>
  BY <1>4 DEF Map
<1>5. ASSUME NEW p \in Mappable, NEW q \in Quantities, UpsertMapping(r, p, q)
      PROVE  UNCHANGED <<sent, now, rows>>
  BY <1>4, <1>5 DEF UpsertMapping
<1>6. ASSUME NEW p \in Mappable, ConfirmMapping(r, p) \/ RemoveMapping(r, p)
      PROVE  UNCHANGED <<sent, now, rows>>
  BY <1>4, <1>6 DEF ConfirmMapping, RemoveMapping
<1>7. CASE EnqueueRollup(r) BY <1>7 DEF EnqueueRollup, books
<1>8. CASE RequestDies(r) BY <1>8 DEF RequestDies, books
<1> QED BY <1>1, <1>2, <1>3, <1>5, <1>6, <1>7, <1>8 DEF Request

LEMMA RollupFrame ==
    ASSUME NEW w \in Workers, Rollup(w)
    PROVE  /\ UNCHANGED <<page, sent, now>>
           /\ rows' = rows \/ WithdrawDerived(w) \/ CreateDerived(w)
<1>1. CASE Lease(w) BY <1>1 DEF Lease, books
<1>2. CASE LoadConfirmedEdges(w) BY <1>2 DEF LoadConfirmedEdges, books
<1>3. CASE LoadDerivedHolders(w) BY <1>3 DEF LoadDerivedHolders, books
<1>4. CASE LoadBaseTimelines(w) BY <1>4 DEF LoadBaseTimelines, books
<1>5. ASSUME NEW v \in Variants, LoadPack(w, v)
      PROVE  UNCHANGED <<page, sent, now, rows>>
  BY <1>5 DEF LoadPack, books
<1>6. CASE WithdrawDerived(w) BY <1>6 DEF WithdrawDerived
<1>7. CASE CreateDerived(w) BY <1>7 DEF CreateDerived
<1>8. CASE LoadAfter(w) BY <1>8 DEF LoadAfter, books
<1>9. CASE PublishPack(w) BY <1>9 DEF PublishPack
<1>10. CASE HandOver(w) BY <1>10 DEF HandOver, books
<1>11. CASE Complete(w) BY <1>11 DEF Complete, books
<1>12. CASE WorkerDies(w) BY <1>12 DEF WorkerDies, books
<1> QED
  BY <1>1, <1>2, <1>3, <1>4, <1>5, <1>6, <1>7, <1>8, <1>9, <1>10, <1>11, <1>12
  DEF Rollup

(* The requests keep what a save is about to write.                        *)
LEMMA PageStep ==
    ASSUME PageInv, Next
    PROVE  PageInv'
<1>1. CASE UNCHANGED page BY <1>1 DEF PageInv
<1>2. ASSUME NEW r \in Requests, page' = [page EXCEPT ![r] = IdlePage]
      PROVE  PageInv'
  BY <1>2 DEF PageInv, IdlePage, PagePC
<1>3. ASSUME NEW r \in Requests, NEW pc \in PagePC \ {"save"},
             page' = [page EXCEPT ![r].pc = pc]
      PROVE  PageInv'
  <2>1. /\ DOMAIN page' = Requests
        /\ page'[r] = [page[r] EXCEPT !.pc = pc]
        /\ \A q \in Requests \ {r} : page'[q] = page[q]
    BY <1>3 DEF PageInv
  <2>2. DOMAIN page'[r] = DOMAIN page[r] BY <2>1
  <2>3. page'[r].pc = pc BY <2>1 DEF PageInv
  <2> QED BY <2>1, <2>2, <2>3 DEF PageInv
<1>4. ASSUME NEW r \in Requests, NEW v \in Variants, NEW at \in Instants,
             NEW c \in Costs, LoadBefore(r, v, at, c)
      PROVE  PageInv'
  <2> DEFINE new == [pc |-> "save", v |-> v, at |-> at, cost |-> c,
                     before |-> rows[v]]
  <2>1. page' = [page EXCEPT ![r] = new] BY <1>4 DEF LoadBefore
  <2>2. {"pc", "cost"} \subseteq DOMAIN new /\ new.pc \in PagePC /\ new.cost \in Nat
    BY NumbersAssumption DEF PagePC
  <2> HIDE DEF new
  <2> QED BY <2>1, <2>2 DEF PageInv
<1>5. ASSUME NEW r \in Requests, SaveVersion(r) PROVE PageInv'
  BY <1>3, <1>5 DEF SaveVersion, PagePC
<1>6. ASSUME NEW r \in Requests, NEW p, NEW e, Map(r, p, e) PROVE PageInv'
  BY <1>3, <1>6 DEF Map, PagePC
<1>7. ASSUME NEW r \in Requests, PublishSaved(r) \/ EnqueueRollup(r) \/ RequestDies(r)
      PROVE  PageInv'
  BY <1>2, <1>7 DEF PublishSaved, EnqueueRollup, RequestDies
<1>8. ASSUME NEW r \in Requests, NEW p \in Mappable, NEW q \in Quantities,
             UpsertMapping(r, p, q)
      PROVE  PageInv'
  BY <1>6, <1>8 DEF UpsertMapping
<1>9. ASSUME NEW r \in Requests, NEW p \in Mappable,
             ConfirmMapping(r, p) \/ RemoveMapping(r, p)
      PROVE  PageInv'
  BY <1>6, <1>9 DEF ConfirmMapping, RemoveMapping
<1>10. ASSUME NEW r \in Requests, Request(r) PROVE PageInv'
  BY <1>4, <1>5, <1>7, <1>8, <1>9, <1>10 DEF Request
<1>11. CASE Outside BY <1>1, <1>11, OutsideFrame
<1>12. ASSUME NEW w \in Workers, Rollup(w) PROVE PageInv'
  BY <1>1, <1>12, RollupFrame
<1> QED BY <1>10, <1>11, <1>12 DEF Next

LEMMA SentStep ==
    ASSUME sent \in SUBSET Fact, now \in Instants, Next
    PROVE  sent' \in SUBSET Fact
<1>1. ASSUME NEW v \in Variants, NEW c \in Costs \cup {None}, InventoryChanges(v, c)
      PROVE  sent' \in SUBSET Fact
  BY <1>1 DEF InventoryChanges, Fact
<1>2. CASE Outside BY <1>1, <1>2, OutsideFrame
<1>3. ASSUME NEW r \in Requests, Request(r) PROVE sent' = sent
  BY <1>3, RequestFrame
<1>4. ASSUME NEW w \in Workers, Rollup(w) PROVE sent' = sent
  BY <1>4, RollupFrame
<1> QED BY <1>2, <1>3, <1>4 DEF Next

LEMMA NowStep == ASSUME now \in Instants, Next PROVE now' \in Instants
<1>1. ASSUME Tick PROVE now' \in Instants
  BY <1>1, InstantsAssumption DEF Tick, Instants
<1>2. CASE Outside BY <1>1, <1>2, OutsideFrame
<1>3. ASSUME NEW r \in Requests, Request(r) PROVE now' = now
  BY <1>3, RequestFrame
<1>4. ASSUME NEW w \in Workers, Rollup(w) PROVE now' = now
  BY <1>4, RollupFrame
<1> QED BY <1>2, <1>3, <1>4 DEF Next

(* Five kinds of step write the timelines, each one variant's.             *)
LEMMA RowsStep ==
    ASSUME ToldInv, Next
    PROVE  RowsInv' /\ Told
<1> USE DEF ToldInv
<1>1. CASE UNCHANGED rows BY <1>1 DEF RowsInv, Told
<1>2. ASSUME NEW f \in sent, SyncProduct(f) PROVE RowsInv' /\ Told
  <2>1. rows' = [rows EXCEPT ![f.variant] = Observed(rows[f.variant], f)]
    BY <1>2 DEF SyncProduct
  <2>2. f.variant \in Variants => Keeps(rows[f.variant], Observed(rows[f.variant], f))
    BY ObservedKeeps DEF RowsInv
  <2> QED BY <2>1, <2>2, OneTimeline DEF Told
<1>3. ASSUME NEW f \in sent, ImportProduct(f) PROVE RowsInv' /\ Told
  <2>1. rows' = [rows EXCEPT ![f.variant] = Seeded(rows[f.variant], f.cost)]
    BY <1>3 DEF ImportProduct
  <2>2. f.variant \in Variants => Keeps(rows[f.variant], Seeded(rows[f.variant], f.cost))
    BY SeededKeeps DEF RowsInv
  <2> QED BY <2>1, <2>2, OneTimeline DEF Told
<1>4. ASSUME NEW r \in Requests, SaveVersion(r) PROVE RowsInv' /\ Told
  <2> DEFINE v == page[r].v
             t == Written(rows[v], page[r].at, page[r].cost, "MANUAL")
  <2>1. rows' = [rows EXCEPT ![v] = t] /\ page[r].cost \in Nat
    BY <1>4 DEF SaveVersion, PageInv
  <2>2. v \in Variants => Keeps(rows[v], t) BY <2>1, WrittenKeeps DEF RowsInv
  <2> HIDE DEF v, t
  <2> QED BY <2>1, <2>2, OneTimeline DEF Told
<1>5. ASSUME NEW w \in Workers, WithdrawDerived(w) PROVE RowsInv' /\ Told
  <2> DEFINE v == work[w].v
  <2>1. rows' = [rows EXCEPT ![v] = DirectRows(rows[v])]
    BY <1>5 DEF WithdrawDerived
  <2>2. v \in Variants => Keeps(rows[v], DirectRows(rows[v]))
    BY RollupKeeps DEF RowsInv
  <2> HIDE DEF v
  <2> QED BY <2>1, <2>2, OneTimeline DEF Told
<1>6. ASSUME NEW w \in Workers, CreateDerived(w) PROVE RowsInv' /\ Told
  <2> DEFINE v == work[w].v
             t == Merged(rows[v], work[w].derived[v])
  <2>1. rows' = [rows EXCEPT ![v] = t] BY <1>6 DEF CreateDerived
  <2>2. v \in Variants => Keeps(rows[v], t) BY RollupKeeps DEF RowsInv
  <2> HIDE DEF v, t
  <2> QED BY <2>1, <2>2, OneTimeline DEF Told
<1>7. CASE Outside BY <1>1, <1>2, <1>3, <1>7, OutsideFrame
<1>8. ASSUME NEW r \in Requests, Request(r) PROVE RowsInv' /\ Told
  BY <1>1, <1>4, <1>8, RequestFrame
<1>9. ASSUME NEW w \in Workers, Rollup(w) PROVE RowsInv' /\ Told
  BY <1>1, <1>5, <1>6, <1>9, RollupFrame
<1> QED BY <1>7, <1>8, <1>9 DEF Next

-----------------------------------------------------------------------------
ToldIInv == now \in Instants /\ ToldInv

(* The invariant that the theorem rests on.                                *)
THEOREM ToldInvariant == Spec => []ToldIInv
<1>1. Init => ToldIInv
  <2>1. Init => now \in Instants BY InstantsAssumption DEF Init, Instants
  <2> QED BY <2>1, Initially DEF ToldIInv
<1>2. ToldIInv /\ [Next]_vars => ToldIInv'
  <2>1. CASE Next
    BY <2>1, PageStep, SentStep, NowStep, RowsStep DEF ToldIInv, ToldInv
  <2>2. CASE UNCHANGED vars
    BY <2>2 DEF vars, books, ToldIInv, ToldInv, RowsInv, PageInv
  <2> QED BY <2>1, <2>2
<1> QED BY <1>1, <1>2, PTL DEF Spec

(* Whatever is saved, synced, imported, mapped, rolled up or interrupted,  *)
(* a cost that was told stays told: DirectCostsSurvive.                    *)
THEOREM ToldCostsSurvive == Spec => DirectCostsSurvive
<1>1. ToldIInv /\ [Next]_vars => [Told]_vars
  BY RowsStep DEF ToldIInv
<1>2. Told <=> (\A v \in Variants, i \in Instants :
                   IsDirect(rows[v][i]) => IsDirect(rows'[v][i]))
  BY DEF Told
<1> QED BY <1>1, <1>2, ToldInvariant, PTL DEF Spec, DirectCostsSurvive, Told

-----------------------------------------------------------------------------
(* Timelines                                                               *)

Less == OpToRel(<, Nat)

LEMMA NatsHaveLeast ==
    ASSUME NEW S \in SUBSET Nat, S # {}
    PROVE  \E x \in S : \A y \in S : x <= y
<1>1. PICK x \in S : \A y \in S : ~(<<y, x>> \in Less)
  BY NatLessThanWellFounded, WFMin DEF Less
<1>2. \A y \in S : y < x => <<y, x>> \in Less BY DEF Less, OpToRel
<1>3. \A y \in S : ~(y < x) BY <1>1, <1>2
<1> QED BY <1>3

LEMMA LeastInstant ==
    ASSUME NEW S \in SUBSET Instants, S # {}
    PROVE  Min(S) \in S /\ \A y \in S : Min(S) <= y
<1>1. S \in SUBSET Nat BY InstantsAssumption DEF Instants
<1>2. \E x \in S : \A y \in S : x <= y BY <1>1, NatsHaveLeast
<1> QED BY <1>2 DEF Min

LEMMA LatestInstant ==
    ASSUME NEW S \in SUBSET Instants, S # {}
    PROVE  Max(S) \in S /\ \A y \in S : Max(S) >= y
<1> DEFINE ahead == {LastInstant - x : x \in S}
<1>1. LastInstant \in Nat /\ \A x \in S : x \in Nat /\ x <= LastInstant
  BY InstantsAssumption DEF Instants
<1>2. ahead \in SUBSET Nat /\ ahead # {} BY <1>1
<1>3. PICK t \in ahead : \A u \in ahead : t <= u
  <2> HIDE DEF ahead
  <2> QED BY <1>2, NatsHaveLeast
<1>4. PICK x \in S : t = LastInstant - x BY <1>3
<1>5. ASSUME NEW y \in S PROVE x >= y
  <2>1. LastInstant - x <= LastInstant - y BY <1>3, <1>4
  <2> QED BY <1>1, <2>1
<1>6. \E z \in S : \A y \in S : z >= y BY <1>5
<1> QED BY <1>6 DEF Max

(* Where two timelines first disagree: before that instant the cost in     *)
(* effect is the same, and where there is none it is the same throughout.  *)
LEMMA DivergenceIs ==
    ASSUME NEW a, NEW b
    PROVE  LET from == CostDivergenceFrom(a, b) IN
           /\ from \in Instants \cup {None}
           /\ \A i \in Instants : (from = None \/ i < from) =>
                CostEffectiveAt(a, i) = CostEffectiveAt(b, i)
<1> DEFINE moves == Breakpoints(a) \cup Breakpoints(b)
           differing == {i \in moves : CostEffectiveAt(a, i) # CostEffectiveAt(b, i)}
           from == CostDivergenceFrom(a, b)
           past(t, i) == {j \in Breakpoints(t) : j <= i}
<1>1. moves \subseteq Instants /\ differing \subseteq Instants
  BY DEF Breakpoints
<1>2. from = IF differing = {} THEN None ELSE Min(differing)
  BY DEF CostDivergenceFrom
<1>3. \A j \in Instants : j \in Nat BY InstantsAssumption DEF Instants
<1>4. \A t, i : CostEffectiveAt(t, i) =
                  IF past(t, i) = {} THEN None ELSE t[Max(past(t, i))].cost
  BY DEF CostEffectiveAt
<1> HIDE DEF differing, from
<1>5. differing # {} => /\ from \in differing
                        /\ \A y \in differing : from <= y
  BY <1>1, <1>2, LeastInstant
<1>6. ASSUME NEW i \in Instants, CostEffectiveAt(a, i) # CostEffectiveAt(b, i)
      PROVE  from # None /\ from <= i
  <2> DEFINE P == {j \in moves : j <= i}
  <2>1. P # {}
    <3>1. ASSUME P = {} PROVE past(a, i) = {} /\ past(b, i) = {} BY <3>1
    <3> QED BY <1>4, <1>6, <3>1
  <2>2. P \in SUBSET Instants BY <1>1
  <2> DEFINE m == Max(P)
  <2>3. m \in P /\ \A y \in P : m >= y
    <3> HIDE DEF P
    <3> QED BY <2>1, <2>2, LatestInstant
  <2> HIDE DEF m
  <2>4. \A j \in moves : j <= i <=> j <= m BY <1>1, <1>3, <2>3
  <2>5. past(a, i) = past(a, m) /\ past(b, i) = past(b, m) BY <2>4
  <2>6. CostEffectiveAt(a, m) # CostEffectiveAt(b, m)
    <3> HIDE DEF past
    <3> QED BY <1>4, <1>6, <2>5
  <2>7. m \in differing BY <2>3, <2>6 DEF differing
  <2>8. m <= i BY <2>3
  <2>9. from \in differing /\ from <= m BY <1>5, <2>7
  <2>10. from \in Nat /\ m \in Nat /\ i \in Nat BY <1>1, <1>3, <2>7, <2>9
  <2> QED BY <2>8, <2>9, <2>10, NoneAssumption
<1>7. from \in Instants \cup {None} BY <1>1, <1>2, <1>5
<1>8. \A i \in Instants : (from = None \/ i < from) =>
        CostEffectiveAt(a, i) = CostEffectiveAt(b, i)
  <2>1. ASSUME NEW i \in Instants, from = None \/ i < from
        PROVE  CostEffectiveAt(a, i) = CostEffectiveAt(b, i)
    <3>1. from # None => from \in Nat BY <1>3, <1>7
    <3>2. ~(from # None /\ from <= i) BY <1>3, <2>1, <3>1
    <3> QED BY <1>6, <3>2
  <2> QED BY <2>1
<1> QED BY <1>7, <1>8 DEF from

LEMMA EarlierIs ==
    ASSUME NEW a \in Instants \cup {None}, NEW b \in Instants \cup {None}
    PROVE  /\ Earlier(a, b) \in Instants \cup {None}
           /\ a # None => Earlier(a, b) # None /\ Earlier(a, b) <= a
           /\ b # None => Earlier(a, b) # None /\ Earlier(a, b) <= b
<1>1. \A i \in Instants : i \in Nat /\ i # None
  BY InstantsAssumption, NoneAssumption DEF Instants
<1>2. CASE a = None BY <1>1, <1>2 DEF Earlier
<1>3. CASE a # None /\ b = None BY <1>1, <1>3 DEF Earlier
<1>4. CASE a # None /\ b # None
  <2>1. {a, b} \in SUBSET Instants /\ {a, b} # {} BY <1>4
  <2>2. Min({a, b}) \in {a, b} /\ \A y \in {a, b} : Min({a, b}) <= y
    BY <2>1, LeastInstant
  <2>3. Earlier(a, b) = Min({a, b}) BY <1>4 DEF Earlier
  <2> QED BY <1>1, <1>4, <2>2, <2>3
<1> QED BY <1>2, <1>3, <1>4

-----------------------------------------------------------------------------
(* What a request and a worker hold, column by column                      *)

PageColumns == {"pc", "v", "at", "cost", "before"}
WorkColumns == {"pc", "edges", "holders", "derived", "todo", "v", "before",
                "after", "changed", "from"}

Saves    == {"save", "publish"}
Replaces == {"withdraw", "derive", "after", "publish"}

PageShape ==
    /\ DOMAIN page = Requests
    /\ \A r \in Requests :
         /\ DOMAIN page[r] = PageColumns
         /\ page[r].pc \in Saves => /\ page[r].v \in Variants
                                    /\ page[r].at \in Instants
                                    /\ page[r].cost \in Nat

WorkShape ==
    /\ DOMAIN work = Workers
    /\ \A w \in Workers :
         /\ DOMAIN work[w] = WorkColumns
         /\ work[w].pc \in Replaces => work[w].v \in Variants

BookShape == DOMAIN catalog = Variants /\ DOMAIN aligned = Variants

Shapes == ToldIInv /\ PageShape /\ WorkShape /\ BookShape

(* The steps of a request.                                                 *)
Begins(r) ==
    /\ page[r].pc = "idle" /\ page'[r].pc = "save"
    /\ page'[r].v \in Variants /\ page'[r].at \in Instants
    /\ page'[r].cost \in Nat /\ page'[r].before = rows[page'[r].v]
    /\ aligned' = Entering(page'[r].v)
    /\ UNCHANGED <<rows, catalog, disturbed>>

WritesDown(r) ==
    LET p == page[r] IN
    /\ p.pc = "save" /\ page'[r].pc = "publish"
    /\ page'[r].v = p.v /\ page'[r].at = p.at /\ page'[r].cost = p.cost
    /\ page'[r].before = p.before
    /\ rows' = [rows EXCEPT ![p.v] = Written(rows[p.v], p.at, p.cost, "MANUAL")]
    /\ UNCHANGED <<catalog, aligned, disturbed>>

Shows(r) ==
    LET p == page[r] IN
    /\ p.pc = "publish" /\ page'[r].pc = "idle"
    /\ catalog' = Published(p.v, p.before, Written(p.before, p.at, p.cost, "MANUAL"))
    /\ UNCHANGED <<rows, aligned, disturbed>>

Maps(r) == /\ page[r].pc \notin Saves /\ page'[r].pc \notin Saves
           /\ UNCHANGED <<rows, catalog, aligned, disturbed>>

GivesUp(r) ==
    /\ page'[r].pc = "idle" /\ disturbed'
    /\ aligned' = [v \in Variants |-> aligned[v] /\ r \notin Updating(v)]
    /\ UNCHANGED <<rows, catalog>>

LEMMA RequestSteps ==
    ASSUME Shapes, NEW r \in Requests, Request(r)
    PROVE  /\ DOMAIN page' = Requests
           /\ \A q \in Requests \ {r} : page'[q] = page[q]
           /\ DOMAIN page'[r] = PageColumns
           /\ UNCHANGED <<now, sent, work, reported>>
           /\ Begins(r) \/ WritesDown(r) \/ Shows(r) \/ Maps(r) \/ GivesUp(r)
<1>0. DOMAIN page = Requests /\ DOMAIN page[r] = PageColumns
  BY DEF Shapes, PageShape
<1>1. ASSUME NEW p, page' = [page EXCEPT ![r] = p], DOMAIN p = PageColumns
      PROVE  /\ DOMAIN page' = Requests /\ page'[r] = p
             /\ \A q \in Requests \ {r} : page'[q] = page[q]
             /\ DOMAIN page'[r] = PageColumns
  BY <1>0, <1>1
<1>2. DOMAIN IdlePage = PageColumns /\ IdlePage.pc = "idle"
  BY DEF IdlePage, PageColumns
<1>3. ASSUME NEW pc
      PROVE  LET p == [page[r] EXCEPT !.pc = pc] IN
             /\ DOMAIN p = PageColumns /\ p.pc = pc /\ p.v = page[r].v
             /\ p.at = page[r].at /\ p.cost = page[r].cost
             /\ p.before = page[r].before
  BY <1>0 DEF PageColumns
<1>4. ASSUME NEW v \in Variants, NEW at \in Instants, NEW c \in Costs,
             LoadBefore(r, v, at, c)
      PROVE  /\ UNCHANGED <<now, sent, work, reported>>
             /\ \E p : page' = [page EXCEPT ![r] = p] /\ DOMAIN p = PageColumns
             /\ Begins(r)
  <2> DEFINE new == [pc |-> "save", v |-> v, at |-> at, cost |-> c,
                     before |-> rows[v]]
  <2>1. /\ page[r].pc = "idle" /\ page' = [page EXCEPT ![r] = new]
        /\ aligned' = Entering(v)
        /\ UNCHANGED <<now, sent, work, reported, rows, catalog, disturbed>>
    BY <1>4, Zenon DEF LoadBefore, books
  <2>2. /\ DOMAIN new = PageColumns /\ new.pc = "save" /\ new.v = v
        /\ new.at = at /\ new.cost = c /\ new.before = rows[v]
    BY DEF PageColumns
  <2>3. c \in Nat BY NumbersAssumption
  <2> HIDE DEF new
  <2>4. page'[r] = new BY <1>1, <2>1, <2>2
  <2>5. Begins(r) BY <2>1, <2>2, <2>3, <2>4 DEF Begins
  <2> QED BY <2>1, <2>2, <2>5
<1>5. CASE SaveVersion(r)
  <2> DEFINE new == [page[r] EXCEPT !.pc = "publish"]
  <2>1. /\ page' = [page EXCEPT ![r] = new] /\ page[r].pc = "save"
        /\ rows' = [rows EXCEPT ![page[r].v] =
                      Written(rows[page[r].v], page[r].at, page[r].cost, "MANUAL")]
        /\ UNCHANGED <<now, sent, work, reported, catalog, aligned, disturbed>>
    BY <1>5 DEF SaveVersion
  <2>2. /\ DOMAIN new = PageColumns /\ new.pc = "publish" /\ new.v = page[r].v
        /\ new.at = page[r].at /\ new.cost = page[r].cost
        /\ new.before = page[r].before
    BY <1>3
  <2> HIDE DEF new
  <2>3. WritesDown(r) BY <1>1, <2>1, <2>2 DEF WritesDown
  <2> QED BY <1>1, <2>1, <2>2, <2>3
<1>6. CASE PublishSaved(r)
  <2>1. /\ page' = [page EXCEPT ![r] = IdlePage] /\ page[r].pc = "publish"
        /\ catalog' = Published(page[r].v, page[r].before,
              Written(page[r].before, page[r].at, page[r].cost, "MANUAL"))
        /\ UNCHANGED <<now, sent, work, reported, rows, aligned, disturbed>>
    BY <1>6 DEF PublishSaved, ghosts
  <2>2. Shows(r) BY <1>1, <1>2, <2>1 DEF Shows
  <2> QED BY <1>1, <1>2, <2>1, <2>2
<1>7. ASSUME NEW p, NEW e, Map(r, p, e)
      PROVE  /\ UNCHANGED <<now, sent, work, reported>>
             /\ \E q : page' = [page EXCEPT ![r] = q] /\ DOMAIN q = PageColumns
             /\ Maps(r)
  <2> DEFINE new == [page[r] EXCEPT !.pc = "enqueue"]
  <2>1. /\ page' = [page EXCEPT ![r] = new] /\ page[r].pc = "idle"
        /\ UNCHANGED <<now, sent, work, reported, rows, catalog, aligned, disturbed>>
    BY <1>7 DEF Map, ghosts
  <2>2. DOMAIN new = PageColumns /\ new.pc = "enqueue" BY <1>3
  <2> HIDE DEF new
  <2>3. Maps(r) BY <1>1, <2>1, <2>2 DEF Maps, Saves
  <2> QED BY <2>1, <2>2, <2>3
<1>8. ASSUME \/ \E p \in Mappable, q \in Quantities : UpsertMapping(r, p, q)
             \/ \E p \in Mappable : ConfirmMapping(r, p) \/ RemoveMapping(r, p)
      PROVE  \E p, e : Map(r, p, e)
  BY <1>8 DEF UpsertMapping, ConfirmMapping, RemoveMapping
<1>9. CASE EnqueueRollup(r)
  <2>1. /\ page' = [page EXCEPT ![r] = IdlePage] /\ page[r].pc = "enqueue"
        /\ UNCHANGED <<now, sent, work, reported, rows, catalog, aligned, disturbed>>
    BY <1>9 DEF EnqueueRollup, books, ghosts
  <2>2. Maps(r) BY <1>1, <1>2, <2>1 DEF Maps, Saves
  <2> QED BY <1>1, <1>2, <2>1, <2>2
<1>10. CASE RequestDies(r)
  <2>1. /\ page' = [page EXCEPT ![r] = IdlePage] /\ disturbed'
        /\ aligned' = [v \in Variants |-> aligned[v] /\ r \notin Updating(v)]
        /\ UNCHANGED <<now, sent, work, reported, rows, catalog>>
    BY <1>10 DEF RequestDies, books
  <2>2. GivesUp(r) BY <1>1, <1>2, <2>1 DEF GivesUp
  <2> QED BY <1>1, <1>2, <2>1, <2>2
<1>11. CASE \E v \in Variants, at \in Instants, c \in Costs : LoadBefore(r, v, at, c)
  BY <1>1, <1>4, <1>11
<1>12. CASE \E p, e : Map(r, p, e) BY <1>1, <1>7, <1>12
<1> QED
  BY <1>5, <1>6, <1>8, <1>9, <1>10, <1>11, <1>12 DEF Request

(* The steps of a worker.                                                  *)
SameColumns(a, b) == /\ a.v = b.v /\ a.todo = b.todo /\ a.before = b.before
                     /\ a.after = b.after /\ a.changed = b.changed /\ a.from = b.from

Starts(w) ==
    LET k == work'[w] IN
    /\ work[w].pc = "idle" /\ k.pc = "edges"
    /\ k.changed = {} /\ k.from = None
    /\ UNCHANGED <<rows, catalog, aligned, reported, disturbed>>

Reads(w) ==
    LET k == work'[w] IN
    /\ \/ /\ work[w].pc = "edges" /\ k.pc = "holders"
          /\ disturbed' = (disturbed \/ ~Alone(w))
       \/ /\ work[w].pc \in {"holders", "base"} /\ k.pc \in {"base", "next", "complete"}
          /\ disturbed' = disturbed
    /\ k.changed = work[w].changed /\ k.from = work[w].from
    /\ UNCHANGED <<rows, catalog, aligned, reported>>

Takes(w) ==
    LET k == work'[w] IN
    /\ work[w].pc = "next" /\ k.pc = "withdraw"
    /\ k.v \in Variants /\ k.v \in work[w].todo /\ k.todo = work[w].todo \ {k.v}
    /\ k.before = rows[k.v] /\ k.changed = work[w].changed /\ k.from = work[w].from
    /\ aligned' = Entering(k.v)
    /\ UNCHANGED <<rows, catalog, reported, disturbed>>

Rewrites(w) ==
    LET v == work[w].v IN
    /\ SameColumns(work'[w], work[w])
    /\ \/ /\ work[w].pc = "withdraw" /\ work'[w].pc = "derive"
          /\ rows' = [rows EXCEPT ![v] = DirectRows(rows[v])]
       \/ /\ work[w].pc = "derive" /\ work'[w].pc = "after"
          /\ rows' = [rows EXCEPT ![v] = Merged(rows[v], work[w].derived[v])]
    /\ UNCHANGED <<catalog, aligned, reported, disturbed>>

Looks(w) ==
    LET k == work'[w] IN
    /\ work[w].pc = "after" /\ k.pc = "publish"
    /\ k.v = work[w].v /\ k.todo = work[w].todo /\ k.before = work[w].before
    /\ k.after = rows[work[w].v] /\ k.changed = work[w].changed
    /\ k.from = work[w].from
    /\ UNCHANGED <<rows, catalog, aligned, reported, disturbed>>

Follows(w) ==
    LET k == work[w]
        from == CostDivergenceFrom(k.before, k.after) IN
    /\ k.pc = "publish" /\ work'[w].pc = "next"
    /\ catalog' = Published(k.v, k.before, k.after)
    /\ work'[w].todo = k.todo
    /\ work'[w].changed = IF from = None THEN k.changed ELSE k.changed \cup {k.v}
    /\ work'[w].from = Earlier(k.from, from)
    /\ UNCHANGED <<rows, aligned, reported, disturbed>>

Reports(w) ==
    LET k == work[w] IN
    /\ k.pc = "next" /\ k.todo = {} /\ work'[w].pc = "complete"
    /\ reported' = [v \in Variants |-> [i \in Instants |->
                      IF v \in k.changed /\ i >= k.from
                      THEN CostEffectiveAt(rows[v], i) ELSE reported[v][i]]]
    /\ UNCHANGED <<rows, catalog, aligned, disturbed>>

Ends(w) == /\ work[w].pc = "complete" /\ work'[w].pc = "idle"
           /\ UNCHANGED <<rows, catalog, aligned, reported, disturbed>>

Dies(w) ==
    /\ work'[w].pc = "idle" /\ disturbed'
    /\ aligned' = [v \in Variants |-> aligned[v] /\ w \notin Updating(v)]
    /\ UNCHANGED <<rows, catalog, reported>>

RollupStep(w) ==
    \/ Starts(w) \/ Reads(w) \/ Takes(w) \/ Rewrites(w) \/ Looks(w)
    \/ Follows(w) \/ Reports(w) \/ Ends(w) \/ Dies(w)

LEMMA RollupSteps ==
    ASSUME Shapes, NEW w \in Workers, Rollup(w)
    PROVE  /\ DOMAIN work' = Workers
           /\ \A x \in Workers \ {w} : work'[x] = work[x]
           /\ DOMAIN work'[w] = WorkColumns
           /\ UNCHANGED <<now, sent, page>>
           /\ RollupStep(w)
<1> DEFINE k == work[w]
<1>0. DOMAIN work = Workers /\ DOMAIN k = WorkColumns
  BY DEF Shapes, WorkShape
<1>1. ASSUME NEW n, work' = [work EXCEPT ![w] = n], DOMAIN n = WorkColumns
      PROVE  /\ DOMAIN work' = Workers /\ work'[w] = n
             /\ \A x \in Workers \ {w} : work'[x] = work[x]
             /\ DOMAIN work'[w] = WorkColumns
  BY <1>0, <1>1
<1> HIDE DEF k
<1>2. /\ DOMAIN IdleWork = WorkColumns /\ IdleWork.pc = "idle"
      /\ IdleWork.changed = {} /\ IdleWork.from = None
  BY DEF IdleWork, WorkColumns
<1>3. CASE Lease(w)
  <2> DEFINE n == [IdleWork EXCEPT !.pc = "edges"]
  <2>1. /\ work' = [work EXCEPT ![w] = n] /\ work[w].pc = "idle"
        /\ UNCHANGED <<now, sent, page, rows, catalog, aligned, reported, disturbed>>
    BY <1>3 DEF Lease, books, ghosts
  <2>2. /\ DOMAIN n = WorkColumns /\ n.pc = "edges" /\ n.changed = {} /\ n.from = None
    BY <1>2 DEF WorkColumns
  <2> HIDE DEF n
  <2>3. Starts(w) BY <1>1, <2>1, <2>2 DEF Starts
  <2> QED BY <1>1, <2>1, <2>2, <2>3 DEF RollupStep
<1>4. CASE LoadConfirmedEdges(w)
  <2> DEFINE n == [k EXCEPT !.pc = "holders", !.edges = ConfirmedEdges]
  <2>1. /\ work' = [work EXCEPT ![w] = n] /\ work[w].pc = "edges"
        /\ disturbed' = (disturbed \/ ~Alone(w))
        /\ UNCHANGED <<now, sent, page, rows, catalog, aligned, reported>>
    BY <1>0, <1>4 DEF LoadConfirmedEdges, books, k
  <2>2. /\ DOMAIN n = WorkColumns /\ n.pc = "holders" /\ n.changed = k.changed
        /\ n.from = k.from
    BY <1>0 DEF WorkColumns
  <2> HIDE DEF n
  <2>3. Reads(w) BY <1>1, <2>1, <2>2 DEF Reads, k
  <2> QED BY <1>1, <2>1, <2>2, <2>3 DEF RollupStep
<1>5. CASE LoadDerivedHolders(w)
  <2> DEFINE pc == IF k.edges = {} /\ DerivedHolders = {} THEN "complete" ELSE "base"
             n == [k EXCEPT !.holders = DerivedHolders, !.pc = pc]
  <2>1. /\ work' = [work EXCEPT ![w] = n] /\ work[w].pc = "holders"
        /\ UNCHANGED <<now, sent, page, rows, catalog, aligned, reported, disturbed>>
    BY <1>0, <1>5 DEF LoadDerivedHolders, books, ghosts, k
  <2>2. /\ DOMAIN n = WorkColumns /\ n.pc = pc /\ n.changed = k.changed
        /\ n.from = k.from
    BY <1>0 DEF WorkColumns
  <2>3. pc \in {"base", "complete"} OBVIOUS
  <2> HIDE DEF n, pc
  <2>4. Reads(w) BY <1>1, <2>1, <2>2, <2>3 DEF Reads, k
  <2> QED BY <1>1, <2>1, <2>2, <2>4 DEF RollupStep
<1>6. CASE LoadBaseTimelines(w)
  <2> DEFINE bundles == {e.bundle : e \in k.edges}
             resolved == ResolveBundleCostTimelines(k.edges, BaseTimelines)
             derived == [v \in Variants |-> IF v \in bundles THEN resolved[v] ELSE Empty]
             n == [k EXCEPT !.derived = derived, !.todo = bundles \cup k.holders,
                            !.edges = {}, !.holders = {}, !.pc = "next"]
  <2>1. /\ work[w].pc = "base"
        /\ work' = [work EXCEPT ![w].derived = derived,
                                ![w].todo = bundles \cup k.holders,
                                ![w].edges = {}, ![w].holders = {}, ![w].pc = "next"]
        /\ UNCHANGED <<now, sent, page, rows, catalog, aligned, reported, disturbed>>
    BY <1>6, Zenon DEF LoadBaseTimelines, books, ghosts, k
  <2> HIDE DEF derived, bundles
  <2>2. work' = [work EXCEPT ![w] = n] BY <1>0, <2>1 DEF k, WorkColumns
  <2>3. /\ DOMAIN n = WorkColumns /\ n.pc = "next" /\ n.changed = k.changed
        /\ n.from = k.from
    BY <1>0 DEF WorkColumns
  <2> HIDE DEF n
  <2>4. Reads(w) BY <1>1, <2>1, <2>2, <2>3 DEF Reads, k
  <2> QED BY <1>1, <2>1, <2>2, <2>3, <2>4 DEF RollupStep
<1>7. ASSUME NEW v \in Variants, LoadPack(w, v)
      PROVE  /\ UNCHANGED <<now, sent, page>> /\ RollupStep(w)
             /\ \E n : work' = [work EXCEPT ![w] = n] /\ DOMAIN n = WorkColumns
  <2> DEFINE n == [k EXCEPT !.v = v, !.todo = @ \ {v}, !.before = rows[v],
                            !.pc = "withdraw"]
  <2>1. /\ work' = [work EXCEPT ![w] = n] /\ k.pc = "next" /\ v \in k.todo
        /\ aligned' = Entering(v)
        /\ UNCHANGED <<now, sent, page, rows, catalog, reported, disturbed>>
    BY <1>0, <1>7 DEF LoadPack, books, k
  <2>2. /\ DOMAIN n = WorkColumns /\ n.pc = "withdraw" /\ n.v = v
        /\ n.todo = k.todo \ {v} /\ n.before = rows[v] /\ n.changed = k.changed
        /\ n.from = k.from
    BY <1>0 DEF WorkColumns
  <2> HIDE DEF n
  <2>3. Takes(w) BY <1>1, <2>1, <2>2 DEF Takes, k
  <2> QED BY <2>1, <2>2, <2>3 DEF RollupStep
<1>8. CASE WithdrawDerived(w)
  <2> DEFINE n == [k EXCEPT !.pc = "derive"]
  <2>1. /\ work' = [work EXCEPT ![w] = n] /\ k.pc = "withdraw"
        /\ rows' = [rows EXCEPT ![k.v] = DirectRows(rows[k.v])]
        /\ UNCHANGED <<now, sent, page, catalog, aligned, reported, disturbed>>
    BY <1>8 DEF WithdrawDerived, ghosts, k
  <2>2. /\ DOMAIN n = WorkColumns /\ n.pc = "derive" /\ SameColumns(n, k)
    BY <1>0 DEF WorkColumns, SameColumns
  <2> HIDE DEF n
  <2>3. Rewrites(w) BY <1>1, <2>1, <2>2 DEF Rewrites, k
  <2> QED BY <1>1, <2>1, <2>2, <2>3 DEF RollupStep
<1>9. CASE CreateDerived(w)
  <2> DEFINE d == [k.derived EXCEPT ![k.v] = Empty]
             n == [k EXCEPT !.derived = d, !.pc = "after"]
  <2>1. /\ k.pc = "derive"
        /\ work' = [work EXCEPT ![w].derived[k.v] = Empty, ![w].pc = "after"]
        /\ rows' = [rows EXCEPT ![k.v] = Merged(rows[k.v], k.derived[k.v])]
        /\ UNCHANGED <<now, sent, page, catalog, aligned, reported, disturbed>>
    BY <1>9 DEF CreateDerived, ghosts, k
  <2>2. work' = [work EXCEPT ![w] = n] BY <1>0, <2>1 DEF k, WorkColumns
  <2> HIDE DEF d
  <2>3. /\ DOMAIN n = WorkColumns /\ n.pc = "after" /\ SameColumns(n, k)
    BY <1>0 DEF WorkColumns, SameColumns
  <2> HIDE DEF n
  <2>4. Rewrites(w) BY <1>1, <2>1, <2>2, <2>3 DEF Rewrites, k
  <2> QED BY <1>1, <2>1, <2>2, <2>3, <2>4 DEF RollupStep
<1>10. CASE LoadAfter(w)
  <2> DEFINE n == [k EXCEPT !.after = rows[k.v], !.pc = "publish"]
  <2>1. /\ work' = [work EXCEPT ![w] = n] /\ k.pc = "after"
        /\ UNCHANGED <<now, sent, page, rows, catalog, aligned, reported, disturbed>>
    BY <1>0, <1>10 DEF LoadAfter, books, ghosts, k
  <2>2. /\ DOMAIN n = WorkColumns /\ n.pc = "publish" /\ n.v = k.v
        /\ n.todo = k.todo /\ n.before = k.before /\ n.after = rows[k.v]
        /\ n.changed = k.changed /\ n.from = k.from
    BY <1>0 DEF WorkColumns
  <2> HIDE DEF n
  <2>3. Looks(w) BY <1>1, <2>1, <2>2 DEF Looks, k
  <2> QED BY <1>1, <2>1, <2>2, <2>3 DEF RollupStep
<1>11. CASE PublishPack(w)
  <2> DEFINE from == CostDivergenceFrom(k.before, k.after)
             changed == IF from = None THEN k.changed ELSE k.changed \cup {k.v}
             n == [k EXCEPT !.pc = "next", !.v = None, !.before = Empty,
                            !.after = Empty, !.changed = changed,
                            !.from = Earlier(k.from, from)]
  <2>1. /\ k.pc = "publish"
        /\ work' = [work EXCEPT ![w].pc = "next", ![w].v = None,
                            ![w].before = Empty, ![w].after = Empty,
                            ![w].changed = IF from = None THEN @ ELSE @ \cup {k.v},
                            ![w].from = Earlier(@, from)]
        /\ catalog' = Published(k.v, k.before, k.after)
        /\ UNCHANGED <<now, sent, page, rows, aligned, reported, disturbed>>
    BY <1>11, Zenon DEF PublishPack, ghosts, k
  <2> HIDE DEF from
  <2>2. work' = [work EXCEPT ![w] = n] BY <1>0, <2>1 DEF k, WorkColumns
  <2> HIDE DEF changed
  <2>3. /\ DOMAIN n = WorkColumns /\ n.pc = "next" /\ n.todo = k.todo
        /\ n.changed = changed /\ n.from = Earlier(k.from, from)
    BY <1>0 DEF WorkColumns
  <2> HIDE DEF n
  <2>4. Follows(w) BY <1>1, <2>1, <2>2, <2>3 DEF Follows, k, from, changed
  <2> QED BY <1>1, <2>1, <2>2, <2>3, <2>4 DEF RollupStep
<1>12. CASE HandOver(w)
  <2> DEFINE n == [k EXCEPT !.pc = "complete"]
  <2>1. /\ work' = [work EXCEPT ![w] = n] /\ k.pc = "next" /\ k.todo = {}
        /\ reported' = [v \in Variants |-> [i \in Instants |->
                          IF v \in k.changed /\ i >= k.from
                          THEN CostEffectiveAt(rows[v], i) ELSE reported[v][i]]]
        /\ UNCHANGED <<now, sent, page, rows, catalog, aligned, disturbed>>
    BY <1>12, Zenon DEF HandOver, books, k
  <2>2. DOMAIN n = WorkColumns /\ n.pc = "complete" BY <1>0 DEF WorkColumns
  <2> HIDE DEF n
  <2>3. work'[w].pc = "complete" BY <1>1, <2>1, <2>2
  <2>4. Reports(w) BY <2>1, <2>3, Zenon DEF Reports, k
  <2> QED BY <1>1, <2>1, <2>2, <2>4 DEF RollupStep
<1>13. CASE Complete(w)
  <2>1. /\ work' = [work EXCEPT ![w] = IdleWork] /\ k.pc = "complete"
        /\ UNCHANGED <<now, sent, page, rows, catalog, aligned, reported, disturbed>>
    BY <1>13 DEF Complete, books, ghosts, k
  <2>2. Ends(w) BY <1>1, <1>2, <2>1 DEF Ends, k
  <2> QED BY <1>1, <1>2, <2>1, <2>2 DEF RollupStep
<1>14. CASE WorkerDies(w)
  <2>1. /\ work' = [work EXCEPT ![w] = IdleWork] /\ disturbed'
        /\ aligned' = [v \in Variants |-> aligned[v] /\ w \notin Updating(v)]
        /\ UNCHANGED <<now, sent, page, rows, catalog, reported>>
    BY <1>14 DEF WorkerDies, books
  <2>2. Dies(w) BY <1>1, <1>2, <2>1 DEF Dies
  <2> QED BY <1>1, <1>2, <2>1, <2>2 DEF RollupStep
<1>15. CASE \E v \in Variants : LoadPack(w, v) BY <1>1, <1>7, <1>15
<1> QED
  BY <1>3, <1>4, <1>5, <1>6, <1>8, <1>9, <1>10, <1>11, <1>12, <1>13, <1>14, <1>15
  DEF Rollup

(* Shopify, the import and the clock.                                      *)
OutsideStep ==
    /\ UNCHANGED <<page, work, reported, disturbed>>
    /\ \/ UNCHANGED <<now, rows, catalog, aligned>>
       \/ aligned' = Realigned(catalog', rows', now')
    /\ \/ UNCHANGED rows
       \/ \E f \in sent :
            \/ rows' = [rows EXCEPT ![f.variant] = Observed(rows[f.variant], f)]
            \/ rows' = [rows EXCEPT ![f.variant] = Seeded(rows[f.variant], f.cost)]

LEMMA OutsideSteps ==
    ASSUME Shapes, Outside
    PROVE  OutsideStep /\ DOMAIN catalog' = Variants
<1>0. DOMAIN catalog = Variants BY DEF Shapes, BookShape
<1>1. CASE Tick BY <1>0, <1>1 DEF Tick, books, OutsideStep
<1>2. ASSUME NEW v \in Variants, NEW c \in Costs \cup {None}, InventoryChanges(v, c)
      PROVE  OutsideStep /\ DOMAIN catalog' = Variants
  BY <1>0, <1>2 DEF InventoryChanges, books, ghosts, OutsideStep
<1>3. ASSUME NEW f \in sent, SyncProduct(f)
      PROVE  OutsideStep /\ DOMAIN catalog' = Variants
  <2>1. /\ UNCHANGED <<page, work, reported, disturbed, now>>
        /\ aligned' = Realigned(catalog', rows', now)
        /\ rows' = [rows EXCEPT ![f.variant] = Observed(rows[f.variant], f)]
        /\ DOMAIN catalog' = Variants
    BY <1>0, <1>3 DEF SyncProduct
  <2> QED BY <2>1 DEF OutsideStep, Realigned
<1>4. ASSUME NEW f \in sent, ImportProduct(f)
      PROVE  OutsideStep /\ DOMAIN catalog' = Variants
  <2>1. /\ UNCHANGED <<page, work, reported, disturbed, now>>
        /\ aligned' = Realigned(catalog', rows', now)
        /\ rows' = [rows EXCEPT ![f.variant] = Seeded(rows[f.variant], f.cost)]
        /\ DOMAIN catalog' = Variants
    BY <1>0, <1>4 DEF ImportProduct
  <2> QED BY <2>1 DEF OutsideStep, Realigned
<1>5. CASE DetectBundles BY <1>0, <1>5 DEF DetectBundles, ghosts, OutsideStep
<1> QED BY <1>1, <1>2, <1>3, <1>4, <1>5 DEF Outside

LEMMA ShapesInit == Init => Shapes
<1> SUFFICES ASSUME Init PROVE Shapes OBVIOUS
<1>1. ToldIInv
  <2>1. now \in Instants BY InstantsAssumption DEF Init, Instants
  <2> QED BY <2>1, Initially DEF ToldIInv
<1>2. PageShape
  <2>1. page = [r \in Requests |-> IdlePage] BY DEF Init
  <2> QED BY <2>1 DEF PageShape, IdlePage, PageColumns, Saves
<1>3. WorkShape
  <2>1. work = [w \in Workers |-> IdleWork] BY DEF Init
  <2> QED BY <2>1 DEF WorkShape, IdleWork, WorkColumns, Replaces
<1>4. BookShape BY DEF Init, BookShape
<1> QED BY <1>1, <1>2, <1>3, <1>4 DEF Shapes

LEMMA ShapesKept == Shapes /\ [Next]_vars => Shapes'
<1> SUFFICES ASSUME Shapes, [Next]_vars PROVE Shapes' OBVIOUS
<1>0. ToldIInv /\ PageShape /\ WorkShape /\ BookShape BY DEF Shapes
<1>1. CASE UNCHANGED vars
  <2>1. UNCHANGED <<now, rows, catalog, aligned, sent, page, work>>
    BY <1>1 DEF vars, books, ghosts
  <2> QED
    BY <1>0, <2>1 DEF Shapes, ToldIInv, ToldInv, RowsInv, PageInv, PageShape,
                      WorkShape, BookShape
<1>2. CASE Next
  <2>1. ToldIInv'
    BY <1>0, <1>2, PageStep, SentStep, NowStep, RowsStep DEF ToldIInv, ToldInv
  <2>2. \A v, a, b : DOMAIN Published(v, a, b) = Variants
    BY <1>0 DEF Published, BookShape
  <2>3. \A v : DOMAIN Entering(v) = Variants
    BY <1>0 DEF Entering, BookShape
  <2>4. CASE Outside
    <3>1. OutsideStep /\ DOMAIN catalog' = Variants BY <2>4, OutsideSteps
    <3>2. PageShape' /\ WorkShape' BY <1>0, <3>1 DEF OutsideStep, PageShape, WorkShape
    <3>3. DOMAIN aligned' = Variants
      BY <1>0, <3>1 DEF OutsideStep, Realigned, BookShape
    <3> QED BY <2>1, <3>1, <3>2, <3>3 DEF Shapes, BookShape
  <2>5. ASSUME NEW r \in Requests, Request(r) PROVE Shapes'
    <3>1. /\ DOMAIN page' = Requests /\ DOMAIN page'[r] = PageColumns
          /\ \A q \in Requests \ {r} : page'[q] = page[q]
          /\ UNCHANGED work
          /\ Begins(r) \/ WritesDown(r) \/ Shows(r) \/ Maps(r) \/ GivesUp(r)
      BY <2>5, RequestSteps
    <3>2. page'[r].pc \in Saves => /\ page'[r].v \in Variants
                                  /\ page'[r].at \in Instants
                                  /\ page'[r].cost \in Nat
      BY <1>0, <3>1 DEF Begins, WritesDown, Shows, Maps, GivesUp, Saves, PageShape
    <3>3. PageShape' BY <1>0, <3>1, <3>2 DEF PageShape
    <3>4. WorkShape' BY <1>0, <3>1 DEF WorkShape
    <3>5. BookShape'
      BY <1>0, <2>2, <2>3, <3>1
      DEF Begins, WritesDown, Shows, Maps, GivesUp, BookShape
    <3> QED BY <2>1, <3>3, <3>4, <3>5 DEF Shapes
  <2>6. ASSUME NEW w \in Workers, Rollup(w) PROVE Shapes'
    <3>1. /\ DOMAIN work' = Workers /\ DOMAIN work'[w] = WorkColumns
          /\ \A x \in Workers \ {w} : work'[x] = work[x]
          /\ UNCHANGED page
          /\ RollupStep(w)
      BY <2>6, RollupSteps
    <3>2. work'[w].pc \in Replaces => work'[w].v \in Variants
      BY <1>0, <3>1 DEF RollupStep, Starts, Reads, Takes, Rewrites, Looks, Follows,
                        Reports, Ends, Dies, SameColumns, Replaces, WorkShape
    <3>3. WorkShape' BY <1>0, <3>1, <3>2 DEF WorkShape
    <3>4. PageShape' BY <1>0, <3>1 DEF PageShape
    <3>5. BookShape'
      BY <1>0, <2>2, <2>3, <3>1
      DEF RollupStep, Starts, Reads, Takes, Rewrites, Looks, Follows, Reports,
          Ends, Dies, BookShape
    <3> QED BY <2>1, <3>3, <3>4, <3>5 DEF Shapes
  <2> QED BY <1>2, <2>4, <2>5, <2>6 DEF Next
<1> QED BY <1>1, <1>2

-----------------------------------------------------------------------------
(* The catalogue and the timeline's head                                   *)

Saving(r, v)    == page[r].v = v /\ page[r].pc \in Saves
Replacing(w, v) == work[w].v = v /\ work[w].pc \in Replaces

(* A variant that one writer at a time has written: what its writer first  *)
(* read had the catalogue's cost as its head, and the timeline is that,    *)
(* with what the writer has put into it.                                   *)
AlignAt(v) ==
    /\ ((\A r \in Requests : ~Saving(r, v)) /\ (\A w \in Workers : ~Replacing(w, v)))
          => catalog[v] = CostEffectiveAt(rows[v], now)
    /\ \A r \in Requests : Saving(r, v) =>
         /\ \A q \in Requests : Saving(q, v) => q = r
         /\ \A w \in Workers : ~Replacing(w, v)
         /\ catalog[v] = CostEffectiveAt(page[r].before, now)
         /\ page[r].pc = "save" => rows[v] = page[r].before
         /\ page[r].pc = "publish" =>
              rows[v] = Written(page[r].before, page[r].at, page[r].cost, "MANUAL")
    /\ \A w \in Workers : Replacing(w, v) =>
         /\ \A x \in Workers : Replacing(x, v) => x = w
         /\ catalog[v] = CostEffectiveAt(work[w].before, now)
         /\ work[w].pc = "publish" => rows[v] = work[w].after

AlignInv == \A v \in Variants : aligned[v] => AlignAt(v)

LEMMA UpdatingIs ==
    ASSUME NEW v
    PROVE  /\ Updating(v) = {} <=> /\ \A r \in Requests : ~Saving(r, v)
                                   /\ \A w \in Workers : ~Replacing(w, v)
           /\ \A r \in Requests : Saving(r, v) => r \in Updating(v)
           /\ \A w \in Workers : Replacing(w, v) => w \in Updating(v)
BY DEF Updating, Saving, Replacing, Saves, Replaces

(* A step that leaves a variant and its writers alone.                     *)
LEMMA AlignStays ==
    ASSUME NEW v \in Variants, AlignAt(v),
           rows'[v] = rows[v], catalog'[v] = catalog[v], now' = now,
           \A r \in Requests : \/ page'[r] = page[r]
                               \/ ~Saving(r, v) /\ ~Saving(r, v)',
           \A w \in Workers : \/ work'[w] = work[w]
                              \/ ~Replacing(w, v) /\ ~Replacing(w, v)'
    PROVE  AlignAt(v)'
<1>1. \A r \in Requests : /\ Saving(r, v)' <=> Saving(r, v)
                          /\ Saving(r, v) => page'[r] = page[r]
  BY DEF Saving
<1>2. \A w \in Workers : /\ Replacing(w, v)' <=> Replacing(w, v)
                         /\ Replacing(w, v) => work'[w] = work[w]
  BY DEF Replacing
<1> QED BY <1>1, <1>2 DEF AlignAt

LEMMA PublishedIs ==
    ASSUME Shapes, NEW u \in Variants, NEW a, NEW b, catalog' = Published(u, a, b)
    PROVE  /\ catalog[u] = CostEffectiveAt(a, now) =>
                catalog'[u] = CostEffectiveAt(b, now)
           /\ \A v \in Variants \ {u} : catalog'[v] = catalog[v]
BY DEF Published, Shapes, BookShape

LEMMA EnteringIs ==
    ASSUME Shapes, NEW u \in Variants, aligned' = Entering(u)
    PROVE  /\ aligned'[u] => aligned[u] /\ Updating(u) = {}
           /\ \A v \in Variants \ {u} : aligned'[v] = aligned[v]
BY DEF Entering, Shapes, BookShape

LEMMA AlignRequest ==
    ASSUME Shapes, AlignInv, NEW r \in Requests, Request(r)
    PROVE  AlignInv'
<1>1. /\ \A q \in Requests \ {r} : page'[q] = page[q]
      /\ now' = now /\ work' = work
      /\ Begins(r) \/ WritesDown(r) \/ Shows(r) \/ Maps(r) \/ GivesUp(r)
  BY RequestSteps
<1>2. DOMAIN rows = Variants /\ (page[r].pc \in Saves => page[r].v \in Variants)
  BY DEF Shapes, ToldIInv, ToldInv, RowsInv, PageShape
<1> SUFFICES ASSUME NEW v \in Variants, aligned'[v] PROVE AlignAt(v)'
  BY DEF AlignInv
<1>3. ASSUME aligned[v], rows'[v] = rows[v], catalog'[v] = catalog[v],
             ~Saving(r, v), ~Saving(r, v)'
      PROVE  AlignAt(v)'
  BY <1>1, <1>3, AlignStays DEF AlignInv
<1>4. CASE Begins(r)
  <2> DEFINE u == page'[r].v
  <2>1. /\ page[r].pc = "idle" /\ page'[r].pc = "save" /\ u \in Variants
        /\ page'[r].before = rows[u] /\ aligned' = Entering(u)
        /\ UNCHANGED <<rows, catalog>>
    BY <1>4 DEF Begins
  <2>2. CASE v = u
    <3>1. aligned[v] /\ Updating(v) = {} BY <2>1, <2>2, EnteringIs
    <3>2. catalog[v] = CostEffectiveAt(rows[v], now)
      BY <3>1, UpdatingIs DEF AlignInv, AlignAt
    <3>3. /\ \A q \in Requests \ {r} : ~Saving(q, v)'
          /\ \A w \in Workers : ~Replacing(w, v)'
      BY <1>1, <3>1, UpdatingIs DEF Saving, Replacing
    <3>4. Saving(r, v)' BY <2>1, <2>2 DEF Saving, Saves
    <3> QED BY <1>1, <2>1, <2>2, <3>2, <3>3, <3>4 DEF AlignAt
  <2>3. CASE v # u
    <3>1. aligned[v] BY <2>1, <2>3, EnteringIs
    <3> QED BY <1>3, <2>1, <2>3, <3>1 DEF Saving, Saves
  <2> QED BY <2>2, <2>3
<1>5. CASE WritesDown(r)
  <2> DEFINE p == page[r]
  <2>1. /\ p.pc = "save" /\ page'[r].pc = "publish" /\ page'[r].v = p.v
        /\ page'[r].at = p.at /\ page'[r].cost = p.cost /\ page'[r].before = p.before
        /\ rows' = [rows EXCEPT ![p.v] = Written(rows[p.v], p.at, p.cost, "MANUAL")]
        /\ UNCHANGED <<catalog, aligned>>
    BY <1>5 DEF WritesDown
  <2>2. AlignAt(v) BY <2>1 DEF AlignInv
  <2>3. CASE v = p.v
    <3>1. Saving(r, v) /\ Saving(r, v)' BY <2>1, <2>3 DEF Saving, Saves
    <3>2. /\ \A q \in Requests : Saving(q, v) => q = r
          /\ \A w \in Workers : ~Replacing(w, v)
          /\ catalog[v] = CostEffectiveAt(p.before, now) /\ rows[v] = p.before
      BY <2>1, <2>2, <3>1 DEF AlignAt
    <3>3. /\ \A q \in Requests : Saving(q, v)' => q = r
          /\ \A w \in Workers : ~Replacing(w, v)'
      BY <1>1, <3>2 DEF Saving, Replacing
    <3>4. rows'[v] = Written(p.before, p.at, p.cost, "MANUAL")
      BY <1>2, <2>1, <2>3, <3>2 DEF Saves
    <3> QED BY <1>1, <2>1, <3>1, <3>2, <3>3, <3>4 DEF AlignAt
  <2>4. CASE v # p.v BY <1>2, <1>3, <2>1, <2>4 DEF Saving
  <2> QED BY <2>3, <2>4
<1>6. CASE Shows(r)
  <2> DEFINE p == page[r]
             new == Written(p.before, p.at, p.cost, "MANUAL")
  <2>1. /\ p.pc = "publish" /\ page'[r].pc = "idle" /\ p.v \in Variants
        /\ catalog' = Published(p.v, p.before, new) /\ UNCHANGED <<rows, aligned>>
    BY <1>2, <1>6 DEF Shows, Saves
  <2>2. AlignAt(v) BY <2>1 DEF AlignInv
  <2>3. CASE v = p.v
    <3>1. Saving(r, v) /\ ~Saving(r, v)' BY <2>1, <2>3 DEF Saving, Saves
    <3>2. /\ \A q \in Requests : Saving(q, v) => q = r
          /\ \A w \in Workers : ~Replacing(w, v)
          /\ catalog[v] = CostEffectiveAt(p.before, now) /\ rows[v] = new
      BY <2>1, <2>2, <3>1 DEF AlignAt
    <3>3. /\ \A q \in Requests : ~Saving(q, v)'
          /\ \A w \in Workers : ~Replacing(w, v)'
      BY <1>1, <3>1, <3>2 DEF Saving, Replacing
    <3> HIDE DEF new
    <3>4. catalog'[v] = CostEffectiveAt(new, now) BY <2>1, <2>3, <3>2, PublishedIs
    <3> QED BY <1>1, <2>1, <3>2, <3>3, <3>4 DEF AlignAt
  <2>4. CASE v # p.v
    <3> HIDE DEF new
    <3>1. catalog'[v] = catalog[v] BY <2>1, <2>4, PublishedIs
    <3> QED BY <1>3, <2>1, <2>4, <3>1 DEF Saving, Saves
  <2> QED BY <2>3, <2>4
<1>7. CASE Maps(r) BY <1>3, <1>7 DEF Maps, Saving
<1>8. CASE GivesUp(r)
  <2>1. aligned[v] /\ ~Saving(r, v) BY <1>8, UpdatingIs DEF GivesUp
  <2> QED BY <1>3, <1>8, <2>1 DEF GivesUp, Saving, Saves
<1> QED BY <1>1, <1>4, <1>5, <1>6, <1>7, <1>8

LEMMA AlignRollup ==
    ASSUME Shapes, AlignInv, NEW w \in Workers, Rollup(w)
    PROVE  AlignInv'
<1>1. /\ \A x \in Workers \ {w} : work'[x] = work[x]
      /\ now' = now /\ page' = page
      /\ RollupStep(w)
  BY RollupSteps
<1>2. DOMAIN rows = Variants /\ (work[w].pc \in Replaces => work[w].v \in Variants)
  BY DEF Shapes, ToldIInv, ToldInv, RowsInv, WorkShape
<1> SUFFICES ASSUME NEW v \in Variants, aligned'[v] PROVE AlignAt(v)'
  BY DEF AlignInv
<1>3. ASSUME aligned[v], rows'[v] = rows[v], catalog'[v] = catalog[v],
             ~Replacing(w, v), ~Replacing(w, v)'
      PROVE  AlignAt(v)'
  BY <1>1, <1>3, AlignStays DEF AlignInv
<1>4. CASE Starts(w) \/ Reads(w) \/ Reports(w) \/ Ends(w)
  BY <1>3, <1>4 DEF Starts, Reads, Reports, Ends, Replacing, Replaces
<1>5. CASE Takes(w)
  <2> DEFINE u == work'[w].v
  <2>1. /\ work[w].pc = "next" /\ work'[w].pc = "withdraw" /\ u \in Variants
        /\ work'[w].before = rows[u] /\ aligned' = Entering(u)
        /\ UNCHANGED <<rows, catalog>>
    BY <1>5 DEF Takes
  <2>2. CASE v = u
    <3>1. aligned[v] /\ Updating(v) = {} BY <2>1, <2>2, EnteringIs
    <3>2. catalog[v] = CostEffectiveAt(rows[v], now)
      BY <3>1, UpdatingIs DEF AlignInv, AlignAt
    <3>3. /\ \A r \in Requests : ~Saving(r, v)'
          /\ \A x \in Workers \ {w} : ~Replacing(x, v)'
      BY <1>1, <3>1, UpdatingIs DEF Saving, Replacing
    <3> QED BY <1>1, <2>1, <2>2, <3>2, <3>3 DEF AlignAt, Replacing
  <2>3. CASE v # u
    <3>1. aligned[v] BY <2>1, <2>3, EnteringIs
    <3> QED BY <1>3, <2>1, <2>3, <3>1 DEF Replacing, Replaces
  <2> QED BY <2>2, <2>3
<1>6. ASSUME work[w].pc \in Replaces, work'[w].pc \in Replaces,
             work'[w].v = work[w].v, work'[w].before = work[w].before,
             UNCHANGED <<catalog, aligned>>,
             v # work[w].v => rows'[v] = rows[v],
             (v = work[w].v /\ work'[w].pc = "publish") => rows'[v] = work'[w].after
      PROVE  AlignAt(v)'
  <2>1. AlignAt(v) BY <1>6 DEF AlignInv
  <2>2. CASE v = work[w].v
    <3>1. Replacing(w, v) /\ Replacing(w, v)' BY <1>6, <2>2 DEF Replacing
    <3>2. /\ \A x \in Workers : Replacing(x, v) => x = w
          /\ catalog[v] = CostEffectiveAt(work[w].before, now)
          /\ \A r \in Requests : ~Saving(r, v)
      BY <2>1, <3>1 DEF AlignAt
    <3>3. /\ \A x \in Workers : Replacing(x, v)' => x = w
          /\ \A r \in Requests : ~Saving(r, v)'
      BY <1>1, <3>2 DEF Saving, Replacing
    <3> QED BY <1>1, <1>6, <2>2, <3>1, <3>2, <3>3 DEF AlignAt
  <2>3. CASE v # work[w].v BY <1>3, <1>6, <2>3 DEF Replacing
  <2> QED BY <2>2, <2>3
<1>7. CASE Rewrites(w)
  <2>1. v # work[w].v => rows'[v] = rows[v] BY <1>2, <1>7 DEF Rewrites
  <2> QED BY <1>6, <1>7, <2>1 DEF Rewrites, SameColumns, Replaces
<1>8. CASE Looks(w) BY <1>6, <1>8 DEF Looks, Replaces
<1>9. CASE Follows(w)
  <2> DEFINE k == work[w]
  <2>1. /\ k.pc = "publish" /\ work'[w].pc = "next" /\ k.v \in Variants
        /\ catalog' = Published(k.v, k.before, k.after) /\ UNCHANGED <<rows, aligned>>
    BY <1>2, <1>9 DEF Follows, Replaces
  <2>2. AlignAt(v) BY <2>1 DEF AlignInv
  <2>3. CASE v = k.v
    <3>1. Replacing(w, v) /\ ~Replacing(w, v)' BY <2>1, <2>3 DEF Replacing, Replaces
    <3>2. /\ \A x \in Workers : Replacing(x, v) => x = w
          /\ \A r \in Requests : ~Saving(r, v)
          /\ catalog[v] = CostEffectiveAt(k.before, now) /\ rows[v] = k.after
      BY <2>1, <2>2, <3>1 DEF AlignAt
    <3>3. /\ \A x \in Workers : ~Replacing(x, v)'
          /\ \A r \in Requests : ~Saving(r, v)'
      BY <1>1, <3>1, <3>2 DEF Saving, Replacing
    <3>4. catalog'[v] = CostEffectiveAt(k.after, now) BY <2>1, <2>3, <3>2, PublishedIs
    <3> QED BY <1>1, <2>1, <3>2, <3>3, <3>4 DEF AlignAt
  <2>4. CASE v # k.v
    <3>1. catalog'[v] = catalog[v] BY <2>1, <2>4, PublishedIs
    <3> QED BY <1>3, <2>1, <2>4, <3>1 DEF Replacing, Replaces
  <2> QED BY <2>3, <2>4
<1>10. CASE Dies(w)
  <2>1. aligned[v] /\ ~Replacing(w, v) BY <1>10, UpdatingIs DEF Dies
  <2> QED BY <1>3, <1>10, <2>1 DEF Dies, Replacing, Replaces
<1> QED BY <1>1, <1>4, <1>5, <1>7, <1>8, <1>9, <1>10 DEF RollupStep

LEMMA AlignKept == Shapes /\ AlignInv /\ [Next]_vars => AlignInv'
<1> SUFFICES ASSUME Shapes, AlignInv, [Next]_vars PROVE AlignInv' OBVIOUS
<1>1. ASSUME UNCHANGED <<now, rows, catalog, aligned, page, work>> PROVE AlignInv'
  BY <1>1, AlignStays DEF AlignInv
<1>2. CASE UNCHANGED vars
  BY <1>1, <1>2 DEF vars, books, ghosts
<1>3. CASE Outside
  <2>1. OutsideStep BY <1>3, OutsideSteps
  <2>2. ASSUME aligned' = Realigned(catalog', rows', now'), UNCHANGED <<page, work>>,
               NEW v \in Variants, aligned'[v]
        PROVE  AlignAt(v)'
    <3>1. catalog'[v] = CostEffectiveAt(rows'[v], now') /\ Updating(v) = {}
      BY <2>2 DEF Realigned
    <3>2. /\ \A r \in Requests : ~Saving(r, v)'
          /\ \A w \in Workers : ~Replacing(w, v)'
      BY <2>2, <3>1, UpdatingIs DEF Saving, Replacing
    <3> QED BY <3>1, <3>2 DEF AlignAt
  <2> QED BY <1>1, <2>1, <2>2 DEF OutsideStep, AlignInv
<1> QED BY <1>2, <1>3, AlignRequest, AlignRollup DEF Next

LEMMA AlignInit == Init => AlignInv
<1> SUFFICES ASSUME Init, NEW v \in Variants PROVE AlignAt(v) BY DEF AlignInv
<1>1. /\ \A r \in Requests : ~Saving(r, v)
      /\ \A w \in Workers : ~Replacing(w, v)
  BY DEF Init, Saving, Replacing, Saves, Replaces, IdlePage, IdleWork
<1>2. catalog[v] = Opening(v) /\ rows[v] = Seeded(Empty, Opening(v)) /\ now = 1
  BY DEF Init
<1>3. CostEffectiveAt(rows[v], now) = Opening(v)
  <2>1. CASE Opening(v) = None
    <3>1. rows[v] = Empty BY <1>2, <2>1 DEF Seeded
    <3>2. Breakpoints(rows[v]) = {} BY <3>1 DEF Breakpoints, Empty
    <3> QED BY <2>1, <3>2 DEF CostEffectiveAt
  <2>2. CASE Opening(v) # None
    <3> DEFINE first == [cost |-> Opening(v), source |-> "SHOPIFY"]
    <3>1. Opening(v) \in Nat BY <2>2, NumbersAssumption DEF Opening
    <3>2. first # None /\ first.cost = Opening(v)
      <4>1. first \in Version BY <3>1 DEF Version
      <4> QED BY <4>1, NoneAssumption
    <3> HIDE DEF first
    <3>3. rows[v] = [Empty EXCEPT ![0] = first]
      BY <1>2, <2>2 DEF Seeded, Written, first
    <3>4. 0 \in Instants /\ 1 \in Instants /\ \A i \in Instants : i \in Nat
      BY InstantsAssumption DEF Instants
    <3>5. rows[v][0] = first /\ \A i \in Instants \ {0} : rows[v][i] = None
      BY <3>3, <3>4 DEF Empty
    <3>6. {i \in Breakpoints(rows[v]) : i <= now} = {0}
      BY <1>2, <3>2, <3>4, <3>5 DEF Breakpoints
    <3>7. Max({0}) = 0
      <4>1. {0} \in SUBSET Instants BY <3>4
      <4> QED BY <4>1, LatestInstant
    <3> QED BY <3>2, <3>5, <3>6, <3>7 DEF CostEffectiveAt
  <2> QED BY <2>1, <2>2
<1> QED BY <1>1, <1>2, <1>3 DEF AlignAt

(* Whatever is saved, synced, imported, mapped, rolled up or interrupted:  *)
(* the catalogue is the head of a variant's timeline wherever its writers  *)
(* came one at a time.  SoleWriterKeepsHead.                               *)
THEOREM SoleWriterHolds == Spec => []SoleWriterKeepsHead
<1>1. AlignInv => SoleWriterKeepsHead
  BY UpdatingIs DEF AlignInv, AlignAt, SoleWriterKeepsHead
<1> QED BY <1>1, ShapesInit, ShapesKept, AlignInit, AlignKept, PTL DEF Spec

-----------------------------------------------------------------------------
(* The ledger and the rollups                                              *)

Undirected(v) == \A i \in Instants : ~IsDirect(rows[v][i])

(* A variant without a cost of its own changes its costs only in a rollup. *)
LEMMA UndirectedStays ==
    ASSUME Shapes, Next, NEW v \in Variants, Undirected(v)'
    PROVE  /\ Undirected(v)
           /\ (Outside \/ \E r \in Requests : Request(r)) => rows'[v] = rows[v]
<1>1. Undirected(v) BY RowsStep DEF Shapes, ToldIInv, Told, Undirected
<1>2. DOMAIN rows = Variants /\ DOMAIN rows[v] = Instants
  BY DEF Shapes, ToldIInv, ToldInv, RowsInv
<1>3. ASSUME NEW at \in Instants, NEW c \in Nat, NEW s \in {"SHOPIFY", "MANUAL"},
             rows'[v] = Written(rows[v], at, c, s)
      PROVE  FALSE
  <2> DEFINE new == [cost |-> c, source |-> s]
  <2>1. rows'[v][at] = new BY <1>2, <1>3 DEF Written
  <2>2. new \in Version /\ new.source # "BUNDLE_ROLLUP" BY DEF Version
  <2>3. IsDirect(new) BY <2>2, NoneAssumption DEF IsDirect
  <2> HIDE DEF new
  <2> QED BY <2>1, <2>3 DEF Undirected
<1>4. ASSUME Outside PROVE rows'[v] = rows[v]
  <2>1. OutsideStep BY <1>4, OutsideSteps
  <2>2. CASE UNCHANGED rows BY <2>2
  <2>3. ASSUME NEW f \in sent,
               \/ rows' = [rows EXCEPT ![f.variant] = Observed(rows[f.variant], f)]
               \/ rows' = [rows EXCEPT ![f.variant] = Seeded(rows[f.variant], f.cost)]
        PROVE  rows'[v] = rows[v]
    <3>1. CASE f.variant # v BY <1>2, <2>3, <3>1
    <3>2. CASE f.variant = v
      <4>1. f.cost \in Nat \cup {None} /\ f.at \in Instants /\ 0 \in Instants
        <5>1. f \in Fact BY DEF Shapes, ToldIInv, ToldInv
        <5>2. f.cost \in Costs \cup {None} /\ f.at \in Instants BY <5>1 DEF Fact
        <5>3. 0 \in Instants BY InstantsAssumption DEF Instants
        <5> QED BY <5>2, <5>3, NumbersAssumption
      <4>2. rows'[v] = Observed(rows[v], f) \/ rows'[v] = Seeded(rows[v], f.cost)
        BY <1>2, <2>3, <3>2
      <4>3. CASE rows'[v] = Observed(rows[v], f)
        BY <1>3, <4>1, <4>3 DEF Observed
      <4>4. CASE rows'[v] = Seeded(rows[v], f.cost)
        BY <1>3, <4>1, <4>4 DEF Seeded
      <4> QED BY <4>2, <4>3, <4>4
    <3> QED BY <3>1, <3>2
  <2> QED BY <2>1, <2>2, <2>3 DEF OutsideStep
<1>5. ASSUME NEW r \in Requests, Request(r) PROVE rows'[v] = rows[v]
  <2>1. Begins(r) \/ WritesDown(r) \/ Shows(r) \/ Maps(r) \/ GivesUp(r)
    BY <1>5, RequestSteps
  <2>2. CASE WritesDown(r)
    <3>1. /\ rows' = [rows EXCEPT ![page[r].v] =
                        Written(rows[page[r].v], page[r].at, page[r].cost, "MANUAL")]
          /\ page[r].at \in Instants /\ page[r].cost \in Nat
      BY <2>2 DEF WritesDown, Shapes, PageShape, Saves
    <3>2. CASE page[r].v # v BY <1>2, <3>1, <3>2
    <3>3. CASE page[r].v = v BY <1>2, <1>3, <3>1, <3>3
    <3> QED BY <3>2, <3>3
  <2> QED BY <2>1, <2>2 DEF Begins, Shows, Maps, GivesUp
<1> QED BY <1>1, <1>4, <1>5

(* A rollup under way, and what it has noted of the packs that moved.      *)
Busy(w) == work[w].pc \in {"holders", "base", "next"} \cup Replaces

NotesInv(w) ==
    LET k == work[w] IN
    /\ k.pc \in {"edges", "holders", "base"} => k.changed = {} /\ k.from = None
    /\ Busy(w) => /\ k.from \in Instants \cup {None}
                  /\ k.changed # {} => k.from # None
                  /\ k.todo \cap k.changed = {}
    /\ k.pc \in Replaces => k.v \notin k.todo \cup k.changed

Noted(w, v, i) == Busy(w) /\ v \in work[w].changed /\ i >= work[w].from

(* What a pack is said to have cost is what the ledger was asked for,      *)
(* unless the rollup under way has noted it or has the pack in hand; then  *)
(* the ledger still has what the pack had cost before.                     *)
ReachAt(v) ==
    /\ \A i \in Instants : \/ reported[v][i] = CostEffectiveAt(rows[v], i)
                           \/ \E w \in Workers : Noted(w, v, i) \/ Replacing(w, v)
    /\ \A w \in Workers : Replacing(w, v) =>
         /\ \A i \in Instants : reported[v][i] = CostEffectiveAt(work[w].before, i)
         /\ work[w].pc = "publish" => work[w].after = rows[v]

OneBusy == \A w, x \in Workers : Busy(w) /\ Busy(x) => w = x

ReachInv ==
    /\ \A w \in Workers : NotesInv(w)
    /\ ~disturbed => OneBusy /\ \A v \in Variants : Undirected(v) => ReachAt(v)

LEMMA NotesKept ==
    ASSUME Shapes, NEW w \in Workers, NotesInv(w), RollupStep(w)
    PROVE  NotesInv(w)'
<1> DEFINE k == work[w]
           n == work'[w]
<1>1. CASE Starts(w) BY <1>1 DEF Starts, NotesInv, Busy, Replaces
<1>2. CASE Reads(w) BY <1>2 DEF Reads, NotesInv, Busy, Replaces
<1>3. CASE Takes(w) BY <1>3 DEF Takes, NotesInv, Busy, Replaces
<1>4. CASE Rewrites(w) BY <1>4 DEF Rewrites, SameColumns, NotesInv, Busy, Replaces
<1>5. CASE Looks(w) BY <1>5 DEF Looks, NotesInv, Busy, Replaces
<1>6. CASE Follows(w)
  <2> DEFINE from == CostDivergenceFrom(k.before, k.after)
  <2>1. /\ k.pc = "publish" /\ n.pc = "next" /\ n.todo = k.todo
        /\ n.changed = IF from = None THEN k.changed ELSE k.changed \cup {k.v}
        /\ n.from = Earlier(k.from, from)
    BY <1>6 DEF Follows
  <2>2. /\ k.from \in Instants \cup {None} /\ (k.changed # {} => k.from # None)
        /\ k.todo \cap k.changed = {} /\ k.v \notin k.todo
    BY <2>1 DEF NotesInv, Busy, Replaces
  <2>3. from \in Instants \cup {None} BY DivergenceIs
  <2> HIDE DEF from
  <2>4. /\ n.from \in Instants \cup {None}
        /\ (k.from # None \/ from # None) => n.from # None
    BY <2>1, <2>2, <2>3, EarlierIs
  <2>5. n.changed # {} => n.from # None BY <2>1, <2>2, <2>4
  <2>6. n.todo \cap n.changed = {} BY <2>1, <2>2
  <2> QED BY <2>1, <2>4, <2>5, <2>6 DEF NotesInv, Busy, Replaces
<1>7. CASE Reports(w) BY <1>7 DEF Reports, NotesInv, Busy, Replaces
<1>8. CASE Ends(w) BY <1>8 DEF Ends, NotesInv, Busy, Replaces
<1>9. CASE Dies(w) BY <1>9 DEF Dies, NotesInv, Busy, Replaces
<1> QED
  BY <1>1, <1>2, <1>3, <1>4, <1>5, <1>6, <1>7, <1>8, <1>9 DEF RollupStep

(* Only its first read makes a rollup one that is under way.               *)
LEMMA OneBusyKept ==
    ASSUME NEW w \in Workers, OneBusy, RollupStep(w), ~disturbed',
           \A x \in Workers \ {w} : work'[x] = work[x]
    PROVE  OneBusy'
<1>1. \A x \in Workers \ {w} : Busy(x)' <=> Busy(x) BY DEF Busy
<1>2. CASE Busy(w)
  BY <1>1, <1>2 DEF OneBusy
<1>3. CASE ~Busy(w)' BY <1>1, <1>3 DEF OneBusy
<1>4. CASE ~Busy(w) /\ Busy(w)'
  <2>1. Alone(w)
    BY <1>4 DEF RollupStep, Starts, Reads, Takes, Rewrites, Looks, Follows, Reports,
                Ends, Dies, Busy, Replaces
  <2>2. \A x \in Workers \ {w} : ~Busy(x) BY <2>1 DEF Alone, Busy, Replaces
  <2> QED BY <1>1, <2>2 DEF OneBusy
<1> QED BY <1>2, <1>3, <1>4

(* A step of a worker that does nothing to a pack, and forgets nothing.    *)
LEMMA ReachStays ==
    ASSUME NEW v \in Variants, ReachAt(v), NEW w \in Workers,
           rows'[v] = rows[v], reported' = reported,
           \A x \in Workers \ {w} : work'[x] = work[x],
           \A i \in Instants : Noted(w, v, i) => Noted(w, v, i)',
           Replacing(w, v)' <=> Replacing(w, v),
           Replacing(w, v) =>
              /\ work'[w].before = work[w].before
              /\ work'[w].pc = "publish" => work'[w].after = rows[v]
    PROVE  ReachAt(v)'
<1>1. \A x \in Workers, i \in Instants : Noted(x, v, i) => Noted(x, v, i)'
  BY DEF Noted, Busy
<1>2. \A x \in Workers : Replacing(x, v)' <=> Replacing(x, v)
  BY DEF Replacing
<1>3. \A i \in Instants : \/ reported'[v][i] = CostEffectiveAt(rows'[v], i)
                          \/ \E x \in Workers : Noted(x, v, i)' \/ Replacing(x, v)'
  BY <1>1, <1>2 DEF ReachAt
<1>4. ASSUME NEW x \in Workers, Replacing(x, v)'
      PROVE  /\ \A i \in Instants : reported'[v][i] = CostEffectiveAt(work'[x].before, i)
             /\ work'[x].pc = "publish" => work'[x].after = rows'[v]
  <2>1. Replacing(x, v) BY <1>2, <1>4
  <2> QED BY <2>1 DEF ReachAt
<1> QED BY <1>3, <1>4 DEF ReachAt

LEMMA ReachRollup ==
    ASSUME Shapes, ReachInv, NEW w \in Workers, Rollup(w), Next,
           ~disturbed', NEW v \in Variants, Undirected(v)'
    PROVE  ReachAt(v)'
<1> DEFINE k == work[w]
           n == work'[w]
<1>1. /\ \A x \in Workers \ {w} : work'[x] = work[x]
      /\ RollupStep(w)
  BY RollupSteps
<1>2. ~disturbed
  BY <1>1 DEF RollupStep, Starts, Reads, Takes, Rewrites, Looks, Follows, Reports,
              Ends, Dies
<1>3. Undirected(v) BY UndirectedStays
<1>4. OneBusy /\ ReachAt(v) /\ NotesInv(w) BY <1>2, <1>3 DEF ReachInv
<1>5. DOMAIN rows = Variants BY DEF Shapes, ToldIInv, ToldInv, RowsInv
<1>6. \A x \in Workers \ {w} : /\ Busy(x)' <=> Busy(x)
                               /\ Replacing(x, v)' <=> Replacing(x, v)
  BY <1>1 DEF Busy, Replacing
<1>7. Busy(w) => \A x \in Workers \ {w} : ~Busy(x) BY <1>4 DEF OneBusy
<1>8. \A x \in Workers : Replacing(x, v) => Busy(x) BY DEF Replacing, Busy
<1>9. CASE Starts(w)
  <2>1. /\ rows' = rows /\ reported' = reported
        /\ ~Busy(w) /\ ~Replacing(w, v) /\ ~Replacing(w, v)'
    BY <1>9 DEF Starts, Busy, Replacing, Replaces
  <2> QED BY <1>1, <1>4, <2>1, ReachStays DEF Noted
<1>10. CASE Reads(w)
  <2>1. /\ rows' = rows /\ reported' = reported
        /\ ~Replacing(w, v) /\ ~Replacing(w, v)' /\ k.changed = {}
    BY <1>4, <1>10 DEF Reads, NotesInv, Replacing, Replaces
  <2> QED BY <1>1, <1>4, <2>1, ReachStays DEF Noted
<1>11. CASE Takes(w)
  <2>1. /\ k.pc = "next" /\ n.pc = "withdraw" /\ n.v \in k.todo /\ n.before = rows[n.v]
        /\ n.changed = k.changed /\ n.from = k.from
        /\ rows' = rows /\ reported' = reported
    BY <1>11 DEF Takes
  <2>2. Busy(w) /\ Busy(w)' /\ ~Replacing(w, v)
    BY <2>1 DEF Busy, Replacing, Replaces
  <2>3. CASE n.v = v
    <3>1. v \notin k.changed BY <1>4, <2>1, <2>2, <2>3 DEF NotesInv
    <3>2. \A x \in Workers : ~Replacing(x, v) /\ \A i \in Instants : ~Noted(x, v, i)
      BY <1>7, <1>8, <2>2, <3>1 DEF Noted
    <3>3. \A i \in Instants : reported[v][i] = CostEffectiveAt(rows[v], i)
      BY <1>4, <3>2 DEF ReachAt
    <3>4. \A x \in Workers : Replacing(x, v)' => x = w BY <1>6, <3>2
    <3> QED BY <2>1, <2>3, <3>3, <3>4 DEF ReachAt
  <2>4. CASE n.v # v
    <3>1. ~Replacing(w, v)' BY <2>4 DEF Replacing
    <3> QED BY <1>1, <1>4, <2>1, <2>2, <3>1, ReachStays DEF Noted
  <2> QED BY <2>3, <2>4
<1>12. CASE Rewrites(w)
  <2>1. /\ k.pc \in {"withdraw", "derive"} /\ n.pc \in {"derive", "after"}
        /\ n.v = k.v /\ n.before = k.before /\ n.changed = k.changed /\ n.from = k.from
        /\ reported' = reported /\ (v # k.v => rows'[v] = rows[v])
    BY <1>5, <1>12 DEF Rewrites, SameColumns
  <2>2. Busy(w) /\ Busy(w)' BY <2>1 DEF Busy, Replaces
  <2>3. CASE k.v = v
    <3>1. Replacing(w, v) /\ Replacing(w, v)'
      BY <2>1, <2>3 DEF Replacing, Replaces
    <3>2. \A x \in Workers : Replacing(x, v)' => x = w
      BY <1>6, <1>7, <1>8, <2>2
    <3>3. \A i \in Instants : reported[v][i] = CostEffectiveAt(k.before, i)
      BY <1>4, <3>1 DEF ReachAt
    <3> QED BY <2>1, <3>1, <3>2, <3>3 DEF ReachAt
  <2>4. CASE k.v # v
    <3>1. ~Replacing(w, v) /\ ~Replacing(w, v)' BY <2>1, <2>4 DEF Replacing
    <3> QED BY <1>1, <1>4, <2>1, <2>2, <2>4, <3>1, ReachStays DEF Noted
  <2> QED BY <2>3, <2>4
<1>13. CASE Looks(w)
  <2>1. /\ k.pc = "after" /\ n.pc = "publish" /\ n.v = k.v /\ n.before = k.before
        /\ n.after = rows[k.v] /\ n.changed = k.changed /\ n.from = k.from
        /\ rows' = rows /\ reported' = reported
    BY <1>13 DEF Looks
  <2>2. /\ Busy(w) /\ Busy(w)' /\ (Replacing(w, v)' <=> Replacing(w, v))
        /\ Replacing(w, v) => n.after = rows[v]
    BY <2>1 DEF Busy, Replacing, Replaces
  <2> QED BY <1>1, <1>4, <2>1, <2>2, ReachStays DEF Noted
<1>14. CASE Follows(w)
  <2> DEFINE from == CostDivergenceFrom(k.before, k.after)
  <2>1. /\ k.pc = "publish" /\ n.pc = "next"
        /\ n.changed = IF from = None THEN k.changed ELSE k.changed \cup {k.v}
        /\ n.from = Earlier(k.from, from)
        /\ rows' = rows /\ reported' = reported
    BY <1>14 DEF Follows
  <2>2. Busy(w) /\ Busy(w)' /\ ~Replacing(w, v)'
    BY <2>1 DEF Busy, Replacing, Replaces
  <2>3. /\ k.from \in Instants \cup {None} /\ (k.changed # {} => k.from # None)
    BY <1>4, <2>2 DEF NotesInv
  <2>4. /\ from \in Instants \cup {None}
        /\ \A i \in Instants : (from = None \/ i < from) =>
             CostEffectiveAt(k.before, i) = CostEffectiveAt(k.after, i)
    BY DivergenceIs
  <2> HIDE DEF from
  <2>5. /\ n.from \in Instants \cup {None}
        /\ k.from # None => n.from # None /\ n.from <= k.from
        /\ from # None => n.from # None /\ n.from <= from
    BY <2>1, <2>3, <2>4, EarlierIs
  <2>6. \A i \in Instants : i \in Nat BY InstantsAssumption DEF Instants
  <2>7. CASE k.v = v
    <3>1. Replacing(w, v) BY <2>1, <2>7 DEF Replacing, Replaces
    <3>2. \A x \in Workers : ~Replacing(x, v)'
      BY <1>6, <1>7, <1>8, <2>2
    <3>3. /\ \A i \in Instants : reported[v][i] = CostEffectiveAt(k.before, i)
          /\ k.after = rows[v]
      BY <1>4, <2>1, <3>1 DEF ReachAt
    <3>4. ASSUME NEW i \in Instants
          PROVE  reported'[v][i] = CostEffectiveAt(rows'[v], i) \/ Noted(w, v, i)'
      <4>1. CASE from = None \/ i < from BY <2>1, <2>4, <3>3, <4>1
      <4>2. CASE from # None /\ ~(i < from)
        <5>1. from \in Nat /\ n.from \in Nat BY <2>4, <2>5, <2>6, <4>2
        <5>2. i >= n.from BY <2>5, <2>6, <4>2, <5>1
        <5>3. v \in n.changed BY <2>1, <2>7, <4>2
        <5> QED BY <2>2, <5>2, <5>3 DEF Noted
      <4> QED BY <4>1, <4>2
    <3> QED BY <3>2, <3>4 DEF ReachAt
  <2>8. CASE k.v # v
    <3>1. ~Replacing(w, v) BY <2>8 DEF Replacing
    <3>2. ASSUME NEW i \in Instants, Noted(w, v, i) PROVE Noted(w, v, i)'
      <4>1. v \in k.changed /\ i >= k.from /\ k.from # None
        BY <2>3, <3>2 DEF Noted
      <4>2. k.from \in Nat /\ n.from \in Nat /\ n.from <= k.from
        BY <2>3, <2>5, <2>6, <4>1
      <4>3. i >= n.from BY <2>6, <4>1, <4>2
      <4>4. v \in n.changed BY <2>1, <4>1
      <4> QED BY <2>2, <4>3, <4>4 DEF Noted
    <3> QED BY <1>1, <1>4, <2>1, <2>2, <3>1, <3>2, ReachStays
  <2> QED BY <2>7, <2>8
<1>15. CASE Reports(w)
  <2>1. /\ k.pc = "next" /\ rows' = rows
        /\ \A i \in Instants : reported'[v][i] =
             IF v \in k.changed /\ i >= k.from
             THEN CostEffectiveAt(rows[v], i) ELSE reported[v][i]
    BY <1>15 DEF Reports
  <2>2. Busy(w) /\ ~Replacing(w, v) BY <2>1 DEF Busy, Replacing, Replaces
  <2>3. \A x \in Workers : ~Replacing(x, v) /\ ~Replacing(x, v)'
    BY <1>6, <1>7, <1>8, <1>15, <2>2 DEF Reports, Replacing, Replaces
  <2>4. \A i \in Instants : \/ reported[v][i] = CostEffectiveAt(rows[v], i)
                            \/ v \in k.changed /\ i >= k.from
    BY <1>4, <1>7, <2>2, <2>3 DEF ReachAt, Noted
  <2> QED BY <2>1, <2>3, <2>4 DEF ReachAt
<1>16. CASE Ends(w)
  <2>1. /\ rows' = rows /\ reported' = reported
        /\ ~Busy(w) /\ ~Replacing(w, v) /\ ~Replacing(w, v)'
    BY <1>16 DEF Ends, Busy, Replacing, Replaces
  <2> QED BY <1>1, <1>4, <2>1, ReachStays DEF Noted
<1>17. ~Dies(w) BY DEF Dies
<1> QED
  BY <1>1, <1>9, <1>10, <1>11, <1>12, <1>13, <1>14, <1>15, <1>16, <1>17
  DEF RollupStep

LEMMA ReachKept == Shapes /\ ReachInv /\ [Next]_vars => ReachInv'
<1> SUFFICES ASSUME Shapes, ReachInv, [Next]_vars PROVE ReachInv' OBVIOUS
<1>1. ASSUME UNCHANGED <<work, reported>>, disturbed => disturbed',
             \A v \in Variants : Undirected(v)' => rows'[v] = rows[v]
      PROVE  ReachInv'
  <2>1. \A w \in Workers : NotesInv(w)' BY <1>1 DEF ReachInv, NotesInv, Busy
  <2>2. ASSUME ~disturbed', NEW v \in Variants, Undirected(v)' PROVE ReachAt(v)'
    <3>1. rows'[v] = rows[v] BY <1>1, <2>2
    <3>2. ~disturbed /\ Undirected(v) BY <1>1, <2>2, <3>1 DEF Undirected
    <3>3. ReachAt(v) BY <3>2 DEF ReachInv
    <3> QED BY <1>1, <3>1, <3>3 DEF ReachAt, Noted, Busy, Replacing
  <2>3. ~disturbed' => OneBusy' BY <1>1 DEF ReachInv, OneBusy, Busy
  <2> QED BY <2>1, <2>2, <2>3 DEF ReachInv
<1>2. CASE UNCHANGED vars BY <1>1, <1>2 DEF vars, books, ghosts
<1>3. CASE Next /\ Outside
  BY <1>1, <1>3, OutsideSteps, UndirectedStays DEF OutsideStep
<1>4. ASSUME Next, NEW r \in Requests, Request(r) PROVE ReachInv'
  <2>1. /\ UNCHANGED <<work, reported>>
        /\ Begins(r) \/ WritesDown(r) \/ Shows(r) \/ Maps(r) \/ GivesUp(r)
    BY <1>4, RequestSteps
  <2>2. disturbed => disturbed'
    BY <2>1 DEF Begins, WritesDown, Shows, Maps, GivesUp
  <2> QED BY <1>1, <1>4, <2>1, <2>2, UndirectedStays
<1>5. ASSUME Next, NEW w \in Workers, Rollup(w) PROVE ReachInv'
  <2>1. \A x \in Workers \ {w} : work'[x] = work[x] BY <1>5, RollupSteps
  <2>2. RollupStep(w) BY <1>5, RollupSteps
  <2>3. \A x \in Workers : NotesInv(x)'
    <3>1. NotesInv(w)' BY <2>2, NotesKept DEF ReachInv
    <3>2. \A x \in Workers \ {w} : NotesInv(x)'
      BY <2>1 DEF ReachInv, NotesInv, Busy
    <3> QED BY <3>1, <3>2
  <2>4. ~disturbed' => ~disturbed
    BY <2>2 DEF RollupStep, Starts, Reads, Takes, Rewrites, Looks, Follows, Reports,
                Ends, Dies
  <2>5. ~disturbed' => OneBusy' BY <2>1, <2>2, <2>4, OneBusyKept DEF ReachInv
  <2>6. ~disturbed' => \A v \in Variants : Undirected(v)' => ReachAt(v)'
    BY <1>5, ReachRollup
  <2> QED BY <2>3, <2>5, <2>6 DEF ReachInv
<1> QED BY <1>2, <1>3, <1>4, <1>5 DEF Next

LEMMA ReachInit == Init => ReachInv
<1> SUFFICES ASSUME Init PROVE ReachInv OBVIOUS
<1>1. \A w \in Workers : work[w] = IdleWork BY DEF Init
<1>2. IdleWork.pc = "idle" BY DEF IdleWork
<1>3. \A w \in Workers : ~Busy(w) /\ NotesInv(w)
  BY <1>1, <1>2 DEF NotesInv, Busy, Replaces
<1>4. ASSUME NEW v \in Variants, Undirected(v) PROVE ReachAt(v)
  <2>1. /\ rows[v] = Seeded(Empty, Opening(v)) /\ reported = [u \in Variants |->
             [i \in Instants |-> Opening(u)]]
    BY DEF Init
  <2>2. 0 \in Instants BY InstantsAssumption DEF Instants
  <2>3. Opening(v) = None
    <3>1. ASSUME Opening(v) # None PROVE FALSE
      <4> DEFINE first == [cost |-> Opening(v), source |-> "SHOPIFY"]
      <4>1. Opening(v) \in Nat BY <3>1, NumbersAssumption DEF Opening
      <4>2. first \in Version /\ first.source # "BUNDLE_ROLLUP" BY <4>1 DEF Version
      <4>3. IsDirect(first) BY <4>2, NoneAssumption DEF IsDirect
      <4>4. rows[v][0] = first BY <2>1, <2>2, <3>1 DEF Seeded, Written, Empty
      <4> HIDE DEF first
      <4> QED BY <1>4, <2>2, <4>3, <4>4 DEF Undirected
    <3> QED BY <3>1
  <2>4. rows[v] = Empty BY <2>1, <2>3 DEF Seeded
  <2>5. Breakpoints(rows[v]) = {} BY <2>4 DEF Breakpoints, Empty
  <2>6. \A i : CostEffectiveAt(rows[v], i) = None BY <2>5 DEF CostEffectiveAt
  <2>7. \A i \in Instants : reported[v][i] = None BY <2>1, <2>3
  <2>8. \A w \in Workers : ~Replacing(w, v) BY <1>1, <1>2 DEF Replacing, Replaces
  <2> QED BY <2>6, <2>7, <2>8 DEF ReachAt
<1> QED BY <1>3, <1>4 DEF ReachInv, OneBusy

(* However many workers, mappings and saves there are: when all rollups    *)
(* are done, ran one after another and none died, the ledger has been      *)
(* asked for what every pack is said to have cost, at every instant.       *)
(* DerivedCostsReachHistory.                                               *)
THEOREM DerivedReachHistory == Spec => []DerivedCostsReachHistory
<1>1. ReachInv => DerivedCostsReachHistory
  <2> SUFFICES ASSUME ReachInv, Settled, ~disturbed, NEW v \in Variants,
                      Undirected(v), NEW i \in Instants
               PROVE  reported[v][i] = CostEffectiveAt(rows[v], i)
    BY DEF DerivedCostsReachHistory, Undirected
  <2>1. ReachAt(v) BY DEF ReachInv
  <2>2. \A w \in Workers : ~Noted(w, v, i) /\ ~Replacing(w, v)
    BY DEF Settled, Noted, Busy, Replacing, Replaces
  <2> QED BY <2>1, <2>2 DEF ReachAt
<1> QED BY <1>1, ShapesInit, ShapesKept, ReachInit, ReachKept, PTL DEF Spec

-----------------------------------------------------------------------------
(* Sums                                                                    *)

(* A set with 0 that has every next number has all numbers up to n.        *)
LEMMA Climb ==
    ASSUME NEW n \in Nat, NEW S, 0 \in S, \A k \in 1..n : k - 1 \in S => k \in S
    PROVE  \A k \in 0..n : k \in S
<1> DEFINE missing == {k \in 0..n : k \notin S}
<1>1. SUFFICES ASSUME missing # {} PROVE FALSE
  OBVIOUS
<1>2. PICK x \in missing : \A y \in missing : x <= y
  <2>1. missing \in SUBSET Nat
    OBVIOUS
  <2> HIDE DEF missing
  <2> QED
    BY <1>1, <2>1, NatsHaveLeast
<1>3. x \in 1..n /\ x - 1 \in 0..n /\ ~(x <= x - 1)
  OBVIOUS
<1>4. x - 1 \in S
  BY <1>2, <1>3
<1> QED
  BY <1>3, <1>4

(* The fold of the community modules, over the sets of D.                  *)
Pick(S) == CHOOSE x \in S : TRUE
FoldsUp(it, f, D) ==
    it = [S \in D |-> IF S = {} THEN 0 ELSE f[Pick(S)] + it[S \ {Pick(S)}]]

LEMMA PickOne ==
    ASSUME NEW S, IsFiniteSet(S), NEW U \in SUBSET S, U # {}
    PROVE  /\ Pick(U) \in U /\ Pick(U) \in S /\ U \ {Pick(U)} \in SUBSET S
           /\ Cardinality(U) \in Nat /\ Cardinality(U \ {Pick(U)}) = Cardinality(U) - 1
<1>1. Pick(U) \in U
  BY DEF Pick
<1>2. IsFiniteSet(U)
  BY FS_Subset
<1>3. Cardinality(U) \in Nat
  BY <1>2, FS_CardinalityType
<1>4. Cardinality(U \ {Pick(U)}) = Cardinality(U) - 1
  BY <1>1, <1>2, FS_RemoveElement
<1> QED
  BY <1>1, <1>3, <1>4

LEMMA FoldExists ==
    ASSUME NEW S, IsFiniteSet(S), NEW f \in [S -> Nat]
    PROVE  \E it : FoldsUp(it, f, SUBSET S)
<1> DEFINE n == Cardinality(S)
           small(k) == {U \in SUBSET S : Cardinality(U) <= k}
           Done == {k \in 0..n : \E it \in [small(k) -> Nat] : FoldsUp(it, f, small(k))}
<1>1. n \in Nat
  BY FS_CardinalityType
<1>2. 0 \in Done
  <2> DEFINE it == [U \in small(0) |-> 0]
  <2>1. \A U \in small(0) : U = {}
    <3>1. ASSUME NEW U \in small(0), U # {}
          PROVE  FALSE
      <4>1. Cardinality(U \ {Pick(U)}) = Cardinality(U) - 1 /\ U \ {Pick(U)} \in SUBSET S
            /\ Cardinality(U) \in Nat
        BY <3>1, PickOne
      <4>2. IsFiniteSet(U \ {Pick(U)})
        BY <4>1, FS_Subset
      <4>3. Cardinality(U \ {Pick(U)}) \in Nat
        BY <4>2, FS_CardinalityType
      <4> QED
        BY <4>1, <4>3
    <3> QED
      BY <3>1
  <2>2. it \in [small(0) -> Nat] /\ FoldsUp(it, f, small(0))
    <3> HIDE DEF small
    <3> QED
      BY <2>1 DEF FoldsUp
  <2>3. 0 \in 0..n
    BY <1>1
  <2> HIDE DEF it, small
  <2> QED
    BY <2>2, <2>3
<1>3. ASSUME NEW k \in 1..n, k - 1 \in Done
      PROVE  k \in Done
  <2>1. PICK it \in [small(k - 1) -> Nat] : FoldsUp(it, f, small(k - 1))
    BY <1>3
  <2> DEFINE g == [U \in small(k) |-> IF U = {} THEN 0 ELSE f[Pick(U)] + it[U \ {Pick(U)}]]
  <2>2. ASSUME NEW U \in small(k), U # {}
        PROVE  Pick(U) \in S /\ U \ {Pick(U)} \in small(k - 1) /\ U \ {Pick(U)} \in small(k)
    <3>1. U \in SUBSET S /\ Cardinality(U) <= k
      OBVIOUS
    <3>2. /\ Pick(U) \in S /\ U \ {Pick(U)} \in SUBSET S
          /\ Cardinality(U) \in Nat /\ Cardinality(U \ {Pick(U)}) = Cardinality(U) - 1
      BY <2>2, <3>1, PickOne
    <3> QED
      BY <1>1, <3>1, <3>2
  <2>3. small(k - 1) \subseteq small(k)
    <3>1. ASSUME NEW U \in small(k - 1)
          PROVE  U \in small(k)
      <4>1. U \in SUBSET S /\ Cardinality(U) <= k - 1
        OBVIOUS
      <4>2. IsFiniteSet(U)
        BY <4>1, FS_Subset
      <4>3. Cardinality(U) \in Nat
        BY <4>2, FS_CardinalityType
      <4> QED
        BY <1>1, <4>1, <4>3
    <3> QED
      BY <3>1
  <2> HIDE DEF small
  <2>4. \A U \in small(k - 1) : g[U] = it[U]
    BY <2>1, <2>3 DEF FoldsUp
  <2>5. g \in [small(k) -> Nat]
    <3>1. ASSUME NEW U \in small(k)
          PROVE  (IF U = {} THEN 0 ELSE f[Pick(U)] + it[U \ {Pick(U)}]) \in Nat
      <4>1. CASE U # {}
        <5>1. f[Pick(U)] \in Nat /\ it[U \ {Pick(U)}] \in Nat
          BY <2>1, <2>2, <4>1
        <5> QED
          BY <4>1, <5>1
      <4> QED
        BY <4>1
    <3> QED
      BY <3>1
  <2>6. g = [U \in small(k) |-> IF U = {} THEN 0 ELSE f[Pick(U)] + g[U \ {Pick(U)}]]
    <3>1. \A U \in small(k) : U # {} => g[U \ {Pick(U)}] = it[U \ {Pick(U)}]
      BY <2>2, <2>4
    <3> QED
      BY <3>1
  <2> HIDE DEF g
  <2>7. FoldsUp(g, f, small(k))
    BY <2>6 DEF FoldsUp
  <2>8. k \in 0..n
    BY <1>1
  <2> QED
    BY <2>5, <2>7, <2>8
<1>4. n \in Done
  <2>1. n \in 0..n
    BY <1>1
  <2> HIDE DEF Done
  <2> QED
    BY <1>1, <1>2, <1>3, <2>1, Climb
<1>5. small(n) = SUBSET S
  <2>1. \A U \in SUBSET S : Cardinality(U) <= n
    BY FS_Subset
  <2> QED
    BY <2>1
<1> HIDE DEF small
<1> QED
  BY <1>4, <1>5

LEMMA FoldIsNat ==
    ASSUME NEW S, IsFiniteSet(S), NEW f \in [S -> Nat], NEW it, FoldsUp(it, f, SUBSET S)
    PROVE  it[S] \in Nat /\ it[{}] = 0
<1> DEFINE n == Cardinality(S)
           Done == {k \in 0..n : \A U \in SUBSET S : Cardinality(U) = k => it[U] \in Nat}
<1>1. n \in Nat
  BY FS_CardinalityType
<1>2. \A U \in SUBSET S :
         it[U] = IF U = {} THEN 0 ELSE f[Pick(U)] + it[U \ {Pick(U)}]
  BY DEF FoldsUp
<1>3. it[{}] = 0
  BY <1>2
<1>4. 0 \in Done
  <2>1. ASSUME NEW U \in SUBSET S, Cardinality(U) = 0
        PROVE  it[U] \in Nat
    <3>1. IsFiniteSet(U)
      BY FS_Subset
    <3>2. U = {}
      BY <2>1, <3>1, FS_EmptySet
    <3> QED
      BY <1>3, <3>2
  <2> QED
    BY <1>1, <2>1
<1>5. ASSUME NEW k \in 1..n, k - 1 \in Done
      PROVE  k \in Done
  <2>1. ASSUME NEW U \in SUBSET S, Cardinality(U) = k
        PROVE  it[U] \in Nat
    <3>1. k # 0 /\ U # {}
      BY <1>1, <2>1, FS_EmptySet
    <3>2. Pick(U) \in S /\ U \ {Pick(U)} \in SUBSET S /\ Cardinality(U \ {Pick(U)}) = k - 1
      BY <2>1, <3>1, PickOne
    <3>3. it[U \ {Pick(U)}] \in Nat
      BY <1>5, <3>2
    <3>4. f[Pick(U)] \in Nat
      BY <3>2
    <3> QED
      BY <1>2, <3>1, <3>3, <3>4
  <2> QED
    BY <1>1, <2>1
<1>6. n \in Done
  <2>1. n \in 0..n
    BY <1>1
  <2> HIDE DEF Done
  <2> QED
    BY <1>1, <1>4, <1>5, <2>1, Climb
<1> QED
  BY <1>3, <1>6

(* What the parts come to is a number.                                     *)
LEMMA TogetherIs ==
    ASSUME NEW S, IsFiniteSet(S), NEW f \in [S -> Nat]
    PROVE  Together(f) \in Nat
<1> DEFINE Sums(it) == it = [U \in SUBSET S |->
                                IF U = {} THEN 0
                                ELSE f[CHOOSE x \in U : TRUE]
                                     + it[U \ {CHOOSE x \in U : TRUE}]]
           h == CHOOSE it : Sums(it)
<1>1. ASSUME NEW it PROVE Sums(it) <=> FoldsUp(it, f, SUBSET S)
  BY DEF FoldsUp, Pick
<1>2. \E it : Sums(it)
  <2>1. PICK it : FoldsUp(it, f, SUBSET S)
    BY FoldExists
  <2>2. Sums(it)
    BY <1>1, <2>1
  <2> HIDE DEF Sums
  <2> QED
    BY <2>2
<1>3. Sums(h)
  BY <1>2
<1>4. DOMAIN f = S
  OBVIOUS
<1>5. Together(f) = h[S]
  BY <1>4 DEF Together, MapThenSumSet, MapThenFoldSet
<1> HIDE DEF h
<1>6. FoldsUp(h, f, SUBSET S)
  BY <1>1, <1>3
<1> QED
  BY <1>5, <1>6, FoldIsNat

-----------------------------------------------------------------------------
(* What a pack costs                                                       *)

LEMMA InstantsAre ==
    /\ LastInstant \in Nat /\ Instants = 0..LastInstant
    /\ Instants \subseteq Nat /\ 0 \in Instants
  BY InstantsAssumption DEF Instants

(* A timeline that changes nowhere between two instants.                   *)
LEMMA SamePast ==
    ASSUME NEW T, NEW i \in Instants, NEW j \in Instants, j <= i,
           \A b \in Breakpoints(T) : b <= i => b <= j
    PROVE  CostEffectiveAt(T, i) = CostEffectiveAt(T, j)
<1>1. Breakpoints(T) \subseteq Nat /\ i \in Nat /\ j \in Nat
  BY InstantsAre DEF Breakpoints
<1>2. {b \in Breakpoints(T) : b <= i} = {b \in Breakpoints(T) : b <= j}
  BY <1>1
<1> QED
  BY <1>2 DEF CostEffectiveAt

LEMMA CostIs ==
    ASSUME NEW T \in Timeline, NEW i \in Instants
    PROVE  /\ CostEffectiveAt(T, i) \in Nat \cup {None}
           /\ CostEffectiveAt(T, i) = None <=> \A b \in Breakpoints(T) : ~(b <= i)
           /\ T[i] # None => CostEffectiveAt(T, i) = T[i].cost /\ T[i].cost \in Nat
           /\ i > 0 /\ T[i] = None => CostEffectiveAt(T, i) = CostEffectiveAt(T, i - 1)
<1> DEFINE past == {b \in Breakpoints(T) : b <= i}
<1>0. /\ T \in [Instants -> Version \cup {None}] /\ None \notin Version /\ None \notin Nat
      /\ \A x \in Version : x.cost \in Nat
  BY NoneAssumption DEF Timeline, Version
<1>1. past \in SUBSET Instants /\ past \subseteq Breakpoints(T)
  BY DEF Breakpoints
<1>2. \A b \in past : b <= i /\ T[b] # None /\ b \in Instants
  BY DEF Breakpoints
<1>3. i \in Nat /\ T[i] # None => i \in past
  BY InstantsAre DEF Breakpoints
<1>4. past = {} <=> \A b \in Breakpoints(T) : ~(b <= i)
  OBVIOUS
<1>5. CostEffectiveAt(T, i) = IF past = {} THEN None ELSE T[Max(past)].cost
  BY DEF CostEffectiveAt
<1> HIDE DEF past
<1>6. ASSUME past # {}
      PROVE  Max(past) \in past /\ (\A y \in past : Max(past) >= y) /\ T[Max(past)].cost \in Nat
  <2>1. Max(past) \in past /\ (\A y \in past : Max(past) >= y)
    BY <1>1, <1>6, LatestInstant
  <2> QED
    BY <1>0, <1>2, <2>1
<1>7. CostEffectiveAt(T, i) \in Nat \cup {None}
  BY <1>5, <1>6
<1>8. CostEffectiveAt(T, i) = None <=> \A b \in Breakpoints(T) : ~(b <= i)
  BY <1>0, <1>4, <1>5, <1>6
<1>9. ASSUME T[i] # None
      PROVE  CostEffectiveAt(T, i) = T[i].cost /\ T[i].cost \in Nat
  <2>1. i \in past
    BY <1>3, <1>9, InstantsAre
  <2>2. Max(past) >= i /\ Max(past) <= i /\ Max(past) \in Instants
    BY <1>2, <1>6, <2>1
  <2>3. Max(past) = i
    BY <2>2, InstantsAre
  <2> QED
    BY <1>5, <1>6, <2>1, <2>3
<1>10. ASSUME i > 0, T[i] = None
       PROVE  CostEffectiveAt(T, i) = CostEffectiveAt(T, i - 1)
  <2>1. i - 1 \in Instants /\ i - 1 <= i
    BY <1>10, InstantsAre
  <2>2. \A b \in Breakpoints(T) : b # i /\ b \in Instants
    BY <1>10 DEF Breakpoints
  <2>3. \A b \in Breakpoints(T) : b <= i => b <= i - 1
    BY <2>2, InstantsAre
  <2> QED
    BY <2>1, <2>3, SamePast
<1> QED
  BY <1>7, <1>8, <1>9, <1>10

(* What the parts cost together, where all of them have a cost.            *)
PartsCost(parts, tl, i) ==
    IF \E e \in parts : CostEffectiveAt(tl[e], i) = None THEN None
    ELSE Together([e \in parts |-> CostEffectiveAt(tl[e], i) * e.quantity])

(* Versions where a cost starts and where it changes.                      *)
Derived(cost) ==
    [i \in Instants |->
       IF cost[i] # None /\ (i = 0 \/ cost[i] # cost[i - 1])
       THEN [cost |-> cost[i], source |-> "BUNDLE_ROLLUP"] ELSE None]

LEMMA DerivedCosts ==
    ASSUME NEW cost \in [Instants -> Nat \cup {None}],
           \A i \in Instants : i > 0 /\ cost[i] = None => cost[i - 1] = None
    PROVE  /\ Derived(cost) \in Timeline
           /\ \A i \in Instants : CostEffectiveAt(Derived(cost), i) = cost[i]
<1> DEFINE T == Derived(cost)
           S == {k \in 0..LastInstant : CostEffectiveAt(T, k) = cost[k]}
<1>1. \A i \in Instants :
         cost[i] # None => [cost |-> cost[i], source |-> "BUNDLE_ROLLUP"] \in Version
  BY DEF Version
<1>2. T \in Timeline
  BY <1>1 DEF Derived, Timeline
<1>3. \A i \in Instants : /\ T[i] = None <=> ~(cost[i] # None /\ (i = 0 \/ cost[i] # cost[i - 1]))
                          /\ T[i] # None => T[i].cost = cost[i]
  BY <1>1, NoneAssumption DEF Derived
<1> HIDE DEF T
<1>4. 0 \in S
  <2>1. CASE cost[0] # None
    BY <1>2, <1>3, <2>1, CostIs, InstantsAre
  <2>2. CASE cost[0] = None
    <3>1. T[0] = None
      BY <1>3, <2>2, InstantsAre
    <3>2. \A b \in Breakpoints(T) : b \in Nat /\ b # 0
      BY <3>1, InstantsAre DEF Breakpoints
    <3>3. CostEffectiveAt(T, 0) = None
      BY <1>2, <3>2, CostIs, InstantsAre
    <3> QED
      BY <2>2, <3>3, InstantsAre
  <2> QED
    BY <2>1, <2>2
<1>5. ASSUME NEW k \in 1..LastInstant, k - 1 \in S
      PROVE  k \in S
  <2>1. k \in Instants /\ k > 0 /\ k - 1 \in Instants /\ k # 0 /\ k \in 0..LastInstant
    BY InstantsAre
  <2>2. CostEffectiveAt(T, k - 1) = cost[k - 1]
    BY <1>5
  <2>3. CASE T[k] # None
    BY <1>2, <1>3, <2>1, <2>3, CostIs
  <2>4. CASE T[k] = None
    <3>1. CostEffectiveAt(T, k) = cost[k - 1]
      BY <1>2, <2>1, <2>2, <2>4, CostIs
    <3>2. cost[k] = cost[k - 1]
      BY <1>3, <2>1, <2>4
    <3> QED
      BY <2>1, <3>1, <3>2
  <2> QED
    BY <2>3, <2>4
<1>6. \A k \in 0..LastInstant : k \in S
  <2> HIDE DEF S
  <2> QED
    BY <1>4, <1>5, Climb, InstantsAre
<1> QED
  BY <1>2, <1>6, InstantsAre DEF T

(* The parts of a pack, each with a timeline that starts somewhere.        *)
ArePriced(parts, tl) ==
    /\ IsFiniteSet(parts) /\ parts # {}
    /\ \A e \in parts : e.quantity \in Nat
    /\ DOMAIN tl = parts /\ \A e \in parts : tl[e] \in Timeline /\ tl[e] # Empty

LEMMA PartsCostIs ==
    ASSUME NEW parts, NEW tl, IsFiniteSet(parts), NEW i \in Instants,
           \A e \in parts : e.quantity \in Nat /\ tl[e] \in Timeline
    PROVE  /\ PartsCost(parts, tl, i) \in Nat \cup {None}
           /\ PartsCost(parts, tl, i) = None <=>
                 \E e \in parts : CostEffectiveAt(tl[e], i) = None
<1> DEFINE f == [e \in parts |-> CostEffectiveAt(tl[e], i) * e.quantity]
<1>1. CASE \E e \in parts : CostEffectiveAt(tl[e], i) = None
  BY <1>1 DEF PartsCost
<1>2. CASE ~\E e \in parts : CostEffectiveAt(tl[e], i) = None
  <2>1. \A e \in parts : CostEffectiveAt(tl[e], i) \in Nat
    BY <1>2, CostIs
  <2>2. f \in [parts -> Nat]
    BY <2>1
  <2> HIDE DEF f
  <2>3. Together(f) \in Nat
    BY <2>2, TogetherIs
  <2> QED
    BY <1>2, <2>3, NoneAssumption DEF PartsCost, f
<1> QED
  BY <1>1, <1>2

(* A pack's timeline has its parts' cost, and no version that says nothing *)
(* new.                                                                    *)
LEMMA CombinedIs ==
    ASSUME NEW parts, NEW tl, ArePriced(parts, tl)
    PROVE  CombineComponentTimelines(parts, tl)
           = Derived([i \in Instants |-> PartsCost(parts, tl, i)])
<1> DEFINE firsts == {Min(Breakpoints(tl[e])) : e \in parts}
           breakpoints == UNION {Breakpoints(tl[e]) : e \in parts}
           start == Max(firsts)
           instants == {i \in breakpoints : i >= start}
           cost(i) == Together([e \in parts |-> CostEffectiveAt(tl[e], i) * e.quantity])
           C == [i \in Instants |-> PartsCost(parts, tl, i)]
           before(i) == {j \in instants : j < i}
<1>1. ASSUME NEW e \in parts
      PROVE  /\ Breakpoints(tl[e]) \in SUBSET Instants /\ Breakpoints(tl[e]) # {}
             /\ Min(Breakpoints(tl[e])) \in Breakpoints(tl[e])
             /\ \A y \in Breakpoints(tl[e]) : Min(Breakpoints(tl[e])) <= y
  <2>1. tl[e] \in Timeline /\ tl[e] # Empty
    BY DEF ArePriced
  <2>2. Breakpoints(tl[e]) \in SUBSET Instants /\ Breakpoints(tl[e]) # {}
    BY <2>1 DEF Breakpoints, Empty, Timeline
  <2> QED
    BY <2>2, LeastInstant
<1>2. firsts \in SUBSET Instants /\ firsts # {}
  BY <1>1 DEF ArePriced
<1>3. start \in firsts /\ \A x \in firsts : start >= x
  <2> HIDE DEF firsts
  <2> QED
    BY <1>2, LatestInstant
<1>4. start \in Instants /\ start \in breakpoints /\ breakpoints \in SUBSET Instants
  BY <1>1, <1>3
<1>5. \A e \in parts : Min(Breakpoints(tl[e])) <= start
  BY <1>1, <1>3, InstantsAre
<1>6. PICK last \in parts : start = Min(Breakpoints(tl[last]))
  BY <1>3
<1> HIDE DEF firsts, start
<1>7. ASSUME NEW i \in Instants
      PROVE  (\E e \in parts : CostEffectiveAt(tl[e], i) = None) <=> i < start
  <2>1. CASE i < start
    <3>1. ASSUME NEW b \in Breakpoints(tl[last]) PROVE ~(b <= i)
      <4>1. b \in Instants /\ start <= b
        BY <1>1, <1>6
      <4> QED
        BY <1>4, <2>1, <4>1, InstantsAre
    <3>2. CostEffectiveAt(tl[last], i) = None
      BY <3>1, CostIs DEF ArePriced
    <3> QED
      BY <2>1, <3>2
  <2>2. CASE ~(i < start)
    <3>1. ASSUME NEW e \in parts PROVE CostEffectiveAt(tl[e], i) # None
      <4> DEFINE first == Min(Breakpoints(tl[e]))
      <4>1. first \in Breakpoints(tl[e]) /\ first \in Instants
        BY <1>1
      <4>2. first <= start /\ start \in Instants
        BY <1>4, <1>5
      <4> HIDE DEF first
      <4>3. first <= i
        BY <2>2, <4>1, <4>2, InstantsAre
      <4> QED
        BY <4>1, <4>3, CostIs DEF ArePriced
    <3> QED
      BY <2>2, <3>1
  <2> QED
    BY <2>1, <2>2
<1>8. ASSUME NEW i \in Instants, NEW j \in Instants, start <= j, j <= i,
             \A b \in instants : b <= i => b <= j
      PROVE  cost(i) = cost(j)
  <2>1. ASSUME NEW e \in parts PROVE CostEffectiveAt(tl[e], i) = CostEffectiveAt(tl[e], j)
    <3>1. ASSUME NEW b \in Breakpoints(tl[e]), b <= i, ~(b <= j) PROVE FALSE
      <4>1. b \in breakpoints /\ b \in Instants
        BY <1>1
      <4>2. b >= start
        BY <1>4, <1>8, <3>1, <4>1, InstantsAre
      <4> QED
        BY <1>8, <3>1, <4>1, <4>2
    <3> QED
      BY <1>8, <3>1, SamePast
  <2> QED
    BY <2>1
<1>9. /\ \A i \in Instants : C[i] = IF i < start THEN None ELSE cost(i)
      /\ \A i \in Instants : ~(i < start) => C[i] # None
  <2>1. \A i \in Instants : C[i] = IF i < start THEN None ELSE cost(i)
    BY <1>7 DEF PartsCost
  <2>2. ASSUME NEW i \in Instants, ~(i < start) PROVE C[i] # None
    <3>1. ~\E e \in parts : CostEffectiveAt(tl[e], i) = None
      BY <1>7, <2>2
    <3> QED
      BY <3>1, PartsCostIs DEF ArePriced
  <2> QED
    BY <2>1, <2>2
<1>10. ASSUME NEW i \in Instants
       PROVE  (i \in instants /\ (i = start \/ cost(i) # cost(Max(before(i)))))
              <=> (C[i] # None /\ (i = 0 \/ C[i] # C[i - 1]))
  <2> HIDE DEF C, cost
  <2>1. CASE i < start
    BY <1>4, <1>9, <2>1, InstantsAre
  <2>2. CASE i = start
    <3>1. i # 0 => i - 1 \in Instants /\ i - 1 < start
      BY <2>2, InstantsAre
    <3>2. C[i] # None
      BY <1>9, <2>2, <1>4, InstantsAre
    <3> QED
      BY <1>4, <1>9, <2>2, <3>1, <3>2, InstantsAre
  <2>3. CASE i > start
    <3>1. i - 1 \in Instants /\ ~(i - 1 < start) /\ ~(i < start) /\ i # 0 /\ i # start
      BY <1>4, <2>3, InstantsAre
    <3>2. C[i] = cost(i) /\ C[i - 1] = cost(i - 1) /\ C[i] # None
      BY <1>9, <3>1
    <3>3. CASE i \in instants
      <4>1. before(i) \in SUBSET Instants /\ start \in before(i)
        BY <1>4, <2>3, InstantsAre
      <4>2. Max(before(i)) \in before(i) /\ \A y \in before(i) : Max(before(i)) >= y
        <5> DEFINE B == before(i)
        <5>1. B \in SUBSET Instants /\ B # {}
          BY <4>1
        <5> HIDE DEF B
        <5>2. Max(B) \in B /\ \A y \in B : Max(B) >= y
          BY <5>1, LatestInstant
        <5> QED
          BY <5>2 DEF B
      <4> DEFINE j == Max(before(i))
      <4>3. j \in Instants /\ j < i /\ start <= j /\ \A b \in instants : b < i => b <= j
        BY <1>4, <4>1, <4>2, InstantsAre
      <4> HIDE DEF j
      <4>4. j <= i - 1 /\ \A b \in instants : b <= i - 1 => b <= j
        BY <1>4, <4>3, InstantsAre
      <4>5. cost(i - 1) = cost(j)
        BY <1>8, <3>1, <4>3, <4>4 DEF cost
      <4> QED
        BY <3>1, <3>2, <3>3, <4>5 DEF j
    <3>4. CASE i \notin instants
      <4>1. \A b \in instants : b <= i => b <= i - 1
        BY <1>4, <3>4, InstantsAre
      <4>2. start <= i - 1 /\ i - 1 <= i
        BY <1>4, <3>1, InstantsAre
      <4>3. cost(i) = cost(i - 1)
        BY <1>8, <3>1, <4>1, <4>2 DEF cost
      <4> QED
        BY <3>1, <3>2, <3>4, <4>3
    <3> QED
      BY <3>3, <3>4
  <2> QED
    BY <1>4, <2>1, <2>2, <2>3, InstantsAre
<1>11. \A i \in Instants : C[i] # None => C[i] = cost(i)
  <2> HIDE DEF C, cost
  <2> QED
    BY <1>9
<1>12. CombineComponentTimelines(parts, tl)
       = [i \in Instants |->
            IF i \in instants /\ (i = start \/ cost(i) # cost(Max(before(i))))
            THEN [cost |-> cost(i), source |-> "BUNDLE_ROLLUP"] ELSE None]
  BY DEF CombineComponentTimelines, start, firsts
<1> HIDE DEF C, cost, instants, start, before
<1>13. CombineComponentTimelines(parts, tl) = Derived(C)
  BY <1>10, <1>11, <1>12 DEF Derived
<1> QED
  BY <1>13 DEF C

-----------------------------------------------------------------------------
(* The walk over packs within packs                                        *)

ComponentsIn(mapped, v) == {e \in mapped : e.bundle = v}

(* What the walk says of a variant inside of others, by what it says of    *)
(* those inside of one more.                                               *)
WalkAt(walk, mapped, base, inside, v) ==
    IF ComponentsIn(mapped, v) = {} THEN base[v]
    ELSE IF v \in inside \/ Cardinality(inside) > MaxDepth THEN Empty
    ELSE LET part == [e \in ComponentsIn(mapped, v) |-> walk[inside \cup {v}][e.component]]
         IN  IF \E e \in ComponentsIn(mapped, v) : part[e] = Empty THEN Empty
             ELSE CombineComponentTimelines(ComponentsIn(mapped, v), part)
Walks(walk, mapped, base, D) ==
    walk = [inside \in D |-> [v \in DOMAIN base |-> WalkAt(walk, mapped, base, inside, v)]]

LEMMA OneMore ==
    ASSUME NEW V, IsFiniteSet(V), NEW inside \in SUBSET V, NEW v \in V, v \notin inside
    PROVE  /\ inside \cup {v} \in SUBSET V
           /\ Cardinality(inside) \in Nat /\ Cardinality(V) \in Nat
           /\ Cardinality(inside \cup {v}) = Cardinality(inside) + 1
           /\ Cardinality(inside) + 1 <= Cardinality(V)
<1>1. IsFiniteSet(inside) /\ IsFiniteSet(inside \cup {v}) /\ inside \cup {v} \in SUBSET V
  BY FS_Subset
<1>2. Cardinality(inside \cup {v}) = Cardinality(inside) + 1
  BY <1>1, FS_AddElement
<1>3. Cardinality(inside \cup {v}) <= Cardinality(V)
  BY <1>1, FS_Subset
<1> QED
  BY <1>1, <1>2, <1>3, FS_CardinalityType

LEMMA WalkExists ==
    ASSUME NEW mapped, NEW base, IsFiniteSet(DOMAIN base)
    PROVE  \E walk : Walks(walk, mapped, base, SUBSET DOMAIN base)
<1> DEFINE V == DOMAIN base
           n == Cardinality(V)
           big(k) == {inside \in SUBSET V : n - Cardinality(inside) <= k}
           Done == {k \in 0..n : \E walk : Walks(walk, mapped, base, big(k))}
<1>0. n \in Nat
  BY FS_CardinalityType
<1>1. \A inside \in SUBSET V : Cardinality(inside) \in Nat /\ Cardinality(inside) <= n
  BY FS_Subset, FS_CardinalityType
<1>2. ASSUME NEW k \in 0..n, NEW inside \in big(k), NEW v \in V, v \notin inside
      PROVE  k >= 1 /\ inside \cup {v} \in big(k - 1)
  <2>1. inside \in SUBSET V /\ n - Cardinality(inside) <= k
    OBVIOUS
  <2>2. /\ inside \cup {v} \in SUBSET V /\ Cardinality(inside) \in Nat
        /\ Cardinality(inside \cup {v}) = Cardinality(inside) + 1
        /\ Cardinality(inside) + 1 <= n
    BY <1>2, <2>1, OneMore
  <2> QED
    BY <1>0, <2>1, <2>2
<1>3. \A k \in 1..n : big(k - 1) \subseteq big(k)
  BY <1>0, <1>1
<1>4. 0 \in Done
  <2> DEFINE walk == [inside \in big(0) |-> [v \in V |->
                        IF ComponentsIn(mapped, v) = {} THEN base[v] ELSE Empty]]
  <2>0. 0 \in 0..n
    BY <1>0
  <2>1. ASSUME NEW inside \in big(0), NEW v \in V PROVE v \in inside
    <3>1. inside \in SUBSET V /\ n - Cardinality(inside) <= 0
      OBVIOUS
    <3>2. v \notin inside => Cardinality(inside) \in Nat /\ Cardinality(inside) + 1 <= n
      BY <3>1, OneMore
    <3> QED
      BY <1>0, <3>1, <3>2
  <2>2. Walks(walk, mapped, base, big(0))
    <3> HIDE DEF big
    <3>1. \A inside \in big(0), v \in V :
             WalkAt(walk, mapped, base, inside, v)
             = IF ComponentsIn(mapped, v) = {} THEN base[v] ELSE Empty
      BY <2>1 DEF WalkAt
    <3> HIDE DEF walk
    <3>2. walk = [inside \in big(0) |-> [v \in V |-> WalkAt(walk, mapped, base, inside, v)]]
      BY <3>1 DEF walk
    <3> QED
      BY <3>2 DEF Walks
  <2> HIDE DEF walk, big
  <2> QED
    BY <2>0, <2>2
<1>5. ASSUME NEW k \in 1..n, k - 1 \in Done
      PROVE  k \in Done
  <2>1. PICK shorter : Walks(shorter, mapped, base, big(k - 1))
    BY <1>5
  <2> DEFINE walk == [inside \in big(k) |-> [v \in V |->
                        WalkAt(shorter, mapped, base, inside, v)]]
  <2>2. k \in 0..n
    BY <1>0
  <2> HIDE DEF big
  <2>3. \A inside \in big(k - 1) : walk[inside] = shorter[inside]
    BY <1>3, <2>1 DEF Walks
  <2>4. ASSUME NEW inside \in big(k), NEW v \in V
        PROVE  WalkAt(shorter, mapped, base, inside, v) = WalkAt(walk, mapped, base, inside, v)
    <3> HIDE DEF walk
    <3>1. CASE v \in inside
      BY <3>1 DEF WalkAt
    <3>2. CASE v \notin inside
      <4>1. shorter[inside \cup {v}] = walk[inside \cup {v}]
        BY <1>2, <2>2, <2>3, <3>2
      <4> QED
        BY <4>1 DEF WalkAt
    <3> QED
      BY <3>1, <3>2
  <2>5. walk = [inside \in big(k) |-> [v \in V |-> WalkAt(walk, mapped, base, inside, v)]]
    BY <2>4
  <2> HIDE DEF walk
  <2>6. Walks(walk, mapped, base, big(k))
    BY <2>5 DEF Walks
  <2> QED
    BY <2>2, <2>6
<1>6. n \in Done
  <2>1. n \in 0..n
    BY <1>0
  <2> HIDE DEF Done
  <2> QED
    BY <1>0, <1>4, <1>5, <2>1, Climb
<1>7. big(n) = SUBSET V
  BY <1>0, <1>1
<1> HIDE DEF big
<1> QED
  BY <1>6, <1>7

(* The timelines that are resolved are those of a walk inside of none.     *)
LEMMA ResolvedIs ==
    ASSUME NEW mapped, NEW base, IsFiniteSet(DOMAIN base)
    PROVE  \E walk : /\ Walks(walk, mapped, base, SUBSET DOMAIN base)
                     /\ ResolveBundleCostTimelines(mapped, base) = walk[{}]
<1> DEFINE Is(walk) == Walks(walk, mapped, base, SUBSET DOMAIN base)
           h == CHOOSE walk : Is(walk)
<1>1. \E walk : Is(walk)
  BY WalkExists
<1>2. Is(h)
  <2> HIDE DEF Is
  <2> QED
    BY <1>1
<1>3. ResolveBundleCostTimelines(mapped, base) = h[{}]
  BY DEF ResolveBundleCostTimelines, Walks, WalkAt, ComponentsIn
<1> HIDE DEF h
<1> QED
  BY <1>2, <1>3

-----------------------------------------------------------------------------
(* The costs by levels                                                     *)

(* The costs that were told are timelines, and mappings are of variants.   *)
Catalogued(mapped, base) ==
    /\ base \in [Variants -> Timeline] /\ IsFiniteSet(mapped)
    /\ \A e \in mapped : e.bundle \in Variants /\ e.component \in Variants /\ e.quantity \in Nat

PriceAt(prices, level, v, i) ==
    IF ComponentsOf(v) = {} THEN CostEffectiveAt(BaseTimelines[v], i)
    ELSE IF level = 0 THEN None
    ELSE IF \E e \in ComponentsOf(v) : prices[level - 1][e.component][i] = None THEN None
    ELSE Together([e \in ComponentsOf(v) |-> prices[level - 1][e.component][i] * e.quantity])
Prices(prices, n) ==
    prices = [level \in 0..n |-> [v \in Variants |-> [i \in Instants |->
                 PriceAt(prices, level, v, i)]]]

LEMMA PricesExist ==
    ASSUME NEW n \in Nat
    PROVE  \E prices : Prices(prices, n)
<1> DEFINE Done == {k \in 0..n : \E prices : Prices(prices, k)}
<1>1. 0 \in Done
  <2> DEFINE prices == [level \in 0..0 |-> [v \in Variants |-> [i \in Instants |->
                          IF ComponentsOf(v) = {} THEN CostEffectiveAt(BaseTimelines[v], i)
                          ELSE None]]]
  <2>1. \A v \in Variants, i \in Instants :
           PriceAt(prices, 0, v, i)
           = IF ComponentsOf(v) = {} THEN CostEffectiveAt(BaseTimelines[v], i) ELSE None
    <3> HIDE DEF prices
    <3> QED
      BY DEF PriceAt
  <2>2. \A level \in 0..0 : level = 0
    OBVIOUS
  <2>3. prices = [level \in 0..0 |-> [v \in Variants |-> [i \in Instants |->
                    PriceAt(prices, level, v, i)]]]
    <3> DEFINE other == [level \in 0..0 |-> [v \in Variants |-> [i \in Instants |->
                           PriceAt(prices, level, v, i)]]]
    <3>1. \A level \in 0..0 : prices[level] = other[level]
      <4>1. \A level \in 0..0, v \in Variants, i \in Instants :
              PriceAt(prices, level, v, i)
              = IF ComponentsOf(v) = {} THEN CostEffectiveAt(BaseTimelines[v], i) ELSE None
        BY <2>1, <2>2
      <4> QED
        BY <4>1
    <3> QED
      BY <3>1
  <2> HIDE DEF prices
  <2>4. Prices(prices, 0)
    BY <2>3 DEF Prices
  <2> QED
    BY <2>4
<1>2. ASSUME NEW k \in 1..n, k - 1 \in Done
      PROVE  k \in Done
  <2>1. PICK lower : Prices(lower, k - 1)
    BY <1>2
  <2> DEFINE prices == [level \in 0..k |-> [v \in Variants |-> [i \in Instants |->
                          PriceAt(lower, level, v, i)]]]
  <2>2. ASSUME NEW level \in 0..(k - 1)
        PROVE  level \in 0..k /\ prices[level] = lower[level]
    <3>1. level \in 0..k
      OBVIOUS
    <3>2. lower[level] = [v \in Variants |-> [i \in Instants |-> PriceAt(lower, level, v, i)]]
      BY <2>1 DEF Prices
    <3>3. prices[level] = [v \in Variants |-> [i \in Instants |-> PriceAt(lower, level, v, i)]]
      BY <3>1
    <3> QED
      BY <3>1, <3>2, <3>3
  <2>3. ASSUME NEW level \in 0..k, NEW v \in Variants, NEW i \in Instants
        PROVE  PriceAt(lower, level, v, i) = PriceAt(prices, level, v, i)
    <3> HIDE DEF prices
    <3>1. CASE level = 0
      BY <3>1 DEF PriceAt
    <3>2. CASE level # 0
      <4>1. level - 1 \in 0..(k - 1)
        BY <3>2
      <4>2. prices[level - 1] = lower[level - 1]
        BY <2>2, <4>1
      <4> QED
        BY <4>2 DEF PriceAt
    <3> QED
      BY <3>1, <3>2
  <2>4. prices = [level \in 0..k |-> [v \in Variants |-> [i \in Instants |->
                    PriceAt(prices, level, v, i)]]]
    <3> DEFINE other == [level \in 0..k |-> [v \in Variants |-> [i \in Instants |->
                           PriceAt(prices, level, v, i)]]]
    <3>1. ASSUME NEW level \in 0..k PROVE prices[level] = other[level]
      BY <2>3
    <3> QED
      BY <3>1
  <2> HIDE DEF prices
  <2>5. Prices(prices, k)
    BY <2>4 DEF Prices
  <2>6. k \in 0..n
    OBVIOUS
  <2> QED
    BY <2>5, <2>6
<1>3. n \in Done
  <2>1. n \in 0..n
    OBVIOUS
  <2> HIDE DEF Done
  <2> QED
    BY <1>1, <1>2, <2>1, Climb
<1> QED
  BY <1>3

LEMMA CostAtIs ==
    /\ Cardinality(Variants) \in Nat
    /\ \A level \in 0..Cardinality(Variants), v \in Variants, i \in Instants :
          CostAt[level][v][i] = PriceAt(CostAt, level, v, i)
<1> DEFINE n == Cardinality(Variants)
           Is(prices) == Prices(prices, n)
<1>1. n \in Nat
  BY VariantsAssumption, FS_CardinalityType
<1>2. \E prices : Is(prices)
  BY <1>1, PricesExist
<1>3. CostAt = CHOOSE prices : Is(prices)
  BY DEF CostAt, Prices, PriceAt
<1>4. Is(CostAt)
  <2> HIDE DEF Is
  <2> QED
    BY <1>2, <1>3
<1>5. CostAt = [level \in 0..n |-> [v \in Variants |-> [i \in Instants |->
                  PriceAt(CostAt, level, v, i)]]]
  BY <1>4 DEF Prices
<1>6. ASSUME NEW level \in 0..n, NEW v \in Variants, NEW i \in Instants
      PROVE  CostAt[level][v][i] = PriceAt(CostAt, level, v, i)
  <2>1. CostAt[level] = [u \in Variants |-> [j \in Instants |-> PriceAt(CostAt, level, u, j)]]
    BY <1>5
  <2>2. CostAt[level][v] = [j \in Instants |-> PriceAt(CostAt, level, v, j)]
    BY <2>1
  <2> QED
    BY <2>2
<1> QED
  BY <1>1, <1>6

(* A cost that some levels are enough for stays as it is with one more.    *)
LEMMA PricesStay ==
    ASSUME Catalogued(ConfirmedEdges, BaseTimelines), NEW k \in 1..Cardinality(Variants),
           NEW v \in Variants, NEW i \in Instants,
           CostAt[k - 1][v][i] # None
    PROVE  CostAt[k][v][i] = CostAt[k - 1][v][i]
<1> DEFINE n == Cardinality(Variants)
           Stays(m) == \A u \in Variants : CostAt[m - 1][u][i] # None
                                           => CostAt[m][u][i] = CostAt[m - 1][u][i]
           S == {m \in 0..n : m = 0 \/ Stays(m)}
<1>1. n \in Nat
  BY CostAtIs
<1>2. 0 \in S
  BY <1>1
<1>3. ASSUME NEW m \in 1..n, m - 1 \in S
      PROVE  m \in S
  <2>1. m \in 0..n /\ m - 1 \in 0..n /\ m # 0
    BY <1>1
  <2>2. m - 1 = 0 \/ Stays(m - 1)
    BY <1>3
  <2> HIDE DEF Stays
  <2>3. ASSUME NEW u \in Variants, CostAt[m - 1][u][i] # None
        PROVE  CostAt[m][u][i] = CostAt[m - 1][u][i]
    <3>1. /\ CostAt[m][u][i] = PriceAt(CostAt, m, u, i)
          /\ CostAt[m - 1][u][i] = PriceAt(CostAt, m - 1, u, i)
      BY <1>1, <2>1, CostAtIs
    <3>2. CASE ComponentsOf(u) = {}
      BY <3>1, <3>2 DEF PriceAt
    <3>3. CASE ComponentsOf(u) # {}
      <4>1. /\ m - 1 # 0
            /\ \A e \in ComponentsOf(u) : CostAt[m - 1 - 1][e.component][i] # None
            /\ CostAt[m - 1][u][i] = Together([e \in ComponentsOf(u) |->
                                        CostAt[m - 1 - 1][e.component][i] * e.quantity])
        BY <2>3, <3>1, <3>3 DEF PriceAt
      <4>2. \A e \in ComponentsOf(u) : e.component \in Variants
        BY DEF Catalogued, ComponentsOf
      <4>3. \A e \in ComponentsOf(u) :
              CostAt[m - 1][e.component][i] = CostAt[m - 1 - 1][e.component][i]
        BY <2>2, <4>1, <4>2 DEF Stays
      <4>4. [e \in ComponentsOf(u) |-> CostAt[m - 1][e.component][i] * e.quantity]
            = [e \in ComponentsOf(u) |-> CostAt[m - 1 - 1][e.component][i] * e.quantity]
        BY <4>3
      <4>5. ~\E e \in ComponentsOf(u) : CostAt[m - 1][e.component][i] = None
        BY <4>1, <4>3
      <4>6. PriceAt(CostAt, m, u, i)
            = Together([e \in ComponentsOf(u) |-> CostAt[m - 1][e.component][i] * e.quantity])
        BY <2>1, <3>3, <4>5 DEF PriceAt
      <4> QED
        BY <3>1, <4>1, <4>4, <4>6
    <3> QED
      BY <3>2, <3>3
  <2>4. Stays(m)
    BY <2>3 DEF Stays
  <2> QED
    BY <2>1, <2>4
<1>4. \A m \in 0..n : m \in S
  <2> HIDE DEF S
  <2> QED
    BY <1>1, <1>2, <1>3, Climb
<1>5. k \in 0..n /\ k # 0
  BY <1>1
<1> QED
  BY <1>4, <1>5

(* What the walk says a pack costs, inside of others.                      *)
InnerParts(walk, parts, inside, v) ==
    [e \in parts |-> walk[inside \cup {v}][e.component]]
InnerCost(walk, parts, inside, v, i) ==
    IF v \in inside \/ Cardinality(inside) > MaxDepth THEN None
    ELSE PartsCost(parts, InnerParts(walk, parts, inside, v), i)
InnerCosts(walk, parts, inside, v) == [i \in Instants |-> InnerCost(walk, parts, inside, v, i)]

LEMMA PartsAre ==
    ASSUME NEW mapped, NEW base, Catalogued(mapped, base), NEW v \in Variants
    PROVE  /\ IsFiniteSet(ComponentsIn(mapped, v))
           /\ \A e \in ComponentsIn(mapped, v) : e.component \in Variants /\ e.quantity \in Nat
<1>1. ComponentsIn(mapped, v) \subseteq mapped
  BY DEF ComponentsIn
<1> QED
  BY <1>1, FS_Subset DEF Catalogued

LEMMA EmptyCosts ==
    ASSUME NEW i \in Instants
    PROVE  Empty \in Timeline /\ CostEffectiveAt(Empty, i) = None
<1>1. Empty \in Timeline
  BY DEF Empty, Timeline
<1>2. Breakpoints(Empty) = {}
  BY DEF Empty, Breakpoints
<1> QED
  BY <1>1, <1>2, CostIs

WalkIs(mapped, base, walk, inside, v) ==
    /\ ComponentsIn(mapped, v) = {} => walk[inside][v] = base[v]
    /\ ComponentsIn(mapped, v) # {} =>
         /\ walk[inside][v] = Derived(InnerCosts(walk, ComponentsIn(mapped, v), inside, v))
         /\ \A i \in Instants : CostEffectiveAt(walk[inside][v], i)
                                = InnerCost(walk, ComponentsIn(mapped, v), inside, v, i)

(* One step of the walk: what a pack costs by what its components cost.    *)
LEMMA WalkStep ==
    ASSUME NEW mapped, NEW base, Catalogued(mapped, base),
           NEW walk, Walks(walk, mapped, base, SUBSET Variants),
           NEW inside \in SUBSET Variants, NEW v \in Variants,
           v \notin inside => \A u \in Variants : walk[inside \cup {v}][u] \in Timeline
    PROVE  walk[inside][v] \in Timeline /\ WalkIs(mapped, base, walk, inside, v)
<1> DEFINE parts == ComponentsIn(mapped, v)
           tl == InnerParts(walk, parts, inside, v)
           C == [i \in Instants |-> InnerCost(walk, parts, inside, v, i)]
<1>0. C = InnerCosts(walk, parts, inside, v)
  BY DEF InnerCosts
<1>1. walk[inside][v] = WalkAt(walk, mapped, base, inside, v)
  <2>1. DOMAIN base = Variants
    BY DEF Catalogued
  <2> QED
    BY <2>1 DEF Walks
<1>2. IsFiniteSet(parts) /\ \A e \in parts : e.component \in Variants /\ e.quantity \in Nat
  BY PartsAre
<1>3. CASE parts = {}
  <2>1. walk[inside][v] = base[v]
    BY <1>1, <1>2, <1>3 DEF WalkAt
  <2> QED
    BY <1>3, <2>1 DEF Catalogued, WalkIs
<1>4. CASE parts # {}
  <2>1. walk[inside][v] = IF v \in inside \/ Cardinality(inside) > MaxDepth THEN Empty
                          ELSE IF \E e \in parts : tl[e] = Empty THEN Empty
                          ELSE CombineComponentTimelines(parts, tl)
    BY <1>1, <1>2, <1>4 DEF WalkAt, InnerParts
  <2>2. CASE v \in inside \/ Cardinality(inside) > MaxDepth
    <3>1. walk[inside][v] = Empty /\ \A i \in Instants : InnerCost(walk, parts, inside, v, i) = None
      BY <2>1, <2>2 DEF InnerCost
    <3>2. Derived(C) = Empty
      BY <3>1 DEF Derived, Empty
    <3>3. walk[inside][v] \in Timeline /\ walk[inside][v] = Derived(C)
      <4> HIDE DEF C
      <4> QED
        BY <3>1, <3>2, EmptyCosts, InstantsAre
    <3>4. \A i \in Instants : CostEffectiveAt(walk[inside][v], i)
                              = InnerCost(walk, parts, inside, v, i)
      BY <3>1, EmptyCosts
    <3> QED
      BY <1>0, <1>4, <3>3, <3>4 DEF WalkIs
  <2>3. CASE ~(v \in inside \/ Cardinality(inside) > MaxDepth)
    <3>1. DOMAIN tl = parts /\ \A e \in parts : tl[e] \in Timeline
      BY <1>2, <2>3 DEF InnerParts
    <3>2. \A i \in Instants : C[i] = PartsCost(parts, tl, i)
      BY <2>3 DEF InnerCost
    <3>3. C = [i \in Instants |-> PartsCost(parts, tl, i)]
      BY <3>2
    <3>4. C \in [Instants -> Nat \cup {None}]
      <4> HIDE DEF tl, parts
      <4>1. \A i \in Instants : PartsCost(parts, tl, i) \in Nat \cup {None}
        BY <1>2, <3>1, PartsCostIs
      <4> QED
        BY <3>3, <4>1
    <3>5. ASSUME NEW i \in Instants, i > 0, C[i] = None PROVE C[i - 1] = None
      <4> HIDE DEF tl, parts, C
      <4>1. i - 1 \in Instants /\ i - 1 < i /\ i \in Nat
        BY <3>5, InstantsAre
      <4>2. PICK e \in parts : CostEffectiveAt(tl[e], i) = None
        BY <1>2, <3>1, <3>2, <3>5, PartsCostIs
      <4>3. \A b \in Breakpoints(tl[e]) : ~(b <= i) /\ b \in Nat
        BY <3>1, <4>2, CostIs, InstantsAre DEF Breakpoints
      <4>4. \A b \in Breakpoints(tl[e]) : ~(b <= i - 1)
        BY <4>1, <4>3
      <4>5. CostEffectiveAt(tl[e], i - 1) = None
        BY <3>1, <4>1, <4>4, CostIs
      <4> QED
        BY <1>2, <3>1, <3>2, <4>1, <4>5, PartsCostIs
    <3>6. Derived(C) \in Timeline /\ \A i \in Instants : CostEffectiveAt(Derived(C), i) = C[i]
      <4> HIDE DEF C
      <4> QED
        BY <3>4, <3>5, DerivedCosts
    <3>7. walk[inside][v] = Derived(C)
      <4> HIDE DEF C
      <4>1. CASE \E e \in parts : tl[e] = Empty
        <5>1. \A i \in Instants : C[i] = None
          <6> HIDE DEF tl, parts
          <6>1. \A i \in Instants : \E e \in parts : CostEffectiveAt(tl[e], i) = None
            BY <4>1, EmptyCosts
          <6> QED
            BY <3>2, <6>1 DEF PartsCost
        <5>2. Derived(C) = Empty
          BY <5>1 DEF Derived, Empty
        <5> QED
          BY <2>1, <2>3, <4>1, <5>2
      <4>2. CASE ~\E e \in parts : tl[e] = Empty
        <5>1. walk[inside][v] = CombineComponentTimelines(parts, tl)
          BY <2>1, <2>3, <4>2
        <5> HIDE DEF tl, parts
        <5>2. ArePriced(parts, tl)
          BY <1>2, <1>4, <3>1, <4>2 DEF ArePriced
        <5> QED
          BY <3>3, <5>1, <5>2, CombinedIs
      <4> QED
        BY <4>1, <4>2
    <3> QED
      BY <1>0, <1>4, <3>6, <3>7 DEF WalkIs
  <2> QED
    BY <2>2, <2>3
<1> QED
  BY <1>3, <1>4

LEMMA OwnParts == \A v : ComponentsOf(v) = ComponentsIn(ConfirmedEdges, v)
  BY DEF ComponentsOf, ComponentsIn

(* Packs, each in the one before, all different.                           *)
IsChain(c, n) ==
    /\ c \in [1..n -> Variants]
    /\ \A j, k \in 1..n : c[j] = c[k] => j = k
    /\ \A k \in 1..n : ComponentsOf(c[k]) # {}
    /\ \A k \in 1..n : k < n => \E e \in ComponentsOf(c[k]) : e.component = c[k + 1]
NestingIsAllowed == \A n \in Nat : (\E c : IsChain(c, n)) => n <= MaxDepth + 1

(* The packs a walk is inside of, the last of which holds the next one.    *)
Leads(inside, v) ==
    \E c : /\ IsChain(c, Cardinality(inside))
           /\ \A k \in 1..Cardinality(inside) : c[k] \in inside
           /\ Cardinality(inside) > 0 =>
                 \E e \in ComponentsOf(c[Cardinality(inside)]) : e.component = v

LEMMA LeadsOn ==
    ASSUME NEW inside \in SUBSET Variants, NEW v \in Variants, v \notin inside,
           ComponentsOf(v) # {}, Leads(inside, v), NestingIsAllowed
    PROVE  /\ ~(Cardinality(inside) > MaxDepth)
           /\ \A e \in ComponentsOf(v) : Leads(inside \cup {v}, e.component)
<1> DEFINE n == Cardinality(inside)
           more == inside \cup {v}
<1>1. n \in Nat /\ Cardinality(more) = n + 1
  BY VariantsAssumption, OneMore
<1>2. PICK c : /\ IsChain(c, n) /\ \A k \in 1..n : c[k] \in inside
               /\ n > 0 => \E e \in ComponentsOf(c[n]) : e.component = v
  BY DEF Leads
<1> DEFINE d == [k \in 1..(n + 1) |-> IF k = n + 1 THEN v ELSE c[k]]
<1> HIDE DEF n
<1>3. /\ d \in [1..(n + 1) -> Variants] /\ d[n + 1] = v
      /\ \A k \in 1..n : k \in 1..(n + 1) /\ d[k] = c[k] /\ k # n + 1
      /\ \A k \in 1..(n + 1) : k = n + 1 \/ k \in 1..n
  BY <1>1, <1>2 DEF IsChain
<1> HIDE DEF d
<1>4. \A j, k \in 1..(n + 1) : d[j] = d[k] => j = k
  <2>1. \A k \in 1..n : d[k] # v
    BY <1>2, <1>3
  <2> QED
    BY <1>2, <1>3, <2>1 DEF IsChain
<1>5. \A k \in 1..(n + 1) : ComponentsOf(d[k]) # {}
  BY <1>2, <1>3 DEF IsChain
<1>6. ASSUME NEW k \in 1..(n + 1), k < n + 1
      PROVE  \E e \in ComponentsOf(d[k]) : e.component = d[k + 1]
  <2>1. k \in 1..n /\ d[k] = c[k]
    BY <1>3, <1>6
  <2>2. CASE k = n
    <3>1. n > 0 /\ d[k + 1] = v
      BY <1>1, <1>3, <2>1, <2>2
    <3> QED
      BY <1>2, <2>1, <2>2, <3>1
  <2>3. CASE k # n
    <3>1. k < n /\ k + 1 \in 1..n
      BY <1>1, <2>1, <2>3
    <3>2. d[k + 1] = c[k + 1]
      BY <1>3, <3>1
    <3> QED
      BY <1>2, <2>1, <3>1, <3>2 DEF IsChain
  <2> QED
    BY <2>2, <2>3
<1>7. IsChain(d, n + 1)
  BY <1>3, <1>4, <1>5, <1>6 DEF IsChain
<1>8. n + 1 <= MaxDepth + 1 /\ n + 1 \in Nat
  BY <1>1, <1>7 DEF NestingIsAllowed
<1>9. ~(n > MaxDepth)
  BY <1>1, <1>8, NumbersAssumption
<1>10. \A k \in 1..(n + 1) : d[k] \in more
  BY <1>2, <1>3
<1>11. ASSUME NEW e \in ComponentsOf(v)
       PROVE  Leads(more, e.component)
  BY <1>1, <1>3, <1>7, <1>10 DEF Leads
<1> QED
  BY <1>9, <1>11 DEF n

LEMMA WalkTyped ==
    ASSUME NEW mapped, NEW base, Catalogued(mapped, base),
           NEW walk, Walks(walk, mapped, base, SUBSET Variants)
    PROVE  \A inside \in SUBSET Variants, v \in Variants : walk[inside][v] \in Timeline
<1> DEFINE n == Cardinality(Variants)
           S == {k \in 0..n : \A inside \in SUBSET Variants :
                   n - Cardinality(inside) <= k => \A v \in Variants : walk[inside][v] \in Timeline}
<1>1. n \in Nat
  BY CostAtIs
<1>2. \A inside \in SUBSET Variants : Cardinality(inside) \in Nat /\ Cardinality(inside) <= n
  BY VariantsAssumption, FS_Subset, FS_CardinalityType
<1>3. \A inside \in SUBSET Variants, v \in Variants : v \notin inside =>
         /\ inside \cup {v} \in SUBSET Variants
         /\ Cardinality(inside \cup {v}) = Cardinality(inside) + 1
         /\ Cardinality(inside) + 1 <= n
  BY VariantsAssumption, OneMore
<1>4. 0 \in S
  <2>1. ASSUME NEW inside \in SUBSET Variants, n - Cardinality(inside) <= 0, NEW v \in Variants
        PROVE  walk[inside][v] \in Timeline
    <3>1. ASSUME v \notin inside PROVE FALSE
      <4>1. Cardinality(inside) + 1 <= n /\ Cardinality(inside) \in Nat
        BY <1>2, <1>3, <3>1
      <4> QED
        BY <1>1, <2>1, <4>1
    <3> QED
      BY <3>1, WalkStep
  <2> QED
    BY <1>1, <2>1
<1>5. ASSUME NEW k \in 1..n, k - 1 \in S
      PROVE  k \in S
  <2>1. ASSUME NEW inside \in SUBSET Variants, n - Cardinality(inside) <= k, NEW v \in Variants
        PROVE  walk[inside][v] \in Timeline
    <3>1. ASSUME v \notin inside
          PROVE  \A u \in Variants : walk[inside \cup {v}][u] \in Timeline
      <4>1. /\ inside \cup {v} \in SUBSET Variants
            /\ Cardinality(inside \cup {v}) = Cardinality(inside) + 1
        BY <1>3, <3>1
      <4>2. n - Cardinality(inside \cup {v}) <= k - 1
        BY <1>1, <1>2, <2>1, <4>1
      <4> QED
        BY <1>5, <4>1, <4>2
    <3> QED
      BY <3>1, WalkStep
  <2>2. k \in 0..n
    BY <1>1
  <2> QED
    BY <2>1, <2>2
<1>6. n \in S
  <2>1. n \in 0..n
    BY <1>1
  <2> HIDE DEF S
  <2> QED
    BY <1>1, <1>4, <1>5, <2>1, Climb
<1>7. \A inside \in SUBSET Variants : n - Cardinality(inside) <= n
  BY <1>1, <1>2
<1> QED
  BY <1>6, <1>7

LEMMA WalkCosts ==
    ASSUME Catalogued(ConfirmedEdges, BaseTimelines),
           NEW walk, Walks(walk, ConfirmedEdges, BaseTimelines, SUBSET Variants),
           NEW inside \in SUBSET Variants, NEW v \in Variants
    PROVE  /\ ComponentsOf(v) = {} => walk[inside][v] = BaseTimelines[v]
           /\ ComponentsOf(v) # {} =>
                /\ walk[inside][v] = Derived(InnerCosts(walk, ComponentsOf(v), inside, v))
                /\ \A i \in Instants : CostEffectiveAt(walk[inside][v], i)
                                       = InnerCost(walk, ComponentsOf(v), inside, v, i)
<1>1. v \notin inside => \A u \in Variants : walk[inside \cup {v}][u] \in Timeline
  <2>1. inside \cup {v} \in SUBSET Variants
    OBVIOUS
  <2> QED
    BY <2>1, WalkTyped
<1> DEFINE parts == ComponentsIn(ConfirmedEdges, v)
<1>2. ComponentsOf(v) = parts
  BY OwnParts
<1>3. /\ parts = {} => walk[inside][v] = BaseTimelines[v]
      /\ parts # {} =>
           /\ walk[inside][v] = Derived(InnerCosts(walk, parts, inside, v))
           /\ \A i \in Instants : CostEffectiveAt(walk[inside][v], i)
                                  = InnerCost(walk, parts, inside, v, i)
  <2>1. WalkIs(ConfirmedEdges, BaseTimelines, walk, inside, v)
    BY <1>1, WalkStep
  <2> QED
    BY <2>1 DEF WalkIs
<1> HIDE DEF parts
<1> QED
  BY <1>2, <1>3

(* What the walk says that a variant costs is its cost by levels: as many  *)
(* as there are variants left.                                             *)
LEMMA WalkIsRight ==
    ASSUME Catalogued(ConfirmedEdges, BaseTimelines), NEW walk,
           Walks(walk, ConfirmedEdges, BaseTimelines, SUBSET Variants),
           NEW i \in Instants
    PROVE  \A v \in Variants :
              CostEffectiveAt(walk[{}][v], i) # None
              => CostAt[Cardinality(Variants)][v][i] = CostEffectiveAt(walk[{}][v], i)
<1> DEFINE n == Cardinality(Variants)
           Right(k) == \A inside \in SUBSET Variants, v \in Variants :
              (Cardinality(inside) + k = n /\ CostEffectiveAt(walk[inside][v], i) # None)
              => CostAt[k][v][i] = CostEffectiveAt(walk[inside][v], i)
           S == {k \in 0..n : Right(k)}
<1>1. n \in Nat
  BY CostAtIs
<1>2. \A inside \in SUBSET Variants : Cardinality(inside) \in Nat
  BY VariantsAssumption, FS_Subset, FS_CardinalityType
<1>3. \A inside \in SUBSET Variants, v \in Variants : v \notin inside =>
         /\ inside \cup {v} \in SUBSET Variants
         /\ Cardinality(inside \cup {v}) = Cardinality(inside) + 1
         /\ Cardinality(inside) + 1 <= n
  BY VariantsAssumption, OneMore
<1>4. ASSUME NEW k \in 0..n, NEW inside \in SUBSET Variants, NEW v \in Variants,
             Cardinality(inside) + k = n, CostEffectiveAt(walk[inside][v], i) # None,
             k > 0 => Right(k - 1)
      PROVE  CostAt[k][v][i] = CostEffectiveAt(walk[inside][v], i)
  <2> HIDE DEF Right
  <2>1. CostAt[k][v][i] = PriceAt(CostAt, k, v, i)
    BY CostAtIs
  <2>2. CASE ComponentsOf(v) = {}
    BY <2>1, <2>2, WalkCosts DEF PriceAt
  <2>3. CASE ComponentsOf(v) # {}
    <3> DEFINE parts == ComponentsOf(v)
               tl == InnerParts(walk, parts, inside, v)
    <3>1. CostEffectiveAt(walk[inside][v], i) = InnerCost(walk, parts, inside, v, i)
      BY <2>3, WalkCosts
    <3>2. v \notin inside /\ InnerCost(walk, parts, inside, v, i) = PartsCost(parts, tl, i)
      BY <1>4, <3>1 DEF InnerCost
    <3>3. /\ \A e \in parts : CostEffectiveAt(tl[e], i) # None
          /\ PartsCost(parts, tl, i)
             = Together([e \in parts |-> CostEffectiveAt(tl[e], i) * e.quantity])
      BY <1>4, <3>1, <3>2 DEF PartsCost
    <3>4. /\ inside \cup {v} \in SUBSET Variants
          /\ Cardinality(inside \cup {v}) + (k - 1) = n /\ k > 0
      <4>1. /\ inside \cup {v} \in SUBSET Variants /\ Cardinality(inside) \in Nat
            /\ Cardinality(inside \cup {v}) = Cardinality(inside) + 1
            /\ Cardinality(inside) + 1 <= n
        BY <1>2, <1>3, <3>2
      <4> HIDE DEF n
      <4> QED
        BY <1>1, <1>4, <4>1
    <3>5. ASSUME NEW e \in parts
          PROVE  CostAt[k - 1][e.component][i] = CostEffectiveAt(tl[e], i)
      <4>1. e.component \in Variants
        BY PartsAre, OwnParts
      <4>2. tl[e] = walk[inside \cup {v}][e.component]
        BY DEF InnerParts
      <4> QED
        BY <1>4, <3>3, <3>4, <4>1, <4>2 DEF Right
    <3>6. [e \in parts |-> CostAt[k - 1][e.component][i] * e.quantity]
          = [e \in parts |-> CostEffectiveAt(tl[e], i) * e.quantity]
      BY <3>5
    <3>7. ~\E e \in parts : CostAt[k - 1][e.component][i] = None
      BY <3>3, <3>5
    <3>8. PriceAt(CostAt, k, v, i)
          = Together([e \in parts |-> CostAt[k - 1][e.component][i] * e.quantity])
      BY <2>3, <3>4, <3>7 DEF PriceAt
    <3> QED
      BY <2>1, <3>1, <3>2, <3>3, <3>6, <3>8
  <2> QED
    BY <2>2, <2>3
<1>5. 0 \in S
  <2>1. 0 \in 0..n /\ ~(0 > 0)
    BY <1>1
  <2>2. Right(0)
    BY <1>4, <2>1
  <2> QED
    BY <2>1, <2>2
<1>6. ASSUME NEW k \in 1..n, k - 1 \in S
      PROVE  k \in S
  <2>1. k \in 0..n /\ Right(k - 1)
    BY <1>1, <1>6
  <2>2. Right(k)
    <3>1. ASSUME NEW inside \in SUBSET Variants, NEW v \in Variants, Cardinality(inside) + k = n,
                 CostEffectiveAt(walk[inside][v], i) # None
          PROVE  CostAt[k][v][i] = CostEffectiveAt(walk[inside][v], i)
      <4> HIDE DEF Right
      <4> QED
        BY <1>4, <2>1, <3>1
    <3> QED
      BY <3>1
  <2> QED
    BY <2>1, <2>2
<1>7. Right(n)
  <2>1. n \in 0..n
    BY <1>1
  <2>2. n \in S
    <3> HIDE DEF S
    <3> QED
      BY <1>1, <1>5, <1>6, <2>1, Climb
  <2> QED
    BY <2>2
<1>8. {} \in SUBSET Variants /\ Cardinality({}) + n = n
  BY <1>1, FS_EmptySet
<1> QED
  BY <1>7, <1>8

(* The walk finds every cost: what has one by some levels does not contain *)
(* itself, for a pack in a circle has none by any.                         *)
LEMMA WalkIsComplete ==
    ASSUME Catalogued(ConfirmedEdges, BaseTimelines), NestingIsAllowed, NEW walk,
           Walks(walk, ConfirmedEdges, BaseTimelines, SUBSET Variants), NEW i \in Instants
    PROVE  \A v \in Variants : CostAt[Cardinality(Variants)][v][i] # None
                               => CostEffectiveAt(walk[{}][v], i) # None
<1> DEFINE n == Cardinality(Variants)
           Found(k) == \A inside \in SUBSET Variants, v \in Variants :
              (/\ CostAt[k][v][i] # None /\ Leads(inside, v)
               /\ \A x \in inside : CostAt[k][x][i] = None)
              => CostEffectiveAt(walk[inside][v], i) # None
           S == {k \in 0..n : Found(k)}
<1>1. n \in Nat
  BY CostAtIs
<1>2. ASSUME NEW k \in 0..n, NEW inside \in SUBSET Variants, NEW v \in Variants,
             CostAt[k][v][i] # None, Leads(inside, v), \A x \in inside : CostAt[k][x][i] = None,
             k > 0 => Found(k - 1)
      PROVE  CostEffectiveAt(walk[inside][v], i) # None
  <2> HIDE DEF Found
  <2>1. CostAt[k][v][i] = PriceAt(CostAt, k, v, i)
    BY CostAtIs
  <2>2. CASE ComponentsOf(v) = {}
    BY <1>2, <2>1, <2>2, WalkCosts DEF PriceAt
  <2>3. CASE ComponentsOf(v) # {}
    <3> DEFINE parts == ComponentsOf(v)
               tl == InnerParts(walk, parts, inside, v)
               more == inside \cup {v}
    <3>1. /\ k > 0 /\ k \in 1..n
          /\ \A e \in parts : CostAt[k - 1][e.component][i] # None
      BY <1>1, <1>2, <2>1, <2>3 DEF PriceAt
    <3>2. ASSUME NEW x \in inside PROVE CostAt[k - 1][x][i] = None
      BY <1>2, <3>1, <3>2, PricesStay
    <3>3. CASE CostAt[k - 1][v][i] # None
      BY <1>2, <3>1, <3>2, <3>3 DEF Found
    <3>4. CASE CostAt[k - 1][v][i] = None
      <4>1. v \notin inside /\ more \in SUBSET Variants
        BY <1>2
      <4>2. /\ ~(Cardinality(inside) > MaxDepth)
            /\ \A e \in parts : Leads(more, e.component)
        BY <1>2, <2>3, <4>1, LeadsOn
      <4>3. \A x \in more : CostAt[k - 1][x][i] = None
        BY <3>2, <3>4
      <4>4. ASSUME NEW e \in parts PROVE CostEffectiveAt(tl[e], i) # None
        <5>1. e.component \in Variants
          BY PartsAre, OwnParts
        <5>2. tl[e] = walk[more][e.component]
          BY DEF InnerParts
        <5>3. CostEffectiveAt(walk[more][e.component], i) # None
          BY <1>2, <3>1, <4>1, <4>2, <4>3, <5>1 DEF Found
        <5> QED
          BY <5>2, <5>3
      <4>5. InnerCost(walk, parts, inside, v, i) = PartsCost(parts, tl, i)
        BY <4>1, <4>2 DEF InnerCost
      <4>6. \A e \in parts : e.quantity \in Nat /\ tl[e] \in Timeline
        <5>1. ASSUME NEW e \in parts PROVE e.quantity \in Nat /\ tl[e] \in Timeline
          <6>1. e.component \in Variants /\ e.quantity \in Nat
            BY PartsAre, OwnParts
          <6>2. tl[e] = walk[more][e.component]
            BY DEF InnerParts
          <6> QED
            BY <4>1, <6>1, <6>2, WalkTyped
        <5> QED
          BY <5>1
      <4>7. IsFiniteSet(parts)
        BY PartsAre, OwnParts
      <4>8. CostEffectiveAt(walk[inside][v], i) = InnerCost(walk, parts, inside, v, i)
        BY <2>3, WalkCosts
      <4> HIDE DEF parts, tl
      <4>9. PartsCost(parts, tl, i) # None
        BY <4>4, <4>6, <4>7, PartsCostIs
      <4> QED
        BY <4>5, <4>8, <4>9
    <3> QED
      BY <3>3, <3>4
  <2> QED
    BY <2>2, <2>3
<1>3. 0 \in S
  <2>1. 0 \in 0..n /\ ~(0 > 0)
    BY <1>1
  <2>2. Found(0)
    BY <1>2, <2>1
  <2> QED
    BY <2>1, <2>2
<1>4. ASSUME NEW k \in 1..n, k - 1 \in S
      PROVE  k \in S
  <2>1. k \in 0..n /\ Found(k - 1)
    BY <1>1, <1>4
  <2>2. Found(k)
    <3>1. ASSUME NEW inside \in SUBSET Variants, NEW v \in Variants, CostAt[k][v][i] # None,
                 Leads(inside, v), \A x \in inside : CostAt[k][x][i] = None
          PROVE  CostEffectiveAt(walk[inside][v], i) # None
      <4> HIDE DEF Found
      <4> QED
        BY <1>2, <2>1, <3>1
    <3> QED
      BY <3>1
  <2> QED
    BY <2>1, <2>2
<1>5. Found(n)
  <2>1. n \in 0..n
    BY <1>1
  <2>2. n \in S
    <3> HIDE DEF S
    <3> QED
      BY <1>1, <1>3, <1>4, <2>1, Climb
  <2> QED
    BY <2>2
<1>6. ASSUME NEW v \in Variants PROVE {} \in SUBSET Variants /\ Leads({}, v)
  <2>1. Cardinality({}) = 0
    BY FS_EmptySet
  <2>2. IsChain([k \in 1..0 |-> v], 0)
    BY DEF IsChain
  <2> QED
    BY <2>1, <2>2 DEF Leads
<1> QED
  BY <1>5, <1>6

(* What is derived for a pack is what its components cost, at every level. *)
LEMMA ResolvedCosts ==
    ASSUME Catalogued(ConfirmedEdges, BaseTimelines), NestingIsAllowed,
           NEW v \in Variants, ComponentsOf(v) # {}
    PROVE  ResolveBundleCostTimelines(ConfirmedEdges, BaseTimelines)[v]
           = Derived([i \in Instants |-> CostAt[Cardinality(Variants)][v][i]])
<1>1. DOMAIN BaseTimelines = Variants /\ IsFiniteSet(Variants)
  BY VariantsAssumption DEF BaseTimelines
<1>2. PICK walk : /\ Walks(walk, ConfirmedEdges, BaseTimelines, SUBSET Variants)
                  /\ ResolveBundleCostTimelines(ConfirmedEdges, BaseTimelines) = walk[{}]
  BY <1>1, ResolvedIs
<1> DEFINE C == InnerCosts(walk, ComponentsOf(v), {}, v)
<1>3. {} \in SUBSET Variants
  OBVIOUS
<1>4. walk[{}][v] = Derived(C) /\ \A i \in Instants : CostEffectiveAt(walk[{}][v], i) = C[i]
  BY <1>2, <1>3, WalkCosts DEF InnerCosts
<1>5. ASSUME NEW i \in Instants PROVE C[i] = CostAt[Cardinality(Variants)][v][i]
  <2> HIDE DEF C
  <2> QED
    BY <1>2, <1>4, WalkIsRight, WalkIsComplete
<1>6. C = [i \in Instants |-> CostAt[Cardinality(Variants)][v][i]]
  BY <1>5 DEF InnerCosts
<1> QED
  BY <1>2, <1>4, <1>6

-----------------------------------------------------------------------------
(* The rollup's columns, step by step                                      *)

Idle == [v \in Variants |-> Empty]

(* The steps of a worker, by what they do to what it derives.              *)
SamePlan(a, b) == a.edges = b.edges /\ a.derived = b.derived /\ a.todo = b.todo

Opens(w) ==
    /\ work[w].pc = "idle" /\ work'[w].pc = "edges"
    /\ work'[w].edges = {} /\ work'[w].derived = Idle
    /\ orphaned' = orphaned \/ (orphaned > 0 /\ orphaned' = orphaned - 1)
    /\ UNCHANGED <<rows, fresh>>
ReadsEdges(w) ==
    /\ work[w].pc = "edges" /\ work'[w].pc = "holders"
    /\ work'[w].edges = ConfirmedEdges /\ work'[w].derived = work[w].derived
    /\ fresh' = Alone(w)
    /\ UNCHANGED <<rows, queued, orphaned>>
ReadsHolders(w) ==
    /\ work[w].pc = "holders"
    /\ work'[w].pc = IF work[w].edges = {} /\ DerivedHolders = {} THEN "complete" ELSE "base"
    /\ SamePlan(work'[w], work[w]) /\ work'[w].holders = DerivedHolders
    /\ UNCHANGED <<rows, queued, orphaned, fresh>>
Resolved(mapped) == ResolveBundleCostTimelines(mapped, BaseTimelines)
Plans(w) ==
    LET bundles == {e.bundle : e \in work[w].edges} IN
    /\ work[w].pc = "base" /\ work'[w].pc = "next" /\ work'[w].edges = {}
    /\ work'[w].derived = [v \in Variants |-> IF v \in bundles
                                              THEN Resolved(work[w].edges)[v] ELSE Empty]
    /\ work'[w].todo = bundles \cup work[w].holders
    /\ UNCHANGED <<rows, queued, orphaned, fresh>>
TakesUp(w) ==
    /\ work[w].pc = "next" /\ work'[w].pc = "withdraw"
    /\ work'[w].v \in work[w].todo /\ work'[w].todo = work[w].todo \ {work'[w].v}
    /\ work'[w].edges = work[w].edges /\ work'[w].derived = work[w].derived
    /\ UNCHANGED <<rows, queued, orphaned, fresh>>
Withdraws(w) ==
    /\ work[w].pc = "withdraw" /\ work'[w].pc = "derive"
    /\ SamePlan(work'[w], work[w]) /\ work'[w].v = work[w].v
    /\ rows' = [rows EXCEPT ![work[w].v] = DirectRows(rows[work[w].v])]
    /\ UNCHANGED <<queued, orphaned, fresh>>
Creates(w) ==
    LET v == work[w].v IN
    /\ work[w].pc = "derive" /\ work'[w].pc = "after"
    /\ work'[w].v = v /\ work'[w].edges = work[w].edges /\ work'[w].todo = work[w].todo
    /\ work'[w].derived = [work[w].derived EXCEPT ![v] = Empty]
    /\ rows' = [rows EXCEPT ![v] = Merged(rows[v], work[w].derived[v])]
    /\ UNCHANGED <<queued, orphaned, fresh>>
Checks(w) ==
    /\ \/ work[w].pc = "after" /\ work'[w].pc = "publish"
       \/ work[w].pc = "publish" /\ work'[w].pc = "next"
    /\ SamePlan(work'[w], work[w])
    /\ UNCHANGED <<rows, queued, orphaned, fresh>>
Finishes(w) ==
    /\ work[w].pc = "next" /\ work[w].todo = {} /\ work'[w].pc = "complete"
    /\ SamePlan(work'[w], work[w])
    /\ UNCHANGED <<rows, queued, orphaned, fresh>>
Leaves(w) ==
    /\ work'[w].pc = "idle" /\ work'[w].edges = {} /\ work'[w].derived = Idle
    /\ \/ orphaned' = orphaned + 1 /\ fresh' = fresh
       \/ work[w].pc = "complete" /\ UNCHANGED <<queued, orphaned, fresh>>
    /\ UNCHANGED rows

PlanStep(w) ==
    \/ Opens(w) \/ ReadsEdges(w) \/ ReadsHolders(w) \/ Plans(w) \/ TakesUp(w)
    \/ Withdraws(w) \/ Creates(w) \/ Checks(w) \/ Finishes(w) \/ Leaves(w)

LEMMA PlanSteps ==
    ASSUME Shapes, NEW w \in Workers, Rollup(w)
    PROVE  PlanStep(w) /\ edges' = edges
<1> DEFINE k == work[w]
<1>0. DOMAIN work = Workers /\ DOMAIN k = WorkColumns
  BY DEF Shapes, WorkShape
<1>1. ASSUME NEW n, work' = [work EXCEPT ![w] = n]
      PROVE  work'[w] = n
  BY <1>0, <1>1
<1> HIDE DEF k
<1>2. /\ DOMAIN IdleWork = WorkColumns /\ IdleWork.pc = "idle"
      /\ IdleWork.edges = {} /\ IdleWork.derived = Idle
  BY DEF IdleWork, WorkColumns, Idle
<1>3. CASE Lease(w)
  <2> DEFINE n == [IdleWork EXCEPT !.pc = "edges"]
  <2>0. orphaned' = orphaned \/ (orphaned > 0 /\ orphaned' = orphaned - 1)
    BY <1>3 DEF Lease
  <2>1. k.pc = "idle" /\ work' = [work EXCEPT ![w] = n] /\ UNCHANGED <<rows, edges, fresh>>
    BY <1>3 DEF Lease, books, ghosts, k
  <2>2. n.pc = "edges" /\ n.edges = {} /\ n.derived = Idle
    BY <1>2 DEF WorkColumns
  <2> HIDE DEF n
  <2>3. Opens(w)
    BY <1>1, <2>0, <2>1, <2>2 DEF Opens, k
  <2> QED
    BY <2>1, <2>3 DEF PlanStep
<1>4. CASE LoadConfirmedEdges(w)
  <2> DEFINE n == [k EXCEPT !.pc = "holders", !.edges = ConfirmedEdges]
  <2>1. /\ work' = [work EXCEPT ![w] = n] /\ k.pc = "edges" /\ fresh' = Alone(w)
        /\ UNCHANGED <<rows, edges, queued, orphaned>>
    BY <1>0, <1>4 DEF LoadConfirmedEdges, books, k
  <2>2. n.pc = "holders" /\ n.edges = ConfirmedEdges /\ n.derived = k.derived
    BY <1>0 DEF WorkColumns
  <2> HIDE DEF n
  <2>3. ReadsEdges(w)
    BY <1>1, <2>1, <2>2 DEF ReadsEdges, k
  <2> QED
    BY <2>1, <2>3 DEF PlanStep
<1>5. CASE LoadDerivedHolders(w)
  <2> DEFINE pc == IF k.edges = {} /\ DerivedHolders = {} THEN "complete" ELSE "base"
             n == [k EXCEPT !.holders = DerivedHolders, !.pc = pc]
  <2>1. /\ work' = [work EXCEPT ![w] = n] /\ k.pc = "holders"
        /\ UNCHANGED <<rows, edges, queued, orphaned, fresh>>
    BY <1>0, <1>5 DEF LoadDerivedHolders, books, ghosts, k
  <2>2. n.pc = pc /\ SamePlan(n, k) /\ n.holders = DerivedHolders
    BY <1>0 DEF WorkColumns, SamePlan
  <2> HIDE DEF n
  <2>3. ReadsHolders(w)
    BY <1>1, <2>1, <2>2 DEF ReadsHolders, k
  <2> QED
    BY <2>1, <2>3 DEF PlanStep
<1>6. CASE LoadBaseTimelines(w)
  <2> DEFINE bundles == {e.bundle : e \in k.edges}
             resolved == ResolveBundleCostTimelines(k.edges, BaseTimelines)
             derived == [v \in Variants |-> IF v \in bundles THEN resolved[v] ELSE Empty]
             n == [k EXCEPT !.derived = derived, !.todo = bundles \cup k.holders,
                            !.edges = {}, !.holders = {}, !.pc = "next"]
  <2>1. /\ k.pc = "base"
        /\ work' = [work EXCEPT ![w].derived = derived,
                                ![w].todo = bundles \cup k.holders,
                                ![w].edges = {}, ![w].holders = {}, ![w].pc = "next"]
        /\ UNCHANGED <<rows, edges, queued, orphaned, fresh>>
    BY <1>6, Zenon DEF LoadBaseTimelines, books, ghosts, k
  <2>2. derived = [v \in Variants |-> IF v \in bundles THEN Resolved(k.edges)[v] ELSE Empty]
    BY DEF Resolved
  <2> HIDE DEF derived, bundles
  <2>3. work' = [work EXCEPT ![w] = n]
    BY <1>0, <2>1 DEF k, WorkColumns
  <2>4. n.pc = "next" /\ n.derived = derived /\ n.todo = bundles \cup k.holders /\ n.edges = {}
    BY <1>0 DEF WorkColumns
  <2> HIDE DEF n
  <2>5. Plans(w)
    BY <1>1, <2>1, <2>2, <2>3, <2>4 DEF Plans, k, bundles
  <2> QED
    BY <2>1, <2>5 DEF PlanStep
<1>7. ASSUME NEW v \in Variants, LoadPack(w, v)
      PROVE  PlanStep(w) /\ edges' = edges
  <2> DEFINE n == [k EXCEPT !.v = v, !.todo = @ \ {v}, !.before = rows[v],
                            !.pc = "withdraw"]
  <2>1. /\ work' = [work EXCEPT ![w] = n] /\ k.pc = "next" /\ v \in k.todo
        /\ UNCHANGED <<rows, edges, queued, orphaned, fresh>>
    BY <1>0, <1>7 DEF LoadPack, books, k
  <2>2. /\ n.pc = "withdraw" /\ n.v = v /\ n.todo = k.todo \ {v}
        /\ n.edges = k.edges /\ n.derived = k.derived
    BY <1>0 DEF WorkColumns
  <2> HIDE DEF n
  <2>3. TakesUp(w)
    BY <1>1, <2>1, <2>2 DEF TakesUp, k
  <2> QED
    BY <2>1, <2>3 DEF PlanStep
<1>8. CASE WithdrawDerived(w)
  <2> DEFINE n == [k EXCEPT !.pc = "derive"]
  <2>1. /\ work' = [work EXCEPT ![w] = n] /\ k.pc = "withdraw"
        /\ rows' = [rows EXCEPT ![k.v] = DirectRows(rows[k.v])]
        /\ UNCHANGED <<edges, queued, orphaned, fresh>>
    BY <1>8 DEF WithdrawDerived, ghosts, k
  <2>2. n.pc = "derive" /\ n.v = k.v /\ SamePlan(n, k)
    BY <1>0 DEF WorkColumns, SamePlan
  <2> HIDE DEF n
  <2>3. Withdraws(w)
    BY <1>1, <2>1, <2>2 DEF Withdraws, k
  <2> QED
    BY <2>1, <2>3 DEF PlanStep
<1>9. CASE CreateDerived(w)
  <2> DEFINE d == [k.derived EXCEPT ![k.v] = Empty]
             n == [k EXCEPT !.derived = d, !.pc = "after"]
  <2>1. /\ k.pc = "derive"
        /\ work' = [work EXCEPT ![w].derived[k.v] = Empty, ![w].pc = "after"]
        /\ rows' = [rows EXCEPT ![k.v] = Merged(rows[k.v], k.derived[k.v])]
        /\ UNCHANGED <<edges, queued, orphaned, fresh>>
    BY <1>9 DEF CreateDerived, ghosts, k
  <2>2. work' = [work EXCEPT ![w] = n]
    BY <1>0, <2>1 DEF k, WorkColumns
  <2> HIDE DEF d
  <2>3. n.pc = "after" /\ n.v = k.v /\ n.derived = d /\ n.edges = k.edges /\ n.todo = k.todo
    BY <1>0 DEF WorkColumns
  <2> HIDE DEF n
  <2>4. Creates(w)
    BY <1>1, <2>1, <2>2, <2>3 DEF Creates, k, d
  <2> QED
    BY <2>1, <2>4 DEF PlanStep
<1>10. CASE LoadAfter(w)
  <2> DEFINE n == [k EXCEPT !.after = rows[k.v], !.pc = "publish"]
  <2>1. /\ work' = [work EXCEPT ![w] = n] /\ k.pc = "after"
        /\ UNCHANGED <<rows, edges, queued, orphaned, fresh>>
    BY <1>0, <1>10 DEF LoadAfter, books, ghosts, k
  <2>2. n.pc = "publish" /\ SamePlan(n, k)
    BY <1>0 DEF WorkColumns, SamePlan
  <2> HIDE DEF n
  <2>3. Checks(w)
    BY <1>1, <2>1, <2>2 DEF Checks, k
  <2> QED
    BY <2>1, <2>3 DEF PlanStep
<1>11. CASE PublishPack(w)
  <2> DEFINE from == CostDivergenceFrom(k.before, k.after)
             changed == IF from = None THEN k.changed ELSE k.changed \cup {k.v}
             n == [k EXCEPT !.pc = "next", !.v = None, !.before = Empty,
                            !.after = Empty, !.changed = changed,
                            !.from = Earlier(k.from, from)]
  <2>1. /\ k.pc = "publish"
        /\ work' = [work EXCEPT ![w].pc = "next", ![w].v = None,
                            ![w].before = Empty, ![w].after = Empty,
                            ![w].changed = IF from = None THEN @ ELSE @ \cup {k.v},
                            ![w].from = Earlier(@, from)]
        /\ UNCHANGED <<rows, edges, queued, orphaned, fresh>>
    BY <1>11, Zenon DEF PublishPack, ghosts, k
  <2> HIDE DEF from
  <2>2. work' = [work EXCEPT ![w] = n]
    BY <1>0, <2>1 DEF k, WorkColumns
  <2> HIDE DEF changed
  <2>3. n.pc = "next" /\ SamePlan(n, k)
    BY <1>0 DEF WorkColumns, SamePlan
  <2> HIDE DEF n
  <2>4. Checks(w)
    BY <1>1, <2>1, <2>2, <2>3 DEF Checks, k
  <2> QED
    BY <2>1, <2>4 DEF PlanStep
<1>12. CASE HandOver(w)
  <2> DEFINE n == [k EXCEPT !.pc = "complete"]
  <2>1. /\ work' = [work EXCEPT ![w] = n] /\ k.pc = "next" /\ k.todo = {}
        /\ UNCHANGED <<rows, edges, queued, orphaned, fresh>>
    BY <1>12, Zenon DEF HandOver, books, k
  <2>2. n.pc = "complete" /\ SamePlan(n, k)
    BY <1>0 DEF WorkColumns, SamePlan
  <2> HIDE DEF n
  <2>3. Finishes(w)
    BY <1>1, <2>1, <2>2 DEF Finishes, k
  <2> QED
    BY <2>1, <2>3 DEF PlanStep
<1>13. CASE Complete(w)
  <2>1. /\ work' = [work EXCEPT ![w] = IdleWork] /\ k.pc = "complete"
        /\ UNCHANGED <<rows, edges, queued, orphaned, fresh>>
    BY <1>13 DEF Complete, books, ghosts, k
  <2>2. Leaves(w)
    BY <1>1, <1>2, <2>1 DEF Leaves, k
  <2> QED
    BY <2>1, <2>2 DEF PlanStep
<1>14. CASE WorkerDies(w)
  <2>1. /\ work' = [work EXCEPT ![w] = IdleWork] /\ orphaned' = orphaned + 1
        /\ UNCHANGED <<rows, edges, fresh>>
    BY <1>14 DEF WorkerDies, books
  <2>2. Leaves(w)
    BY <1>1, <1>2, <2>1 DEF Leaves
  <2> QED
    BY <2>1, <2>2 DEF PlanStep
<1>15. CASE \E v \in Variants : LoadPack(w, v)
  BY <1>7, <1>15
<1> QED
  BY <1>3, <1>4, <1>5, <1>6, <1>8, <1>9, <1>10, <1>11, <1>12, <1>13, <1>14, <1>15
  DEF Rollup

-----------------------------------------------------------------------------
(* Timelines are timelines, mappings map variants                          *)

IsMapping(mapped) ==
    /\ IsFiniteSet(mapped)
    /\ \A e \in mapped : e.bundle \in Variants /\ e.component \in Variants /\ e.quantity \in Nat

TimesInv ==
    /\ rows \in [Variants -> Timeline]
    /\ edges \in [Mappable -> Edge]
    /\ orphaned \in Nat
    /\ \A w \in Workers : /\ work[w].derived \in [Variants -> Timeline]
                          /\ IsMapping(work[w].edges)

LEMMA TimelineIs ==
    /\ Timeline = [Instants -> Version \cup {None}] /\ None \notin Version /\ None \notin Nat
    /\ Empty \in Timeline /\ Idle \in [Variants -> Timeline]
    /\ \A c \in Nat, s \in {"SHOPIFY", "MANUAL"} :
         [cost |-> c, source |-> s] \in Version /\ IsDirect([cost |-> c, source |-> s])
<1>1. Empty \in Timeline
  BY DEF Empty, Timeline
<1>2. Idle \in [Variants -> Timeline]
  BY <1>1 DEF Idle
<1>3. ASSUME NEW c \in Nat, NEW s \in {"SHOPIFY", "MANUAL"}
      PROVE  [cost |-> c, source |-> s] \in Version /\ IsDirect([cost |-> c, source |-> s])
  <2> DEFINE x == [cost |-> c, source |-> s]
  <2>1. x \in Version /\ x.source # "BUNDLE_ROLLUP"
    BY DEF Version
  <2>2. x # None
    BY <2>1, NoneAssumption
  <2> QED
    BY <2>1, <2>2 DEF IsDirect
<1> QED
  BY <1>1, <1>2, <1>3, NoneAssumption DEF Timeline

LEMMA WrittenTyped ==
    ASSUME NEW t \in Timeline, NEW at, NEW c \in Nat, NEW s \in {"SHOPIFY", "MANUAL"}
    PROVE  Written(t, at, c, s) \in Timeline
<1> DEFINE x == [cost |-> c, source |-> s]
<1>1. x \in Version
  BY TimelineIs
<1>2. Written(t, at, c, s) = [t EXCEPT ![at] = x]
  BY DEF Written
<1> HIDE DEF x
<1> QED
  BY <1>1, <1>2, TimelineIs

LEMMA ToldTyped ==
    ASSUME NEW t \in Timeline, NEW f \in Fact
    PROVE  Observed(t, f) \in Timeline /\ Seeded(t, f.cost) \in Timeline
<1>1. f.cost \in Nat \cup {None}
  BY NumbersAssumption DEF Fact
<1> QED
  BY <1>1, WrittenTyped DEF Observed, Seeded

LEMMA RollupTyped ==
    ASSUME NEW t \in Timeline, NEW d \in Timeline
    PROVE  DirectRows(t) \in Timeline /\ Merged(t, d) \in Timeline
<1>1. DirectRows(t) = [i \in Instants |-> IF IsDerived(t[i]) THEN None ELSE t[i]]
  BY DEF DirectRows, Without
<1>2. \A i \in Instants : t[i] \in Version \cup {None} /\ d[i] \in Version \cup {None}
  BY TimelineIs
<1>3. DirectRows(t) \in [Instants -> Version \cup {None}]
  BY <1>1, <1>2
<1>4. Merged(t, d) \in [Instants -> Version \cup {None}]
  BY <1>2 DEF Merged
<1> QED
  BY <1>3, <1>4, TimelineIs

LEMMA BaseTyped ==
    ASSUME TimesInv
    PROVE  /\ BaseTimelines \in [Variants -> Timeline]
           /\ \A v \in Variants : BaseTimelines[v] = DirectRows(rows[v])
<1>1. \A v \in Variants : rows[v] \in Timeline
  BY DEF TimesInv
<1>2. \A v \in Variants : DirectRows(rows[v]) \in Timeline
  BY <1>1, RollupTyped
<1> QED
  BY <1>2 DEF BaseTimelines

LEMMA ConfirmedTyped ==
    ASSUME TimesInv
    PROVE  IsMapping(ConfirmedEdges)
<1> DEFINE P == {q \in Mappable : edges[q].state = "confirmed"}
           e(p) == [bundle |-> p[1], component |-> p[2], quantity |-> edges[p].quantity]
           f == [p \in P |-> e(p)]
<1>1. IsFiniteSet(P)
  <2>1. IsFiniteSet(Variants \X Variants)
    BY VariantsAssumption, FS_Product
  <2>2. P \subseteq Variants \X Variants
    BY VariantsAssumption
  <2> QED
    BY <2>1, <2>2, FS_Subset
<1>2. ConfirmedEdges = {e(p) : p \in P}
  BY DEF ConfirmedEdges
<1>3. IsFiniteSet(ConfirmedEdges)
  <2>1. f \in Surjection(P, {e(p) : p \in P})
    BY DEF Surjection
  <2> HIDE DEF f, P, e
  <2> QED
    BY <1>1, <1>2, <2>1, FS_Surjection
<1>4. ASSUME NEW p \in P
      PROVE  e(p).bundle \in Variants /\ e(p).component \in Variants /\ e(p).quantity \in Nat
  <2>1. p \in Variants \X Variants /\ p \in Mappable
    BY VariantsAssumption
  <2>2. edges[p] \in Edge
    BY <2>1 DEF TimesInv
  <2> QED
    BY <2>1, <2>2 DEF Edge
<1> QED
  BY <1>2, <1>3, <1>4 DEF IsMapping

LEMMA CataloguedIs ==
    ASSUME TimesInv, NEW mapped, IsMapping(mapped)
    PROVE  Catalogued(mapped, BaseTimelines)
  BY BaseTyped DEF Catalogued, IsMapping

(* What the walk comes to is a timeline, and a pack's is derived.          *)
LEMMA ResolvedTyped ==
    ASSUME NEW mapped, NEW base, Catalogued(mapped, base), NEW v \in Variants
    PROVE  /\ ResolveBundleCostTimelines(mapped, base)[v] \in Timeline
           /\ ComponentsIn(mapped, v) # {} =>
                \E costs : ResolveBundleCostTimelines(mapped, base)[v] = Derived(costs)
<1>1. DOMAIN base = Variants /\ IsFiniteSet(Variants)
  BY VariantsAssumption DEF Catalogued
<1>2. PICK walk : /\ Walks(walk, mapped, base, SUBSET Variants)
                  /\ ResolveBundleCostTimelines(mapped, base) = walk[{}]
  BY <1>1, ResolvedIs
<1>3. {} \in SUBSET Variants
  OBVIOUS
<1>4. \A inside \in SUBSET Variants, u \in Variants : walk[inside][u] \in Timeline
  BY <1>2, WalkTyped
<1>5. v \notin {} => \A u \in Variants : walk[{} \cup {v}][u] \in Timeline
  <2>1. {} \cup {v} \in SUBSET Variants
    OBVIOUS
  <2> QED
    BY <1>4, <2>1
<1>6. WalkIs(mapped, base, walk, {}, v)
  BY <1>2, <1>3, <1>5, WalkStep
<1> QED
  BY <1>2, <1>3, <1>4, <1>6 DEF WalkIs

LEMMA OneRowTyped ==
    ASSUME TimesInv, NEW u, NEW t, rows' = [rows EXCEPT ![u] = t],
           u \in Variants => t \in Timeline
    PROVE  rows' \in [Variants -> Timeline]
  BY DEF TimesInv

LEMMA TimesPlan ==
    ASSUME Shapes, TimesInv, NEW w \in Workers, Rollup(w)
    PROVE  TimesInv'
<1> DEFINE k == work[w]
<1>1. /\ \A x \in Workers \ {w} : work'[x] = work[x]
      /\ PlanStep(w) /\ edges' = edges
  BY RollupSteps, PlanSteps
<1>2. k.derived \in [Variants -> Timeline] /\ IsMapping(k.edges) /\ orphaned \in Nat
  BY DEF TimesInv
<1>3. k.pc \in Replaces => k.v \in Variants
  BY DEF Shapes, WorkShape
<1>4. rows' \in [Variants -> Timeline]
  <2>1. CASE Withdraws(w)
    <3>1. k.v \in Variants
      BY <1>3, <2>1 DEF Withdraws, Replaces
    <3>2. DirectRows(rows[k.v]) \in Timeline
      BY <3>1, BaseTyped
    <3> QED
      BY <2>1, <3>2, OneRowTyped DEF Withdraws
  <2>2. CASE Creates(w)
    <3>1. k.v \in Variants
      BY <1>3, <2>2 DEF Creates, Replaces
    <3>2. Merged(rows[k.v], k.derived[k.v]) \in Timeline
      BY <1>2, <3>1, RollupTyped DEF TimesInv
    <3> QED
      BY <2>2, <3>2, OneRowTyped DEF Creates
  <2>3. CASE UNCHANGED rows
    BY <2>3 DEF TimesInv
  <2> QED
    BY <1>1, <2>1, <2>2, <2>3
    DEF PlanStep, Opens, ReadsEdges, ReadsHolders, Plans, TakesUp, Checks, Finishes, Leaves
<1>5. orphaned' \in Nat
  BY <1>1, <1>2 DEF PlanStep, Opens, ReadsEdges, ReadsHolders, Plans, TakesUp, Withdraws,
                    Creates, Checks, Finishes, Leaves
<1>6. IsMapping({})
  BY FS_EmptySet DEF IsMapping
<1>7. work'[w].derived \in [Variants -> Timeline] /\ IsMapping(work'[w].edges)
  <2>1. CASE Opens(w) \/ Leaves(w)
    BY <1>6, <2>1, TimelineIs DEF Opens, Leaves
  <2>2. CASE ReadsEdges(w)
    BY <1>2, <2>2, ConfirmedTyped DEF ReadsEdges
  <2>3. CASE Plans(w)
    <3>1. \A v \in Variants : Resolved(k.edges)[v] \in Timeline
      BY <1>2, CataloguedIs, ResolvedTyped DEF Resolved
    <3>2. work'[w].edges = {}
      BY <2>3 DEF Plans
    <3>3. work'[w].derived \in [Variants -> Timeline]
      BY <2>3, <3>1, TimelineIs DEF Plans
    <3> QED
      BY <1>6, <3>2, <3>3
  <2>4. CASE Creates(w)
    BY <1>2, <2>4, TimelineIs DEF Creates
  <2>5. CASE ReadsHolders(w) \/ TakesUp(w) \/ Withdraws(w) \/ Checks(w) \/ Finishes(w)
    BY <1>2, <2>5 DEF ReadsHolders, TakesUp, Withdraws, Checks, Finishes, SamePlan
  <2> QED
    BY <1>1, <2>1, <2>2, <2>3, <2>4, <2>5 DEF PlanStep
<1> QED
  BY <1>1, <1>4, <1>5, <1>7 DEF TimesInv

(* Mappings are changed one at a time, or proposed.                        *)
LEMMA TimesRequest ==
    ASSUME Shapes, TimesInv, NEW r \in Requests, Request(r)
    PROVE  TimesInv'
<1>1. UNCHANGED work
  BY RequestSteps
<1>2. rows' \in [Variants -> Timeline]
  <2>1. Begins(r) \/ WritesDown(r) \/ Shows(r) \/ Maps(r) \/ GivesUp(r)
    BY RequestSteps
  <2>2. CASE WritesDown(r)
    <3>1. /\ page[r].v \in Variants /\ page[r].cost \in Nat
          /\ rows' = [rows EXCEPT ![page[r].v] =
                        Written(rows[page[r].v], page[r].at, page[r].cost, "MANUAL")]
      BY <2>2 DEF WritesDown, Shapes, PageShape, Saves
    <3>2. Written(rows[page[r].v], page[r].at, page[r].cost, "MANUAL") \in Timeline
      BY <3>1, WrittenTyped DEF TimesInv
    <3> QED
      BY <3>1, <3>2, OneRowTyped
  <2> QED
    BY <2>1, <2>2 DEF Begins, Shows, Maps, GivesUp, TimesInv
<1>3. ASSUME NEW pair \in Mappable, NEW edge \in Edge, Map(r, pair, edge)
      PROVE  edges' \in [Mappable -> Edge] /\ orphaned' = orphaned
  BY <1>3 DEF Map, TimesInv
<1>4. NoEdge \in Edge /\ \A p \in Mappable : edges[p] \in Edge
  BY DEF NoEdge, Edge, TimesInv
<1>5. ASSUME NEW p \in Mappable, NEW q \in Quantities, UpsertMapping(r, p, q)
      PROVE  edges' \in [Mappable -> Edge] /\ orphaned' = orphaned
  <2>1. [state |-> "confirmed", quantity |-> q] \in Edge
    BY NumbersAssumption DEF Edge
  <2> QED
    BY <1>3, <1>5, <2>1 DEF UpsertMapping
<1>6. ASSUME NEW p \in Mappable, ConfirmMapping(r, p) \/ RemoveMapping(r, p)
      PROVE  edges' \in [Mappable -> Edge] /\ orphaned' = orphaned
  <2>1. [edges[p] EXCEPT !.state = "confirmed"] \in Edge
    BY <1>4 DEF Edge
  <2> QED
    BY <1>3, <1>4, <1>6, <2>1 DEF ConfirmMapping, RemoveMapping
<1>7. edges' \in [Mappable -> Edge] /\ orphaned' = orphaned
  <2>1. ASSUME NEW v \in Variants, NEW at \in Instants, NEW c \in Costs, LoadBefore(r, v, at, c)
        PROVE  UNCHANGED <<edges, orphaned>>
    BY <2>1 DEF LoadBefore, books
  <2>2. CASE SaveVersion(r) \/ PublishSaved(r) \/ EnqueueRollup(r) \/ RequestDies(r)
    BY <2>2 DEF SaveVersion, PublishSaved, EnqueueRollup, RequestDies, books, TimesInv
  <2> QED
    BY <1>5, <1>6, <2>1, <2>2 DEF Request, TimesInv
<1> QED
  BY <1>1, <1>2, <1>7 DEF TimesInv

LEMMA TimesOutside ==
    ASSUME Shapes, TimesInv, Outside
    PROVE  TimesInv'
<1>1. UNCHANGED work /\ sent \subseteq Fact
  BY OutsideSteps DEF OutsideStep, Shapes, ToldIInv, ToldInv
<1>2. rows' \in [Variants -> Timeline]
  <2>1. ASSUME NEW f \in sent,
               \/ rows' = [rows EXCEPT ![f.variant] = Observed(rows[f.variant], f)]
               \/ rows' = [rows EXCEPT ![f.variant] = Seeded(rows[f.variant], f.cost)]
        PROVE  rows' \in [Variants -> Timeline]
    <3>1. f.variant \in Variants => /\ Observed(rows[f.variant], f) \in Timeline
                                    /\ Seeded(rows[f.variant], f.cost) \in Timeline
      BY <1>1, ToldTyped DEF TimesInv
    <3> QED
      BY <2>1, <3>1, OneRowTyped
  <2> QED
    BY <2>1, OutsideSteps DEF OutsideStep, TimesInv
<1>3. edges' \in [Mappable -> Edge] /\ orphaned' = orphaned
  <2>1. CASE Tick
    BY <2>1 DEF Tick, books, TimesInv
  <2>2. ASSUME NEW v \in Variants, NEW c \in Costs \cup {None}, InventoryChanges(v, c)
        PROVE  UNCHANGED <<edges, orphaned>>
    BY <2>2 DEF InventoryChanges, books
  <2>3. ASSUME NEW f \in sent, SyncProduct(f) \/ ImportProduct(f)
        PROVE  UNCHANGED <<edges, orphaned>>
    BY <2>3 DEF SyncProduct, ImportProduct
  <2>4. CASE DetectBundles
    <3>1. [state |-> "proposed", quantity |-> DetectedQuantity] \in Edge
      BY NumbersAssumption DEF Edge
    <3> QED
      BY <2>4, <3>1 DEF DetectBundles, TimesInv
  <2> QED
    BY <2>1, <2>2, <2>3, <2>4 DEF Outside, TimesInv
<1> QED
  BY <1>1, <1>2, <1>3 DEF TimesInv

LEMMA TimesKept == Shapes /\ TimesInv /\ [Next]_vars => TimesInv'
<1>1. ASSUME TimesInv, UNCHANGED vars PROVE TimesInv'
  BY <1>1 DEF vars, books, TimesInv
<1> QED
  BY <1>1, TimesOutside, TimesRequest, TimesPlan DEF Next

LEMMA TimesInit == Init => TimesInv
<1> SUFFICES ASSUME Init PROVE TimesInv
  OBVIOUS
<1>1. \A v \in Variants : Seeded(Empty, Opening(v)) \in Timeline
  <2>1. \A v \in Variants : Opening(v) \in Nat \cup {None}
    BY NumbersAssumption DEF Opening
  <2> QED
    BY <2>1, TimelineIs, WrittenTyped DEF Seeded
<1>2. rows \in [Variants -> Timeline]
  BY <1>1 DEF Init
<1>3. edges \in [Mappable -> Edge]
  <2>1. NoEdge \in Edge
    BY DEF NoEdge, Edge
  <2>2. Drawn # {} => Min(Quantities) \in Nat
    BY NumbersAssumption, NatsHaveLeast DEF Min
  <2> QED
    BY <2>1, <2>2 DEF Init, Edge
<1>4. orphaned = 0 /\ \A w \in Workers : work[w] = IdleWork
  BY DEF Init
<1>5. IdleWork.derived = Idle /\ IdleWork.edges = {}
  BY DEF IdleWork, Idle
<1>6. IsMapping({})
  BY FS_EmptySet DEF IsMapping
<1> QED
  BY <1>2, <1>3, <1>4, <1>5, <1>6, TimelineIs DEF TimesInv

-----------------------------------------------------------------------------
(* What the packs wear                                                     *)

(* The rows that the mappings and the costs that were told call for.       *)
Target(v) ==
    IF ComponentsOf(v) = {} THEN Empty
    ELSE ResolveBundleCostTimelines(ConfirmedEdges, BaseTimelines)[v]

Worn(v) == \A i \in Instants : IsDirect(rows[v][i]) \/ rows[v][i] = Target(v)[i]

(* The packs that a rollup has yet to write.                               *)
InHand(w, v) ==
    v \in work[w].todo \/ (work[w].v = v /\ work[w].pc \in {"withdraw", "derive"})

WorkInv(w) ==
    LET k == work[w] IN
    /\ k.pc \in {"holders", "base"} => k.edges = ConfirmedEdges
    /\ k.pc = "base" => k.holders = DerivedHolders
    /\ k.pc \in {"next"} \cup Replaces =>
         \A v \in Variants : IF InHand(w, v) THEN k.derived[v] = Target(v) ELSE Worn(v)
    /\ k.pc = "derive" => \A i \in Instants : ~IsDerived(rows[k.v][i])

(* A rollup waits, is about to be asked for, or is about to read.          *)
Pending ==
    \/ queued \/ orphaned > 0
    \/ \E r \in Requests : page[r].pc = "enqueue"
    \/ \E w \in Workers : work[w].pc = "edges"

WornInv ==
    fresh /\ ~Pending =>
        /\ OneBusy
        /\ \A w \in Workers : Busy(w) => WorkInv(w)
        /\ (\A w \in Workers : ~Busy(w)) => \A v \in Variants : Worn(v)

(* A derived row is no direct one.                                         *)
LEMMA SourcesAre ==
    /\ ~IsDirect(None) /\ ~IsDerived(None)
    /\ \A x \in Version : IsDirect(x) <=> ~IsDerived(x)
  BY NoneAssumption DEF IsDirect, IsDerived

(* What a pack should wear is derived, and mentions no direct row.         *)
LEMMA TargetIs ==
    ASSUME TimesInv, NEW v \in Variants
    PROVE  /\ Target(v) \in Timeline
           /\ \A i \in Instants : ~IsDirect(Target(v)[i])
<1>1. Catalogued(ConfirmedEdges, BaseTimelines)
  BY ConfirmedTyped, CataloguedIs
<1>2. CASE ComponentsOf(v) = {}
  BY <1>2, TimelineIs, SourcesAre DEF Target, Empty
<1>3. CASE ComponentsOf(v) # {}
  <2> DEFINE t == ResolveBundleCostTimelines(ConfirmedEdges, BaseTimelines)[v]
  <2>1. ComponentsIn(ConfirmedEdges, v) # {}
    BY <1>3, OwnParts
  <2>2. t \in Timeline /\ \E costs : t = Derived(costs)
    BY <1>1, <2>1, ResolvedTyped
  <2>3. Target(v) = t
    BY <1>3 DEF Target
  <2> HIDE DEF t
  <2>4. \A i \in Instants : t[i] = None \/ t[i].source = "BUNDLE_ROLLUP"
    BY <2>2 DEF Derived
  <2> QED
    BY <2>2, <2>3, <2>4, SourcesAre DEF IsDirect
<1> QED
  BY <1>2, <1>3

(* Where the costs that were told and the mappings stay, so do targets.    *)
LEMMA TargetStays ==
    ASSUME BaseTimelines' = BaseTimelines, ConfirmedEdges' = ConfirmedEdges
    PROVE  \A v : Target(v)' = Target(v)
<1>1. \A v : ComponentsOf(v)' = ComponentsOf(v)
  BY DEF ComponentsOf
<1> QED
  BY <1>1 DEF Target

LEMMA WornStays ==
    ASSUME BaseTimelines' = BaseTimelines, ConfirmedEdges' = ConfirmedEdges,
           NEW v \in Variants, rows'[v] = rows[v]
    PROVE  Worn(v)' <=> Worn(v)
  BY TargetStays DEF Worn

(* Neither what a rollup takes away nor what it adds was told.             *)
LEMMA WithdrawnIs ==
    ASSUME NEW t \in Timeline
    PROVE  /\ DirectRows(DirectRows(t)) = DirectRows(t)
           /\ \A i \in Instants : ~IsDerived(DirectRows(t)[i])
<1>1. \A x : DirectRows(x) = [i \in Instants |-> IF IsDerived(x[i]) THEN None ELSE x[i]]
  BY DEF DirectRows, Without
<1> QED
  BY <1>1, SourcesAre

LEMMA MergedIs ==
    ASSUME NEW t \in Timeline, NEW d \in Timeline, \A i \in Instants : ~IsDirect(d[i])
    PROVE  DirectRows(Merged(t, d)) = DirectRows(t)
<1>1. \A x : DirectRows(x) = [i \in Instants |-> IF IsDerived(x[i]) THEN None ELSE x[i]]
  BY DEF DirectRows, Without
<1>2. \A i \in Instants : t[i] \in Version \cup {None} /\ d[i] \in Version \cup {None}
  BY TimelineIs
<1>3. \A i \in Instants : IF IsDerived(Merged(t, d)[i]) THEN DirectRows(t)[i] = None
                          ELSE DirectRows(t)[i] = Merged(t, d)[i]
  BY <1>1, <1>2, SourcesAre DEF Merged
<1> QED
  BY <1>1, <1>3

LEMMA BaseStays ==
    ASSUME TimesInv, NEW u \in Variants, NEW t,
           rows' = [rows EXCEPT ![u] = t], DirectRows(t) = DirectRows(rows[u])
    PROVE  BaseTimelines' = BaseTimelines
<1>1. \A v \in Variants : DirectRows(rows'[v]) = DirectRows(rows[v])
  BY DEF TimesInv
<1>2. BaseTimelines' = [v \in Variants |-> DirectRows(rows'[v])]
  BY DEF BaseTimelines, DirectRows, Without, IsDerived
<1> QED
  BY <1>1, <1>2 DEF BaseTimelines

LEMMA ConfirmedStays == ASSUME edges' = edges PROVE ConfirmedEdges' = ConfirmedEdges
  BY DEF ConfirmedEdges

(* A step that leaves the timelines, the mappings in force and a rollup.   *)
LEMMA WorkStays ==
    ASSUME rows' = rows, ConfirmedEdges' = ConfirmedEdges,
           NEW w \in Workers, work'[w] = work[w], WorkInv(w)
    PROVE  WorkInv(w)'
<1>1. BaseTimelines' = BaseTimelines /\ DerivedHolders' = DerivedHolders
  BY DEF BaseTimelines, DirectRows, Without, IsDerived, DerivedHolders
<1>2. \A v \in Variants : Target(v)' = Target(v) /\ (Worn(v)' <=> Worn(v))
  BY <1>1, TargetStays, WornStays
<1>3. \A v : InHand(w, v)' <=> InHand(w, v)
  BY DEF InHand
<1> QED
  BY <1>1, <1>2, <1>3 DEF WorkInv, IsDerived

LEMMA AllWornStays ==
    ASSUME rows' = rows, ConfirmedEdges' = ConfirmedEdges, \A v \in Variants : Worn(v)
    PROVE  \A v \in Variants : Worn(v)'
<1>1. BaseTimelines' = BaseTimelines
  BY DEF BaseTimelines, DirectRows, Without, IsDerived
<1> QED
  BY <1>1, WornStays

(* One step of the only rollup under way.                                  *)
LEMMA WornPlan ==
    ASSUME Shapes, TimesInv, NEW w \in Workers, NotesInv(w), WorkInv(w), Busy(w),
           PlanStep(w), ~Leaves(w), edges' = edges
    PROVE  IF Busy(w)' THEN WorkInv(w)' ELSE \A v \in Variants : Worn(v)'
<1> DEFINE k == work[w]
           n == work'[w]
<1>1. ConfirmedEdges' = ConfirmedEdges
  BY ConfirmedStays
<1>2. ASSUME rows' = rows
      PROVE  /\ DerivedHolders' = DerivedHolders
             /\ \A v \in Variants : Target(v)' = Target(v) /\ (Worn(v)' <=> Worn(v))
  <2>1. BaseTimelines' = BaseTimelines /\ DerivedHolders' = DerivedHolders
    BY <1>2 DEF BaseTimelines, DirectRows, Without, IsDerived, DerivedHolders
  <2> QED
    BY <1>1, <1>2, <2>1, TargetStays, WornStays
<1>3. \A v \in Variants : rows[v] \in Timeline /\ Target(v) \in Timeline
  BY TargetIs DEF TimesInv
<1>4. k.derived \in [Variants -> Timeline]
  BY DEF TimesInv
<1>5. k.pc \in Replaces => k.v \in Variants /\ k.v \notin k.todo
  BY DEF Shapes, WorkShape, NotesInv
<1>6. \A v \in Variants :
         (ComponentsOf(v) = {} /\ \A i \in Instants : ~IsDerived(rows[v][i])) => Worn(v)
  <2>1. ASSUME NEW v \in Variants, ComponentsOf(v) = {},
               \A i \in Instants : ~IsDerived(rows[v][i]), NEW i \in Instants
        PROVE  IsDirect(rows[v][i]) \/ rows[v][i] = Target(v)[i]
    <3>1. rows[v][i] \in Version \cup {None} /\ Target(v)[i] = None
      BY <1>3, <2>1, TimelineIs DEF Target, Empty
    <3> QED
      BY <2>1, <3>1, SourcesAre
  <2> QED
    BY <2>1 DEF Worn
<1>7. CASE ReadsHolders(w)
  <2>1. rows' = rows /\ k.edges = ConfirmedEdges /\ n.edges = k.edges
    BY <1>7 DEF ReadsHolders, SamePlan, WorkInv
  <2>2. CASE n.pc = "base"
    BY <1>1, <1>2, <1>7, <2>1, <2>2 DEF ReadsHolders, WorkInv, Busy, Replaces
  <2>3. CASE n.pc = "complete"
    <3>1. ConfirmedEdges = {} /\ DerivedHolders = {}
      BY <1>7, <2>1, <2>3 DEF ReadsHolders
    <3>2. \A v \in Variants : ComponentsOf(v) = {} /\ \A i \in Instants : ~IsDerived(rows[v][i])
      BY <3>1 DEF ComponentsOf, DerivedHolders
    <3> QED
      BY <1>2, <1>6, <2>1, <2>3, <3>2 DEF Busy, Replaces
  <2> QED
    BY <1>7, <2>2, <2>3 DEF ReadsHolders
<1>8. CASE Plans(w)
  <2> DEFINE bundles == {e.bundle : e \in k.edges}
  <2>1. /\ k.pc = "base" /\ n.pc = "next" /\ rows' = rows
        /\ n.derived = [v \in Variants |-> IF v \in bundles
                                           THEN Resolved(k.edges)[v] ELSE Empty]
        /\ n.todo = bundles \cup k.holders
    BY <1>8 DEF Plans
  <2>2. k.edges = ConfirmedEdges /\ k.holders = DerivedHolders
    BY <2>1 DEF WorkInv
  <2>3. \A v \in Variants : v \in bundles <=> ComponentsOf(v) # {}
    BY <2>2 DEF ComponentsOf
  <2>4. \A v \in Variants : n.derived[v] = Target(v)
    BY <2>1, <2>2, <2>3 DEF Target, Resolved
  <2> HIDE DEF bundles
  <2>5. ASSUME NEW v \in Variants, ~InHand(w, v)' PROVE Worn(v)
    <3>1. v \notin bundles /\ v \notin DerivedHolders
      BY <2>1, <2>2, <2>5 DEF InHand
    <3>2. ComponentsOf(v) = {} /\ \A i \in Instants : ~IsDerived(rows[v][i])
      BY <2>3, <3>1 DEF DerivedHolders
    <3> QED
      BY <1>6, <3>2
  <2>6. \A v \in Variants : IF InHand(w, v)' THEN n.derived[v] = Target(v)' ELSE Worn(v)'
    BY <1>2, <2>1, <2>4, <2>5
  <2> QED
    BY <2>1, <2>6 DEF WorkInv, Busy, Replaces
<1>9. CASE TakesUp(w)
  <2>1. /\ k.pc = "next" /\ n.pc = "withdraw" /\ rows' = rows
        /\ n.v \in k.todo /\ n.todo = k.todo \ {n.v} /\ n.derived = k.derived
    BY <1>9 DEF TakesUp
  <2>2. \A v : InHand(w, v)' <=> InHand(w, v)
    BY <2>1 DEF InHand
  <2>3. \A v \in Variants : IF InHand(w, v) THEN k.derived[v] = Target(v) ELSE Worn(v)
    BY <2>1 DEF WorkInv
  <2>4. \A v \in Variants : IF InHand(w, v)' THEN n.derived[v] = Target(v)' ELSE Worn(v)'
    BY <1>2, <2>1, <2>2, <2>3
  <2> QED
    BY <2>1, <2>4 DEF WorkInv, Busy, Replaces
<1>10. ASSUME k.pc \in Replaces, n.v = k.v, rows' = [rows EXCEPT ![k.v] = rows'[k.v]],
              DirectRows(rows'[k.v]) = DirectRows(rows[k.v])
       PROVE  /\ \A v \in Variants : Target(v)' = Target(v)
              /\ \A v \in Variants \ {k.v} : Worn(v)' <=> Worn(v)
  <2>1. BaseTimelines' = BaseTimelines
    BY <1>5, <1>10, BaseStays
  <2>2. \A v \in Variants \ {k.v} : rows'[v] = rows[v]
    BY <1>10 DEF TimesInv
  <2> QED
    BY <1>1, <2>1, <2>2, TargetStays, WornStays
<1>11. CASE Withdraws(w)
  <2>1. /\ k.pc = "withdraw" /\ n.pc = "derive" /\ n.v = k.v
        /\ n.todo = k.todo /\ n.derived = k.derived
        /\ rows' = [rows EXCEPT ![k.v] = DirectRows(rows[k.v])]
    BY <1>11 DEF Withdraws, SamePlan
  <2>2. k.pc \in Replaces /\ k.v \in Variants
    BY <1>5, <2>1 DEF Replaces
  <2>3. rows'[k.v] = DirectRows(rows[k.v])
    BY <2>1, <2>2 DEF TimesInv
  <2>4. /\ DirectRows(rows'[k.v]) = DirectRows(rows[k.v])
        /\ \A i \in Instants : ~IsDerived(rows'[k.v][i])
    BY <1>3, <2>2, <2>3, WithdrawnIs
  <2>5. \A v : InHand(w, v)' <=> InHand(w, v)
    BY <2>1 DEF InHand
  <2>6. InHand(w, k.v)
    BY <2>1 DEF InHand
  <2>7. \A v \in Variants : IF InHand(w, v) THEN k.derived[v] = Target(v) ELSE Worn(v)
    BY <2>1 DEF WorkInv, Replaces
  <2>8. \A v \in Variants : IF InHand(w, v)' THEN n.derived[v] = Target(v)' ELSE Worn(v)'
    BY <1>10, <2>1, <2>2, <2>3, <2>4, <2>5, <2>6, <2>7
  <2>9. \A i \in Instants : ~IsDerived(rows[k.v][i])'
    BY <2>1, <2>4 DEF IsDerived
  <2> QED
    BY <2>1, <2>8, <2>9 DEF WorkInv, Busy, Replaces
<1>12. CASE Creates(w)
  <2> DEFINE v == k.v
             d == k.derived[v]
  <2>1. /\ k.pc = "derive" /\ n.pc = "after" /\ n.v = v /\ n.todo = k.todo
        /\ n.derived = [k.derived EXCEPT ![v] = Empty]
        /\ rows' = [rows EXCEPT ![v] = Merged(rows[v], d)]
    BY <1>12 DEF Creates
  <2>2. k.pc \in Replaces /\ v \in Variants /\ v \notin k.todo
    BY <1>5, <2>1 DEF Replaces
  <2>3. rows'[v] = Merged(rows[v], d)
    BY <2>1, <2>2 DEF TimesInv
  <2>4. \A u \in Variants : IF InHand(w, u) THEN k.derived[u] = Target(u) ELSE Worn(u)
    BY <2>1 DEF WorkInv, Replaces
  <2>5. InHand(w, v)
    BY <2>1 DEF InHand
  <2>6. d = Target(v) /\ \A i \in Instants : ~IsDirect(d[i])
    BY <2>2, <2>4, <2>5, TargetIs
  <2>7. DirectRows(rows'[v]) = DirectRows(rows[v])
    BY <1>3, <2>2, <2>3, <2>6, MergedIs
  <2>8. /\ \A u \in Variants : Target(u)' = Target(u)
        /\ \A u \in Variants \ {v} : Worn(u)' <=> Worn(u)
    BY <1>10, <2>1, <2>2, <2>3, <2>7
  <2>9. Worn(v)'
    <3>1. ASSUME NEW i \in Instants
          PROVE  IsDirect(rows'[v][i]) \/ rows'[v][i] = Target(v)[i]
      <4>1. ~IsDerived(rows[v][i]) /\ rows[v][i] \in Version \cup {None}
        BY <1>3, <2>1, <2>2, TimelineIs DEF WorkInv
      <4>2. rows'[v][i] = IF rows[v][i] # None THEN rows[v][i] ELSE d[i]
        BY <2>3 DEF Merged
      <4> QED
        BY <2>6, <4>1, <4>2, SourcesAre
    <3>2. n.v = v /\ Target(v)' = Target(v)
      BY <2>1, <2>2, <2>8
    <3> QED
      BY <3>1, <3>2 DEF Worn, IsDirect
  <2>10. \A u \in Variants \ {v} : (InHand(w, u)' <=> InHand(w, u)) /\ n.derived[u] = k.derived[u]
    BY <1>4, <2>1 DEF InHand
  <2>11. ~InHand(w, v)'
    BY <2>1, <2>2 DEF InHand
  <2>12. \A u \in Variants : IF InHand(w, u)' THEN n.derived[u] = Target(u)' ELSE Worn(u)'
    <3>1. ASSUME NEW u \in Variants, u # v
          PROVE  IF InHand(w, u)' THEN n.derived[u] = Target(u)' ELSE Worn(u)'
      BY <2>4, <2>8, <2>10, <3>1
    <3>2. ASSUME NEW u \in Variants, u = v
          PROVE  ~InHand(w, u)' /\ Worn(u)'
      BY <2>1, <2>9, <2>11, <3>2 DEF InHand
    <3> QED
      BY <3>1, <3>2
  <2> QED
    BY <2>1, <2>12 DEF WorkInv, Busy, Replaces
<1>13. CASE Checks(w)
  <2>1. /\ k.pc \in {"after", "publish"} /\ n.pc \in {"publish", "next"} /\ rows' = rows
        /\ n.todo = k.todo /\ n.derived = k.derived
    BY <1>13 DEF Checks, SamePlan
  <2>2. \A v : InHand(w, v)' <=> InHand(w, v)
    BY <2>1 DEF InHand
  <2>3. \A v \in Variants : IF InHand(w, v) THEN k.derived[v] = Target(v) ELSE Worn(v)
    BY <2>1 DEF WorkInv, Replaces
  <2>4. \A v \in Variants : IF InHand(w, v)' THEN n.derived[v] = Target(v)' ELSE Worn(v)'
    BY <1>2, <2>1, <2>2, <2>3
  <2> QED
    BY <2>1, <2>4 DEF WorkInv, Busy, Replaces
<1>14. CASE Finishes(w)
  <2>1. k.pc = "next" /\ k.todo = {} /\ n.pc = "complete" /\ rows' = rows
    BY <1>14 DEF Finishes
  <2>2. \A v \in Variants : ~InHand(w, v)
    BY <2>1 DEF InHand
  <2>3. \A v \in Variants : Worn(v)
    BY <2>1, <2>2 DEF WorkInv
  <2> QED
    BY <1>2, <2>1, <2>3 DEF Busy, Replaces
<1>15. ~Opens(w) /\ ~ReadsEdges(w)
  BY DEF Opens, ReadsEdges, Busy, Replaces
<1> QED
  BY <1>7, <1>8, <1>9, <1>11, <1>12, <1>13, <1>14, <1>15 DEF PlanStep

LEMMA WornRollup ==
    ASSUME Shapes, TimesInv, ReachInv, WornInv, NEW w \in Workers, Rollup(w)
    PROVE  WornInv'
<1> SUFFICES ASSUME fresh', ~Pending'
             PROVE  /\ OneBusy'
                    /\ \A x \in Workers : Busy(x)' => WorkInv(x)'
                    /\ (\A x \in Workers : ~Busy(x)') => \A v \in Variants : Worn(v)'
  BY DEF WornInv
<1>1. /\ \A x \in Workers \ {w} : work'[x] = work[x]
      /\ PlanStep(w) /\ edges' = edges /\ page' = page
  BY RollupSteps, PlanSteps
<1>2. ConfirmedEdges' = ConfirmedEdges
  BY <1>1, ConfirmedStays
<1>3. \A x \in Workers \ {w} : (Busy(x)' <=> Busy(x)) /\ (work'[x].pc = work[x].pc)
  BY <1>1 DEF Busy
<1>4. orphaned \in Nat /\ NotesInv(w)
  BY DEF TimesInv, ReachInv
<1>5. CASE ReadsEdges(w)
  <2>1. \A x \in Workers \ {w} : ~Busy(x)'
    <3>1. Alone(w)
      BY <1>5 DEF ReadsEdges
    <3>2. \A x \in Workers \ {w} : work[x].pc # "edges"
      BY <1>3 DEF Pending
    <3> QED
      BY <1>3, <3>1, <3>2 DEF Alone, Busy, Replaces
  <2>2. Busy(w)' /\ WorkInv(w)'
    BY <1>2, <1>5 DEF ReadsEdges, Busy, WorkInv, Replaces
  <2> QED
    BY <2>1, <2>2 DEF OneBusy
<1>6. ~Opens(w)
  BY DEF Opens, Pending
<1>7. CASE ~ReadsEdges(w)
  <2>1. fresh /\ queued' = queued /\ orphaned' = orphaned /\ work[w].pc # "edges"
    <3>1. ~queued' /\ ~(orphaned' > 0)
      BY DEF Pending
    <3>2. CASE Leaves(w)
      <4>1. ~(orphaned' = orphaned + 1)
        BY <1>4, <3>1
      <4> QED
        BY <3>2, <4>1 DEF Leaves
    <3>3. CASE ~Leaves(w)
      BY <1>1, <1>6, <1>7, <3>3
      DEF PlanStep, ReadsHolders, Plans, TakesUp, Withdraws, Creates, Checks, Finishes
    <3> QED
      BY <3>2, <3>3
  <2>2. ~Pending
    BY <1>1, <1>3, <2>1 DEF Pending
  <2>3. /\ OneBusy /\ \A x \in Workers : Busy(x) => WorkInv(x)
        /\ (\A x \in Workers : ~Busy(x)) => \A v \in Variants : Worn(v)
    BY <2>1, <2>2 DEF WornInv
  <2>4. CASE Leaves(w)
    <3>1. rows' = rows /\ ~Busy(w) /\ ~Busy(w)'
      BY <1>4, <2>1, <2>4 DEF Leaves, Busy, Replaces
    <3>2. \A x \in Workers : Busy(x)' <=> Busy(x)
      BY <1>3, <3>1
    <3>3. \A x \in Workers : Busy(x)' => WorkInv(x)'
      BY <1>1, <1>2, <2>3, <3>1, <3>2, WorkStays
    <3>4. (\A x \in Workers : ~Busy(x)') => \A v \in Variants : Worn(v)'
      BY <1>2, <2>3, <3>1, <3>2, AllWornStays
    <3> QED
      BY <2>3, <3>2, <3>3, <3>4 DEF OneBusy
  <2>5. CASE ~Leaves(w)
    <3>1. Busy(w)
      BY <1>1, <1>6, <1>7, <2>5
      DEF PlanStep, ReadsHolders, Plans, TakesUp, Withdraws, Creates, Checks, Finishes,
          Busy, Replaces
    <3>2. IF Busy(w)' THEN WorkInv(w)' ELSE \A v \in Variants : Worn(v)'
      BY <1>1, <1>4, <2>3, <2>5, <3>1, WornPlan
    <3>3. \A x \in Workers \ {w} : ~Busy(x)'
      BY <1>3, <2>3, <3>1 DEF OneBusy
    <3> QED
      BY <3>2, <3>3 DEF OneBusy
  <2> QED
    BY <2>4, <2>5
<1> QED
  BY <1>5, <1>7

(* A step of anybody else that leaves costs and mappings as they are.      *)
LEMMA WornStep ==
    ASSUME WornInv, rows' = rows, ConfirmedEdges' = ConfirmedEdges, work' = work,
           fresh' /\ ~Pending' => fresh /\ ~Pending
    PROVE  WornInv'
<1> SUFFICES ASSUME fresh', ~Pending'
             PROVE  /\ OneBusy'
                    /\ \A x \in Workers : Busy(x)' => WorkInv(x)'
                    /\ (\A x \in Workers : ~Busy(x)') => \A v \in Variants : Worn(v)'
  BY DEF WornInv
<1>1. /\ OneBusy /\ \A x \in Workers : Busy(x) => WorkInv(x)
      /\ (\A x \in Workers : ~Busy(x)) => \A v \in Variants : Worn(v)
  BY DEF WornInv
<1>2. \A x \in Workers : Busy(x)' <=> Busy(x)
  BY DEF Busy
<1>3. \A x \in Workers : Busy(x)' => WorkInv(x)'
  BY <1>1, <1>2, WorkStays
<1>4. (\A x \in Workers : ~Busy(x)') => \A v \in Variants : Worn(v)'
  BY <1>1, <1>2, AllWornStays
<1> QED
  BY <1>1, <1>2, <1>3, <1>4 DEF OneBusy

LEMMA WornOutside ==
    ASSUME Shapes, TimesInv, WornInv, Outside
    PROVE  WornInv'
<1>1. UNCHANGED <<page, work>>
  BY OutsideSteps DEF OutsideStep
<1>2. ASSUME rows' = rows, edges' = edges, UNCHANGED <<queued, orphaned>>, fresh' => fresh
      PROVE  WornInv'
  <2>1. Pending' <=> Pending
    BY <1>1, <1>2 DEF Pending
  <2> QED
    BY <1>1, <1>2, <2>1, ConfirmedStays, WornStep
<1>3. CASE Tick
  BY <1>2, <1>3 DEF Tick, books
<1>4. ASSUME NEW v \in Variants, NEW c \in Costs \cup {None}, InventoryChanges(v, c)
      PROVE  WornInv'
  BY <1>2, <1>4 DEF InventoryChanges, books, ghosts
<1>5. ASSUME NEW f \in sent, SyncProduct(f) \/ ImportProduct(f)
      PROVE  WornInv'
  <2>1. /\ edges' = edges /\ UNCHANGED <<queued, orphaned>>
        /\ fresh' = (fresh /\ rows' = rows)
    BY <1>5 DEF SyncProduct, ImportProduct
  <2>2. CASE rows' = rows
    BY <1>2, <2>1, <2>2
  <2>3. CASE rows' # rows
    BY <2>1, <2>3 DEF WornInv
  <2> QED
    BY <2>2, <2>3
<1>6. CASE DetectBundles
  <2>1. /\ edges' = [p \in Mappable |->
                       IF p \in Detectable /\ edges[p] = NoEdge
                       THEN [state |-> "proposed", quantity |-> DetectedQuantity]
                       ELSE edges[p]]
        /\ UNCHANGED <<rows, queued, orphaned, fresh>>
    BY <1>6 DEF DetectBundles, ghosts
  <2>2. \A p \in Mappable : IF edges'[p].state = "confirmed" THEN edges'[p] = edges[p]
                            ELSE edges[p].state # "confirmed"
    BY <2>1 DEF NoEdge
  <2>3. ConfirmedEdges' = ConfirmedEdges
    BY <2>2 DEF ConfirmedEdges
  <2>4. Pending' <=> Pending
    BY <1>1, <2>1 DEF Pending
  <2> QED
    BY <1>1, <2>1, <2>3, <2>4, WornStep
<1> QED
  BY <1>3, <1>4, <1>5, <1>6 DEF Outside

LEMMA WornRequest ==
    ASSUME Shapes, TimesInv, WornInv, NEW r \in Requests, Request(r)
    PROVE  WornInv'
<1>1. work' = work /\ \A q \in Requests \ {r} : page'[q] = page[q]
  BY RequestSteps
<1>2. DOMAIN page = Requests /\ DOMAIN page[r] = PageColumns
  BY DEF Shapes, PageShape
<1>3. ASSUME rows' = rows, edges' = edges, UNCHANGED <<queued, orphaned>>,
             fresh' => fresh, page[r].pc # "enqueue"
      PROVE  WornInv'
  <2>1. Pending => Pending'
    BY <1>1, <1>3 DEF Pending
  <2> QED
    BY <1>1, <1>3, <2>1, ConfirmedStays, WornStep
<1>4. ASSUME NEW v \in Variants, NEW at \in Instants, NEW c \in Costs, LoadBefore(r, v, at, c)
      PROVE  WornInv'
  BY <1>3, <1>4 DEF LoadBefore, books
<1>5. CASE SaveVersion(r)
  BY <1>5 DEF SaveVersion, WornInv
<1>6. CASE PublishSaved(r)
  BY <1>3, <1>6 DEF PublishSaved, ghosts
<1>7. ASSUME NEW p, NEW e, Map(r, p, e)
      PROVE  WornInv'
  <2>1. page' = [page EXCEPT ![r] = [page[r] EXCEPT !.pc = "enqueue"]]
    BY <1>7 DEF Map
  <2>2. page'[r].pc = "enqueue"
    BY <1>2, <2>1 DEF PageColumns
  <2>3. Pending'
    BY <2>2 DEF Pending
  <2> QED
    BY <2>3 DEF WornInv
<1>8. ASSUME NEW p \in Mappable, NEW q \in Quantities, UpsertMapping(r, p, q)
      PROVE  WornInv'
  BY <1>7, <1>8 DEF UpsertMapping
<1>9. ASSUME NEW p \in Mappable, ConfirmMapping(r, p) \/ RemoveMapping(r, p)
      PROVE  WornInv'
  BY <1>7, <1>9 DEF ConfirmMapping, RemoveMapping
<1>10. CASE EnqueueRollup(r)
  <2>1. Pending'
    BY <1>10 DEF EnqueueRollup, Pending
  <2> QED
    BY <2>1 DEF WornInv
<1>11. CASE RequestDies(r)
  <2>1. /\ rows' = rows /\ edges' = edges /\ UNCHANGED <<queued, orphaned>>
        /\ fresh' = (fresh /\ page[r].pc # "enqueue")
    BY <1>11 DEF RequestDies, books
  <2>2. CASE fresh'
    BY <1>3, <2>1, <2>2
  <2>3. CASE ~fresh'
    BY <2>3 DEF WornInv
  <2> QED
    BY <2>2, <2>3
<1> QED
  BY <1>4, <1>5, <1>6, <1>8, <1>9, <1>10, <1>11 DEF Request

LEMMA WornKept == Shapes /\ TimesInv /\ ReachInv /\ WornInv /\ [Next]_vars => WornInv'
<1>1. ASSUME WornInv, UNCHANGED vars
      PROVE  WornInv'
  <2>1. UNCHANGED <<rows, edges, work, fresh, page, queued, orphaned>>
    BY <1>1 DEF vars, books, ghosts
  <2>2. Pending' <=> Pending
    BY <2>1 DEF Pending
  <2> QED
    BY <1>1, <2>1, <2>2, ConfirmedStays, WornStep
<1> QED
  BY <1>1, WornOutside, WornRequest, WornRollup DEF Next

LEMMA WornInit == Init => WornInv
  BY DEF Init, WornInv

(* The rows that a pack should wear are those that its costs by levels     *)
(* call for, and nothing else of its timeline is derived.                  *)
LEMMA WornIsExpected ==
    ASSUME TimesInv, NestingIsAllowed, NEW v \in Variants, Worn(v)
    PROVE  DerivedRows(rows[v]) = Expected(v)
<1> DEFINE cost(i) == CostAt[Cardinality(Variants)][v][i]
           C == [i \in Instants |-> cost(i)]
<1>1. DerivedRows(rows[v]) = [i \in Instants |-> IF IsDirect(rows[v][i]) THEN None
                                                 ELSE rows[v][i]]
  BY DEF DerivedRows, Without
<1>2. ASSUME NEW i \in Instants
      PROVE  Target(v)[i] = IF /\ ComponentsOf(v) # {} /\ cost(i) # None
                               /\ i = 0 \/ cost(i) # cost(i - 1)
                            THEN [cost |-> cost(i), source |-> "BUNDLE_ROLLUP"] ELSE None
  <2>1. CASE ComponentsOf(v) = {}
    BY <2>1 DEF Target, Empty
  <2>2. CASE ComponentsOf(v) # {}
    <3>1. Catalogued(ConfirmedEdges, BaseTimelines)
      BY ConfirmedTyped, CataloguedIs
    <3>2. Target(v) = Derived(C)
      BY <2>2, <3>1, ResolvedCosts DEF Target
    <3>3. C[i] = cost(i) /\ (i # 0 => C[i - 1] = cost(i - 1))
      BY InstantsAre
    <3> HIDE DEF C, cost
    <3>4. Derived(C)[i] = IF C[i] # None /\ (i = 0 \/ C[i] # C[i - 1])
                          THEN [cost |-> C[i], source |-> "BUNDLE_ROLLUP"] ELSE None
      BY DEF Derived
    <3> QED
      BY <2>2, <3>2, <3>3, <3>4
  <2> QED
    BY <2>1, <2>2
<1>3. Expected(v) = [i \in Instants |->
                       IF /\ ComponentsOf(v) # {} /\ cost(i) # None
                          /\ i = 0 \/ cost(i) # cost(i - 1)
                          /\ ~IsDirect(rows[v][i])
                       THEN [cost |-> cost(i), source |-> "BUNDLE_ROLLUP"] ELSE None]
  BY DEF Expected
<1> HIDE DEF cost
<1>4. ASSUME NEW i \in Instants
      PROVE  DerivedRows(rows[v])[i] = Expected(v)[i]
  <2>1. CASE IsDirect(rows[v][i])
    BY <1>1, <1>3, <2>1
  <2>2. CASE ~IsDirect(rows[v][i])
    <3>1. rows[v][i] = Target(v)[i]
      BY <2>2 DEF Worn
    <3> QED
      BY <1>1, <1>2, <1>3, <2>2, <3>1
  <2> QED
    BY <2>1, <2>2
<1> QED
  BY <1>1, <1>3, <1>4

(* Whatever was derived before, died half-way or was mapped in a circle:   *)
(* when the rollups that the mappings asked for are done, the last of them *)
(* alone, and no cost has moved since, every pack wears the history that   *)
(* its components give it, unless packs are nested deeper than the walk    *)
(* goes (MAX_BUNDLE_DEPTH).  PackHistoryIsDerived.                         *)
THEOREM PackHistoryHolds == Spec => [](NestingIsAllowed => PackHistoryIsDerived)
<1>1. TimesInv /\ WornInv => (NestingIsAllowed => PackHistoryIsDerived)
  <2> SUFFICES ASSUME TimesInv, WornInv, NestingIsAllowed, Settled, fresh
               PROVE  PacksMatchComponents
    BY DEF PackHistoryIsDerived
  <2>1. orphaned = 0 /\ ~Pending
    BY DEF Settled, Pending
  <2>2. \A w \in Workers : ~Busy(w)
    BY DEF Settled, Busy, Replaces
  <2>3. \A v \in Variants : Worn(v)
    BY <2>1, <2>2 DEF WornInv
  <2> QED
    BY <2>3, WornIsExpected DEF PacksMatchComponents
<1> QED
  BY <1>1, ShapesInit, ShapesKept, ReachInit, ReachKept, TimesInit, TimesKept,
     WornInit, WornKept, PTL DEF Spec

(* A shop with no more variants than levels the walk goes cannot nest them *)
(* deeper, whatever the merchant maps.  PackHistoryIsDerived.              *)
THEOREM SmallShopHistoryHolds ==
    ASSUME Cardinality(Variants) <= MaxDepth + 1
    PROVE  Spec => []PackHistoryIsDerived
<1>1. NestingIsAllowed
  <2> SUFFICES ASSUME NEW n \in Nat, NEW c, IsChain(c, n)
               PROVE  n <= Cardinality(Variants)
    BY FS_CardinalityType, VariantsAssumption, NumbersAssumption DEF NestingIsAllowed
  <2>1. c \in Injection(1..n, Variants)
    BY DEF IsChain, Injection, IsInjective
  <2>2. IsFiniteSet(1..n) /\ Cardinality(1..n) = n
    BY FS_Interval
  <2> QED
    BY <2>1, <2>2, FS_Injection, VariantsAssumption
<1> QED
  BY <1>1, PackHistoryHolds, PTL
=============================================================================
