---------------------------- MODULE ReportsProofs ----------------------------
(***************************************************************************)
(* What holds of the pages of figures for every story, every number of     *)
(* requests and every size of the cache.                                   *)
(*                                                                         *)
(* A value of the cache is read piece by piece, while deliveries are       *)
(* written and recomputes stamp the shop.  That it is still current when   *)
(* a request is given it is an invariant of four things at once: the marks *)
(* of the last invalidation, the entries retained, the builds in the queue *)
(* and the requests that wait for them.                                    *)
(***************************************************************************)
EXTENDS Reports, SequenceTheorems, FiniteSetTheorems, TLAPS

-----------------------------------------------------------------------------
(* The inductive invariant, part by part.                                  *)

(* A sequence of whatever its entries are.                                 *)
IsQueue(s) == s \in Seq({s[i] : i \in DOMAIN s})

(* What a piece must be as new as, by a mark.                              *)
Since(m, part) == IF part = "cohort" THEN m.made ELSE m.db
ReadSince(read, m) == \A part \in DOMAIN read : read[part] \in Int /\ read[part] >= Since(m, part)
IsMark(m) == m = [db |-> m.db, made |-> m.made] /\ m.db \in Nat /\ m.made \in Nat

ClocksAgree ==
    /\ scene \in Stories /\ db \in DOMAIN scene.editions /\ made \in 1..db
    /\ IsMark(mark) /\ mark.db <= db /\ mark.made <= made
    /\ generation \in Nat

(* What is retained was read since the mark, and one window at most.       *)
IsEntry(e) ==
    /\ e = [kind |-> e.kind, key |-> e.key, fresh |-> e.fresh, value |-> e.value,
            weight |-> e.weight]
    /\ e.kind \in {"full", "period"} /\ "read" \in DOMAIN e.value
OneFull(entries) ==
    \A i, j \in DOMAIN entries : entries[i].kind = "full" /\ entries[j].kind = "full" => i = j
NoFull(entries) == \A i \in DOMAIN entries : entries[i].kind # "full"
AllSince(entries, m) ==
    \A i \in DOMAIN entries : IsEntry(entries[i]) /\ ReadSince(entries[i].value.read, m)
RetainedIsCurrent(entries, m) == IsQueue(entries) /\ AllSince(entries, m) /\ OneFull(entries)

(* The gate lets the head run and no other.  What it has read for the      *)
(* generation of now, g, is as new as the mark; a recompute that runs read *)
(* an edition between the one the profit is of and the one stored.         *)
IsBuild(b, g) ==
    /\ b = [kind |-> b.kind, key |-> b.key, gen |-> b.gen, pc |-> b.pc, read |-> b.read]
    /\ b.pc \in {"queued", "reading", "running"}
    /\ b.gen \in Nat /\ b.gen <= g
BuildIsCurrent(b, g, m, lo, hi) ==
    /\ b.pc = "queued" => b.read = <<>>
    /\ b.kind # "recompute" /\ b.gen = g => ReadSince(b.read, m)
    /\ b.kind = "recompute" /\ b.pc = "running" =>
          "orders" \in DOMAIN b.read /\ b.read.orders \in lo..hi
AllQueued(builds) == \A i \in DOMAIN builds : builds[i].pc = "queued"
GateIsKept(builds, g, m, lo, hi) ==
    /\ IsQueue(builds)
    /\ \A i \in DOMAIN builds :
          /\ IsBuild(builds[i], g) /\ BuildIsCurrent(builds[i], g, m, lo, hi)
          /\ i # 1 => builds[i].pc = "queued"

(* While the head runs no window is retained, and while a recompute waits  *)
(* or runs nothing is, for whatever is ahead of it is of another           *)
(* generation and will not be stored.                                      *)
PeakIsAlone(builds, entries, g) ==
    /\ ~AllQueued(builds) => NoFull(entries)
    /\ \A i \in DOMAIN builds : builds[i].kind = "recompute" =>
          /\ entries = <<>>
          /\ \A j \in DOMAIN builds : j < i /\ builds[j].kind # "recompute" =>
                builds[j].gen < g

(* A request of a page is as old as the mark at most; what it was given,   *)
(* and what it waits for, is as new as its floor.                          *)
IsSheet(q, asks) ==
    /\ q = [pc |-> "done", kind |-> q.kind, of |-> q.of, answer |-> q.answer]
    /\ q.kind \notin asks
IsPage(q, m) ==
    /\ q = [pc |-> q.pc, kind |-> q.kind, stage |-> q.stage, key |-> q.key, floor |-> q.floor,
            flight |-> q.flight, answer |-> q.answer, of |-> q.of, plan |-> q.plan]
    /\ q.stage \in {"capacity", "full", "period"}
    /\ IsMark(q.floor) /\ q.floor.db <= m.db /\ q.floor.made <= m.made
    /\ \A v \in q.answer : ReadSince(v.read, q.floor)
WaitsForCurrent(q, builds) ==
    \A i \in DOMAIN builds : builds[i].kind # "recompute" /\ Waits(q, builds[i]) =>
        ReadSince(builds[i].read, q.floor)
IsServed(q, m, builds, asks) ==
    \/ q = Idle
    \/ IsSheet(q, asks)
    \/ IsPage(q, m) /\ WaitsForCurrent(q, builds)

CacheInv ==
    /\ ClocksAgree
    /\ RetainedIsCurrent(retained, mark)
    /\ GateIsKept(tail, generation, mark, made, db)
    /\ PeakIsAlone(tail, retained, generation)
    /\ request = [r \in Requests |-> request[r]]
    /\ \A r \in Requests : IsServed(request[r], mark, tail, scene.asks)

(* Every price that is planned or suggested keeps its margin.              *)
PlansKeepTheMargin ==
    \A r \in Requests : request[r].pc \in {"decided", "delete", "create"} =>
        \A x \in request[r].plan : MarginKept(x)
IsSuggestion(s) ==
    s = [run |-> s.run, variant |-> s.variant, price |-> s.price, method |-> s.method,
         status |-> s.status]
MarginInv ==
    /\ PlansKeepTheMargin
    /\ \A s \in suggestions : IsSuggestion(s) /\ MarginKept(s)

-----------------------------------------------------------------------------
(* Sequences of whatever their entries are.                                *)

LEMMA QueueShape ==
    ASSUME NEW s, IsQueue(s)
    PROVE  /\ Len(s) \in Nat /\ DOMAIN s = 1..Len(s)
           /\ s = [i \in 1..Len(s) |-> s[i]]
  BY DEF IsQueue

LEMMA QueueMade ==
    ASSUME NEW n \in Nat, NEW s, DOMAIN s = 1..n, s = [i \in 1..n |-> s[i]]
    PROVE  IsQueue(s) /\ Len(s) = n
<1> DEFINE S == {s[i] : i \in 1..n}
<1>1. s \in [1..n -> S]
  OBVIOUS
<1>2. s \in Seq(S)
  BY <1>1, SeqDef
<1> QED
  BY <1>2, LenProperties DEF IsQueue

LEMMA QueueAppend ==
    ASSUME NEW s, IsQueue(s), NEW e
    PROVE  /\ IsQueue(Append(s, e))
           /\ Len(Append(s, e)) = Len(s) + 1
           /\ DOMAIN Append(s, e) = 1..(Len(s) + 1)
           /\ \A i \in 1..Len(s) : Append(s, e)[i] = s[i]
           /\ Append(s, e)[Len(s) + 1] = e
<1> DEFINE S == {s[i] : i \in DOMAIN s} \cup {e}
<1>1. s \in Seq(S)
  <2>1. s \in [1..Len(s) -> S] /\ Len(s) \in Nat
    BY QueueShape
  <2> QED
    BY <2>1, SeqDef
<1>2. Append(s, e) \in Seq(S) /\ Len(Append(s, e)) = Len(s) + 1
      /\ (\A i \in 1..Len(s) : Append(s, e)[i] = s[i]) /\ Append(s, e)[Len(s) + 1] = e
  BY <1>1, AppendProperties
<1> HIDE DEF S
<1>3. DOMAIN Append(s, e) = 1..(Len(s) + 1) /\ Len(s) + 1 \in Nat
  BY <1>2, QueueShape
<1>4. Append(s, e) = [i \in 1..(Len(s) + 1) |-> Append(s, e)[i]]
  BY <1>2, <1>3, LenProperties
<1> QED
  BY <1>2, <1>3, <1>4, QueueMade

LEMMA QueueTail ==
    ASSUME NEW s, IsQueue(s), s # <<>>
    PROVE  /\ IsQueue(Tail(s)) /\ Len(s) >= 1
           /\ Len(Tail(s)) = Len(s) - 1
           /\ DOMAIN Tail(s) = 1..(Len(s) - 1)
           /\ \A i \in 1..(Len(s) - 1) : Tail(s)[i] = s[i + 1]
<1> DEFINE S == {s[i] : i \in DOMAIN s}
<1>1. s \in Seq(S)
  BY DEF IsQueue
<1>2. Tail(s) \in Seq(S) /\ Len(Tail(s)) = Len(s) - 1 /\ Len(s) \in Nat /\ Len(s) >= 1
      /\ \A i \in 1..(Len(s) - 1) : Tail(s)[i] = s[i + 1]
  BY <1>1, HeadTailProperties, EmptySeq, LenProperties
<1> HIDE DEF S
<1>3. DOMAIN Tail(s) = 1..(Len(s) - 1) /\ Len(s) - 1 \in Nat
  BY <1>2
<1>4. Tail(s) = [i \in 1..(Len(s) - 1) |-> Tail(s)[i]]
  BY <1>2, <1>3, LenProperties
<1> QED
  BY <1>2, <1>3, <1>4, QueueMade

LEMMA QueueEmpty == IsQueue(<<>>) /\ Len(<<>>) = 0 /\ DOMAIN <<>> = {}
  BY EmptySeq DEF IsQueue

LEMMA QueueHead ==
    ASSUME NEW s, IsQueue(s), s # <<>>
    PROVE  1 \in DOMAIN s
  BY QueueTail, QueueShape

-----------------------------------------------------------------------------
(* What is deleted leaves the rest in its order, each entry once.          *)
LEMMA RanksCover ==
    ASSUME NEW n \in Nat, NEW kept \in SUBSET (1..n)
    PROVE  /\ Cardinality(kept) \in Nat
           /\ \A k \in 1..Cardinality(kept) :
                 \E i \in kept : Cardinality({j \in kept : j <= i}) = k
<1> DEFINE upTo(i) == {j \in kept : j <= i}
           rank == [i \in kept |-> Cardinality(upTo(i))]
           m == Cardinality(kept)
<1>1. IsFiniteSet(kept) /\ m \in Nat
  <2>1. IsFiniteSet(1..n)
    BY FS_Interval
  <2>2. IsFiniteSet(kept)
    BY <2>1, FS_Subset
  <2> QED
    BY <2>2, FS_CardinalityType
<1>2. ASSUME NEW i \in kept PROVE IsFiniteSet(upTo(i)) /\ Cardinality(upTo(i)) \in 1..m
  <2>1. upTo(i) \in SUBSET kept /\ i \in upTo(i)
    OBVIOUS
  <2>2. IsFiniteSet(upTo(i)) /\ Cardinality(upTo(i)) \in Nat /\ Cardinality(upTo(i)) <= m
    BY <1>1, <2>1, FS_Subset, FS_CardinalityType
  <2>3. Cardinality(upTo(i)) # 0
    BY <2>1, <2>2, FS_EmptySet
  <2> QED
    BY <1>1, <2>2, <2>3
<1>3. ASSUME NEW i \in kept, NEW j \in kept, i < j PROVE rank[i] # rank[j]
  <2>1. upTo(i) \in SUBSET upTo(j) /\ j \in upTo(j) /\ j \notin upTo(i)
    <3>1. i \in Int /\ j \in Int /\ kept \subseteq Int
      OBVIOUS
    <3>2. \A x \in kept : x <= i => x <= j
      BY <1>3, <3>1
    <3>3. j <= j /\ ~(j <= i)
      BY <1>3, <3>1
    <3> QED
      BY <3>2, <3>3
  <2>2. upTo(i) # upTo(j)
    BY <2>1
  <2>3. Cardinality(upTo(i)) # Cardinality(upTo(j))
    BY <1>2, <2>1, <2>2, FS_Subset
  <2> QED
    BY <2>3
<1>4. rank \in Injection(kept, 1..m)
  <2>1. rank \in [kept -> 1..m]
    BY <1>2
  <2>2. \A i, j \in kept : rank[i] = rank[j] => i = j
    <3>1. \A i \in kept : i \in Int
      OBVIOUS
    <3> HIDE DEF rank, m
    <3> QED
      BY <1>3, <3>1
  <2> HIDE DEF rank, m
  <2> QED
    BY <2>1, <2>2 DEF Injection, IsInjective
<1>5. rank \in Surjection(kept, 1..m)
  <2>1. IsFiniteSet(1..m) /\ Cardinality(1..m) = m
    BY <1>1, FS_Interval
  <2> HIDE DEF rank
  <2> QED
    BY <1>1, <1>4, <2>1, FS_Injection, FS_Surjection
<1> QED
  <2>1. ASSUME NEW k \in 1..m PROVE \E i \in kept : rank[i] = k
    BY <1>5 DEF Surjection
  <2> QED
    BY <1>1, <2>1

LEMMA PickedOnce ==
    ASSUME NEW s, IsQueue(s), NEW kept \in SUBSET DOMAIN s
    PROVE  /\ IsQueue(Picked(s, kept))
           /\ \E at \in [DOMAIN Picked(s, kept) -> kept] :
                 \A k \in DOMAIN Picked(s, kept) :
                    /\ Picked(s, kept)[k] = s[at[k]]
                    /\ \A l \in DOMAIN Picked(s, kept) : at[k] = at[l] => k = l
<1> DEFINE m == Cardinality(kept)
           place(k) == CHOOSE i \in kept : Cardinality({j \in kept : j <= i}) = k
           at == [k \in 1..m |-> place(k)]
<1>1. Len(s) \in Nat /\ kept \in SUBSET (1..Len(s))
  BY QueueShape
<1>2. m \in Nat /\ \A k \in 1..m : \E i \in kept : Cardinality({j \in kept : j <= i}) = k
  BY <1>1, RanksCover
<1>3. ASSUME NEW k \in 1..m
      PROVE  place(k) \in kept /\ Cardinality({j \in kept : j <= place(k)}) = k
  BY <1>2, <1>3
<1>4. Picked(s, kept) = [k \in 1..m |-> s[place(k)]]
  BY DEF Picked
<1> HIDE DEF m, place
<1>5. DOMAIN Picked(s, kept) = 1..m /\ at \in [1..m -> kept]
  BY <1>3, <1>4
<1>6. \A k \in 1..m : Picked(s, kept)[k] = s[at[k]]
  BY <1>4
<1>7. \A k, l \in 1..m : at[k] = at[l] => k = l
  BY <1>3
<1>8. IsQueue(Picked(s, kept))
  <2>1. Picked(s, kept) = [k \in 1..m |-> Picked(s, kept)[k]]
    BY <1>4
  <2> QED
    BY <1>2, <1>5, <2>1, QueueMade
<1> HIDE DEF at
<1> QED
  BY <1>5, <1>6, <1>7, <1>8

(* Nothing new is among the entries that stay.                             *)
LEMMA PickedStays ==
    ASSUME NEW s, IsQueue(s), NEW kept \in SUBSET DOMAIN s
    PROVE  /\ IsQueue(Picked(s, kept))
           /\ \A k \in DOMAIN Picked(s, kept) : \E i \in kept : Picked(s, kept)[k] = s[i]
           /\ OneFull(s) => OneFull(Picked(s, kept))
<1>1. PICK at \in [DOMAIN Picked(s, kept) -> kept] :
         \A k \in DOMAIN Picked(s, kept) :
            /\ Picked(s, kept)[k] = s[at[k]]
            /\ \A l \in DOMAIN Picked(s, kept) : at[k] = at[l] => k = l
  BY PickedOnce
<1>2. \A k \in DOMAIN Picked(s, kept) : \E i \in kept : Picked(s, kept)[k] = s[i]
  BY <1>1
<1>3. ASSUME OneFull(s) PROVE OneFull(Picked(s, kept))
  <2>1. \A k \in DOMAIN Picked(s, kept) : at[k] \in DOMAIN s
    BY <1>1
  <2> QED
    BY <1>1, <1>3, <2>1 DEF OneFull
<1> QED
  BY <1>2, <1>3, PickedOnce

LEMMA PickedSince ==
    ASSUME NEW s, IsQueue(s), NEW kept \in SUBSET DOMAIN s, NEW m, AllSince(s, m), OneFull(s)
    PROVE  LET p == Picked(s, kept) IN IsQueue(p) /\ AllSince(p, m) /\ OneFull(p)
<1>1. \A k \in DOMAIN Picked(s, kept) : \E i \in DOMAIN s : Picked(s, kept)[k] = s[i]
  BY PickedStays
<1>2. AllSince(Picked(s, kept), m)
  BY <1>1 DEF AllSince
<1> QED
  BY <1>2, PickedStays

-----------------------------------------------------------------------------
(* What a store leaves.                                                    *)

LEMMA DroppedSince ==
    ASSUME NEW s, IsQueue(s), NEW m, AllSince(s, m), OneFull(s)
    PROVE  /\ IsQueue(Dropped(s)) /\ AllSince(Dropped(s), m) /\ OneFull(Dropped(s))
           /\ NoFull(Dropped(s))
<1> DEFINE kept == {i \in DOMAIN s : s[i].kind # "full"}
<1>1. Dropped(s) = Picked(s, kept) /\ kept \in SUBSET DOMAIN s
  BY DEF Dropped
<1>2. NoFull(Dropped(s))
  BY <1>1, PickedStays DEF NoFull
<1> HIDE DEF kept
<1> QED
  BY <1>1, <1>2, PickedSince

LEMMA TrimmedSince ==
    ASSUME NEW s, IsQueue(s), NEW m, AllSince(s, m), OneFull(s), NEW kind
    PROVE  LET t == Trimmed(s, kind)
           IN  IsQueue(t) /\ AllSince(t, m) /\ OneFull(t) /\ (NoFull(s) => NoFull(t))
<1> DEFINE held == {i \in DOMAIN s : s[i].fresh \/ s[i].kind = "full"}
<1>1. WithinBudget(s) \in SUBSET DOMAIN s
  BY DEF WithinBudget
<1>2. Current(s) = Picked(s, held) /\ held \in SUBSET DOMAIN s
  BY DEF Current
<1> HIDE DEF held
<1>3. IsQueue(Current(s)) /\ AllSince(Current(s), m) /\ OneFull(Current(s))
  BY <1>2, PickedSince
<1>4. WithinLimit(Current(s)) \in SUBSET DOMAIN Current(s)
  BY DEF WithinLimit
<1>5. \A k \in DOMAIN Current(s) : \E i \in DOMAIN s : Current(s)[k] = s[i]
  BY <1>2, PickedStays
<1>6. CASE kind = "period"
  <2> DEFINE t == Picked(Current(s), WithinLimit(Current(s)))
  <2>1. Trimmed(s, kind) = t
    BY <1>6 DEF Trimmed
  <2>2. IsQueue(t) /\ AllSince(t, m) /\ OneFull(t)
    BY <1>3, <1>4, PickedSince
  <2>3. \A k \in DOMAIN t : \E i \in DOMAIN Current(s) : t[k] = Current(s)[i]
    BY <1>3, <1>4, PickedStays
  <2> HIDE DEF t
  <2>4. NoFull(s) => NoFull(t)
    BY <1>5, <2>3 DEF NoFull
  <2> QED
    BY <2>1, <2>2, <2>4
<1>7. CASE kind # "period"
  <2> DEFINE t == Picked(s, WithinBudget(s))
  <2>1. Trimmed(s, kind) = t
    BY <1>7 DEF Trimmed
  <2>2. IsQueue(t) /\ AllSince(t, m) /\ OneFull(t)
    BY <1>1, PickedSince
  <2>3. \A k \in DOMAIN t : \E i \in DOMAIN s : t[k] = s[i]
    BY <1>1, PickedStays
  <2> HIDE DEF t
  <2>4. NoFull(s) => NoFull(t)
    BY <2>3 DEF NoFull
  <2> QED
    BY <2>1, <2>2, <2>4
<1> QED
  BY <1>6, <1>7

(* A window is stored where none was held; a value that was read since the *)
(* mark leaves a cache that was.                                           *)
LEMMA StoredSince ==
    ASSUME RetainedIsCurrent(retained, mark), NoFull(retained), NEW kind \in {"full", "period"}, NEW key,
           NEW value, "read" \in DOMAIN value, ReadSince(value.read, mark)
    PROVE  LET t == Stored(kind, key, value)
           IN  RetainedIsCurrent(t, mark)
<1> DEFINE kept == {i \in DOMAIN retained : retained[i].kind # kind \/ retained[i].key # key}
           e == [kind |-> kind, key |-> key, fresh |-> TRUE, value |-> value,
                 weight |-> IF kind = "full" THEN value.weight ELSE 0]
           o == Others(kind, key)
           s == Append(o, e)
<1>1. o = Picked(retained, kept) /\ kept \in SUBSET DOMAIN retained
  BY DEF Others
<1>2. IsQueue(o) /\ AllSince(o, mark)
      /\ \A k \in DOMAIN o : \E i \in DOMAIN retained : o[k] = retained[i]
  <2> HIDE DEF kept, o
  <2> QED
    BY <1>1, PickedSince, PickedStays DEF RetainedIsCurrent
<1>3. NoFull(o)
  <2> HIDE DEF o
  <2> QED
    BY <1>2 DEF NoFull
<1>4. IsEntry(e) /\ e.value = value
  <2>1. /\ e.kind = kind /\ e.key = key /\ e.fresh = TRUE /\ e.value = value
        /\ e.weight = (IF kind = "full" THEN value.weight ELSE 0)
    OBVIOUS
  <2> QED
    BY <2>1 DEF IsEntry
<1> HIDE DEF e, o
<1>5. /\ IsQueue(s) /\ DOMAIN s = 1..(Len(o) + 1) /\ s[Len(o) + 1] = e
      /\ (\A i \in 1..Len(o) : s[i] = o[i]) /\ DOMAIN o = 1..Len(o) /\ Len(o) \in Nat
  BY <1>2, QueueAppend, QueueShape
<1> HIDE DEF s
<1>6. AllSince(s, mark)
  <2>1. ASSUME NEW i \in DOMAIN s PROVE IsEntry(s[i]) /\ ReadSince(s[i].value.read, mark)
    <3>1. CASE i = Len(o) + 1
      BY <1>4, <1>5, <3>1
    <3>2. CASE i \in 1..Len(o)
      BY <1>2, <1>5, <3>2 DEF AllSince
    <3> QED
      BY <1>5, <3>1, <3>2
  <2> QED
    BY <2>1 DEF AllSince
<1>7. OneFull(s)
  <2>1. ASSUME NEW i \in DOMAIN s, s[i].kind = "full" PROVE i = Len(o) + 1
    BY <1>3, <1>5, <2>1 DEF NoFull
  <2> QED
    BY <2>1 DEF OneFull
<1>8. Stored(kind, key, value) = Trimmed(s, kind)
  BY DEF Stored, s, e, o
<1> QED
  BY <1>5, <1>6, <1>7, <1>8, TrimmedSince DEF RetainedIsCurrent

-----------------------------------------------------------------------------
(* Time, and what a request waits for.                                     *)

LEMMA SinceEarlier ==
    ASSUME NEW m, NEW f, IsMark(m), IsMark(f), f.db <= m.db, f.made <= m.made,
           NEW read, ReadSince(read, m)
    PROVE  ReadSince(read, f)
  BY DEF IsMark, ReadSince, Since

LEMMA NothingReadYet ==
    ASSUME NEW m
    PROVE  ReadSince(<<>>, m)
  BY EmptySeq DEF ReadSince

(* Nothing of what the builds of u have read is news to a request.         *)
NothingNew(t, u) ==
    \A i \in DOMAIN u :
        \/ u[i].read = <<>> \/ u[i].kind = "recompute"
        \/ \E j \in DOMAIN t : /\ u[i].kind = t[j].kind /\ u[i].key = t[j].key
                               /\ u[i].gen = t[j].gen /\ u[i].read = t[j].read

LEMMA ServedLater ==
    ASSUME NEW q, NEW m, NEW t, NEW asks, IsServed(q, m, t, asks), IsMark(m),
           NEW n, IsMark(n), m.db <= n.db, m.made <= n.made,
           NEW u, NothingNew(t, u)
    PROVE  IsServed(q, n, u, asks)
<1>1. CASE q = Idle
  BY <1>1 DEF IsServed
<1>2. CASE IsSheet(q, asks)
  BY <1>2 DEF IsServed
<1>3. CASE IsPage(q, m) /\ WaitsForCurrent(q, t)
  <2>1. IsPage(q, n)
    BY <1>3 DEF IsPage, IsMark
  <2>2. ASSUME NEW i \in DOMAIN u, u[i].kind # "recompute", Waits(q, u[i])
        PROVE  ReadSince(u[i].read, q.floor)
    <3>1. CASE u[i].read = <<>>
      BY <3>1, NothingReadYet
    <3>2. CASE u[i].read # <<>>
      <4>1. PICK j \in DOMAIN t : /\ u[i].kind = t[j].kind /\ u[i].key = t[j].key
                                  /\ u[i].gen = t[j].gen /\ u[i].read = t[j].read
        BY <2>2, <3>2 DEF NothingNew
      <4>2. Waits(q, t[j]) /\ t[j].kind # "recompute"
        BY <2>2, <4>1 DEF Waits
      <4> QED
        BY <1>3, <4>1, <4>2 DEF WaitsForCurrent
    <3> QED
      BY <3>1, <3>2
  <2>3. WaitsForCurrent(q, u)
    BY <2>2 DEF WaitsForCurrent
  <2> QED
    BY <2>1, <2>3 DEF IsServed
<1> QED
  BY <1>1, <1>2, <1>3 DEF IsServed

LEMMA NothingNewSame ==
    ASSUME NEW t
    PROVE  NothingNew(t, t)
  BY DEF NothingNew

(* Every request, when none goes on.                                       *)
LEMMA AllServedLater ==
    ASSUME CacheInv, UNCHANGED <<request, scene>>, IsMark(mark'), mark.db <= mark'.db,
           mark.made <= mark'.made, NothingNew(tail, tail')
    PROVE  /\ request' = [r \in Requests |-> request'[r]]
           /\ \A r \in Requests : IsServed(request'[r], mark', tail', scene'.asks)
<1>1. IsMark(mark) /\ request = [r \in Requests |-> request[r]]
  BY DEF CacheInv, ClocksAgree
<1>2. ASSUME NEW r \in Requests PROVE IsServed(request[r], mark', tail', scene.asks)
  <2>1. IsServed(request[r], mark, tail, scene.asks)
    BY DEF CacheInv
  <2> QED
    BY <1>1, <2>1, ServedLater
<1> QED
  BY <1>1, <1>2

-----------------------------------------------------------------------------
(* What happens to the gate.                                               *)

LEMMA GateTail ==
    ASSUME NEW t, NEW g, NEW m, NEW lo, NEW hi, GateIsKept(t, g, m, lo, hi), t # <<>>
    PROVE  LET u == Tail(t)
           IN  /\ GateIsKept(u, g, m, lo, hi) /\ AllQueued(u) /\ NothingNew(t, u)
               /\ DOMAIN u = 1..(Len(t) - 1) /\ DOMAIN t = 1..Len(t) /\ Len(t) \in Nat
               /\ \A i \in DOMAIN u : u[i] = t[i + 1] /\ i + 1 \in DOMAIN t
<1> DEFINE u == Tail(t)
<1>1. IsQueue(t)
  BY DEF GateIsKept
<1>2. /\ IsQueue(u) /\ DOMAIN u = 1..(Len(t) - 1) /\ DOMAIN t = 1..Len(t) /\ Len(t) \in Nat
      /\ \A i \in 1..(Len(t) - 1) : u[i] = t[i + 1]
  BY <1>1, QueueTail, QueueShape
<1> HIDE DEF u
<1>3. \A i \in DOMAIN u : u[i] = t[i + 1] /\ i + 1 \in DOMAIN t /\ i + 1 # 1
  BY <1>2
<1>4. GateIsKept(u, g, m, lo, hi) /\ AllQueued(u)
  BY <1>2, <1>3 DEF GateIsKept, AllQueued
<1>5. NothingNew(t, u)
  BY <1>3 DEF NothingNew
<1> QED
  BY <1>2, <1>3, <1>4, <1>5 DEF u

LEMMA GateAppend ==
    ASSUME NEW t, NEW g, NEW m, NEW lo, NEW hi, GateIsKept(t, g, m, lo, hi),
           NEW b, IsBuild(b, g), b.pc = "queued", b.read = <<>>
    PROVE  LET u == Append(t, b)
           IN  /\ GateIsKept(u, g, m, lo, hi) /\ NothingNew(t, u)
               /\ DOMAIN u = 1..(Len(t) + 1) /\ DOMAIN t = 1..Len(t) /\ Len(t) \in Nat
               /\ u[Len(t) + 1] = b /\ \A i \in DOMAIN t : u[i] = t[i]
<1> DEFINE u == Append(t, b)
<1>1. IsQueue(t)
  BY DEF GateIsKept
<1>2. /\ IsQueue(u) /\ DOMAIN u = 1..(Len(t) + 1) /\ DOMAIN t = 1..Len(t) /\ Len(t) \in Nat
      /\ u[Len(t) + 1] = b /\ \A i \in 1..Len(t) : u[i] = t[i]
  BY <1>1, QueueAppend, QueueShape
<1> HIDE DEF u
<1>3. \A i \in DOMAIN u : u[i] = b \/ (i \in DOMAIN t /\ u[i] = t[i])
  BY <1>2
<1>4. BuildIsCurrent(b, g, m, lo, hi)
  BY NothingReadYet DEF BuildIsCurrent
<1>5. GateIsKept(u, g, m, lo, hi)
  BY <1>2, <1>3, <1>4 DEF GateIsKept
<1>6. NothingNew(t, u)
  BY <1>3 DEF NothingNew
<1> QED
  BY <1>2, <1>5, <1>6 DEF u

(* The head goes on, and no other.                                         *)
Gone(b, pc, read) == [kind |-> b.kind, key |-> b.key, gen |-> b.gen, pc |-> pc, read |-> read]
HeadGoes(t, pc, read) == [t EXCEPT ![1].pc = pc, ![1].read = read]

LEMMA GateHead ==
    ASSUME NEW t, NEW g, NEW m, NEW lo, NEW hi, GateIsKept(t, g, m, lo, hi), t # <<>>,
           NEW pc \in {"queued", "reading", "running"}, NEW read,
           BuildIsCurrent(Gone(t[1], pc, read), g, m, lo, hi)
    PROVE  LET u == HeadGoes(t, pc, read)
           IN  /\ GateIsKept(u, g, m, lo, hi)
               /\ DOMAIN u = DOMAIN t /\ 1 \in DOMAIN t
               /\ u[1] = Gone(t[1], pc, read)
               /\ \A i \in DOMAIN t : i # 1 => u[i] = t[i]
<1> DEFINE b == t[1]
           c == [kind |-> b.kind, key |-> b.key, gen |-> b.gen, pc |-> pc, read |-> read]
           u == [t EXCEPT ![1].pc = pc, ![1].read = read]
<1>0. c = Gone(t[1], pc, read) /\ u = HeadGoes(t, pc, read)
  BY DEF Gone, HeadGoes
<1>1. IsQueue(t) /\ 1 \in DOMAIN t
  BY QueueHead DEF GateIsKept
<1>2. IsBuild(b, g)
  BY <1>1 DEF GateIsKept
<1>3. [b EXCEPT !.pc = pc, !.read = read] = c
  <2>1. b = [kind |-> b.kind, key |-> b.key, gen |-> b.gen, pc |-> b.pc, read |-> b.read]
    BY <1>2 DEF IsBuild
  <2> DEFINE d == [b EXCEPT !.pc = pc, !.read = read]
  <2> HIDE DEF b
  <2>2. DOMAIN b = {"kind", "key", "gen", "pc", "read"}
    BY ONLY <2>1
  <2>3. /\ DOMAIN d = {"kind", "key", "gen", "pc", "read"} /\ d = [f \in DOMAIN d |-> d[f]]
        /\ d.kind = b.kind /\ d.key = b.key /\ d.gen = b.gen /\ d.pc = pc /\ d.read = read
    BY <2>2
  <2> HIDE DEF d
  <2>4. d = c
    BY <2>3
  <2> QED
    BY <2>4 DEF d
<1>4. u = [t EXCEPT ![1] = c]
  BY <1>1, <1>3
<1>5. DOMAIN u = DOMAIN t /\ u[1] = c /\ (\A i \in DOMAIN t : i # 1 => u[i] = t[i])
  BY <1>1, <1>4
<1>6. IsBuild(c, g)
  <2>1. c.kind = b.kind /\ c.key = b.key /\ c.gen = b.gen /\ c.pc = pc /\ c.read = read
    OBVIOUS
  <2> HIDE DEF b
  <2> QED
    BY <1>2, <2>1 DEF IsBuild
<1>7. IsQueue(u)
  <2>1. Len(t) \in Nat /\ DOMAIN u = 1..Len(t)
    BY <1>1, <1>5, QueueShape
  <2>2. u = [i \in 1..Len(t) |-> u[i]]
    BY <1>4, <2>1
  <2> QED
    BY <2>1, <2>2, QueueMade
<1> HIDE DEF u, b, c
<1>8. GateIsKept(u, g, m, lo, hi)
  <2>1. ASSUME NEW i \in DOMAIN u
        PROVE  /\ IsBuild(u[i], g) /\ BuildIsCurrent(u[i], g, m, lo, hi)
               /\ i # 1 => u[i].pc = "queued"
    <3>1. CASE i = 1
      BY <1>0, <1>5, <1>6, <3>1
    <3>2. CASE i # 1
      BY <1>5, <3>2 DEF GateIsKept
    <3> QED
      BY <3>1, <3>2
  <2> QED
    BY <1>7, <2>1 DEF GateIsKept
<1> QED
  BY <1>0, <1>1, <1>5, <1>8

(* An invalidation: no build of before is of the new generation.           *)
LEMMA GateForgets ==
    ASSUME NEW t, NEW g \in Nat, NEW m, NEW lo, NEW hi, GateIsKept(t, g, m, lo, hi), NEW n
    PROVE  GateIsKept(t, g + 1, n, lo, hi)
<1>1. ASSUME NEW i \in DOMAIN t
      PROVE  IsBuild(t[i], g + 1) /\ BuildIsCurrent(t[i], g + 1, n, lo, hi)
  BY DEF GateIsKept, IsBuild, BuildIsCurrent
<1> QED
  BY <1>1 DEF GateIsKept

(* Builds that have read nothing are current whatever is written.          *)
LEMMA GateOfQueued ==
    ASSUME NEW t, NEW g, NEW m, NEW lo, NEW hi, GateIsKept(t, g, m, lo, hi), AllQueued(t),
           NEW n, NEW low, NEW high
    PROVE  GateIsKept(t, g, n, low, high)
<1>1. ASSUME NEW i \in DOMAIN t PROVE BuildIsCurrent(t[i], g, n, low, high)
  BY NothingReadYet DEF GateIsKept, AllQueued, BuildIsCurrent
<1> QED
  BY <1>1 DEF GateIsKept

-----------------------------------------------------------------------------
(* Values and answers.                                                     *)

LEMMA ValueRead ==
    ASSUME NEW kind, NEW range, NEW read
    PROVE  /\ "read" \in DOMAIN ValueOf(kind, range, read)
           /\ ValueOf(kind, range, read).read = read
<1>1. CASE kind = "full"
  BY <1>1 DEF ValueOf, FullValue, PageOf
<1>2. CASE kind # "full"
  <2>1. ValueOf(kind, range, read) = [read |-> read, period |-> Summary(PeriodOf(range, read))]
    BY <1>2 DEF ValueOf, PeriodValue
  <2> QED
    BY <2>1
<1> QED
  BY <1>1, <1>2

LEMMA HitSince ==
    ASSUME RetainedIsCurrent(retained, mark), NEW kind, NEW key, Hits(kind, key) # {}
    PROVE  ReadSince(HitValue(kind, key).read, mark)
<1> DEFINE whole == {i \in Hits(kind, key) : retained[i].kind = "full"}
           found == IF whole # {} THEN whole ELSE Hits(kind, key)
           hit == CHOOSE i \in found : TRUE
<1>1. hit \in DOMAIN retained
  <2>1. found # {} /\ found \subseteq Hits(kind, key)
    OBVIOUS
  <2> HIDE DEF found
  <2>2. hit \in Hits(kind, key)
    BY <2>1
  <2> QED
    BY <2>2 DEF Hits
<1>2. HitValue(kind, key) = Cut(kind, retained[hit].value)
  BY DEF HitValue
<1> HIDE DEF hit
<1>3. "read" \in DOMAIN retained[hit].value /\ ReadSince(retained[hit].value.read, mark)
  BY <1>1 DEF RetainedIsCurrent, AllSince, IsEntry
<1>4. ASSUME NEW value, "read" \in DOMAIN value PROVE Cut(kind, value).read = value.read
  BY <1>4 DEF Cut
<1> QED
  BY <1>2, <1>3, <1>4

LEMMA AnsweredIsServed ==
    ASSUME NEW q, NEW m, IsPage(q, m), NEW value, ReadSince(value.read, q.floor), NEW u, NEW asks
    PROVE  IsServed(Answered(q, value), m, u, asks)
<1> DEFINE range == [q.key EXCEPT !.range = PreviousRange(q.key.range)]
           a == Answered(q, value)
<1>1. /\ DOMAIN q = {"pc", "kind", "stage", "key", "floor", "flight", "answer", "of", "plan"}
      /\ q.stage \in {"capacity", "full", "period"}
      /\ IsMark(q.floor) /\ q.floor.db <= m.db /\ q.floor.made <= m.made
  BY DEF IsPage
<1>2. /\ DOMAIN a = DOMAIN q /\ a = [f \in DOMAIN a |-> a[f]]
      /\ a.pc \in {"look", "inputs", "done"} /\ a.floor = q.floor /\ a.answer = {value}
      /\ a.stage \in {"capacity", "full", "period"}
  <2> HIDE DEF range
  <2>1. CASE q.kind = "dashboard" /\ q.stage = "full"
    <3>1. a = [q EXCEPT !.pc = "look", !.stage = "period", !.answer = {value},
                        !.of = q.key.range, !.key = range]
      BY <2>1 DEF Answered, range
    <3> HIDE DEF a
    <3> QED
      BY <1>1, <3>1
  <2>2. CASE ~(q.kind = "dashboard" /\ q.stage = "full")
    <3>1. a = [q EXCEPT !.pc = IF q.kind = "reprice" THEN "inputs" ELSE "done",
                        !.answer = {value}, !.of = q.key.range]
      BY <2>2 DEF Answered
    <3> HIDE DEF a
    <3> QED
      BY <1>1, <3>1
  <2> QED
    BY <2>1, <2>2
<1> HIDE DEF a
<1>3. a = [pc |-> a.pc, kind |-> a.kind, stage |-> a.stage, key |-> a.key, floor |-> a.floor,
           flight |-> a.flight, answer |-> a.answer, of |-> a.of, plan |-> a.plan]
  BY <1>1, <1>2
<1>4. IsPage(a, m)
  BY <1>1, <1>2, <1>3 DEF IsPage
<1>5. WaitsForCurrent(a, u)
  BY <1>2 DEF WaitsForCurrent, Waits
<1> QED
  BY <1>4, <1>5 DEF IsServed, a

(* Of a request of a page only the progress changes.                       *)
LEMMA PageGoes ==
    ASSUME NEW q, NEW m, IsPage(q, m), NEW pc, NEW plan, pc # "waiting", NEW u, NEW asks
    PROVE  LET a == [q EXCEPT !.pc = pc, !.plan = plan]
               b == [q EXCEPT !.pc = pc]
           IN  /\ IsServed(a, m, u, asks) /\ IsPage(a, m) /\ a.pc = pc /\ a.plan = plan
               /\ IsServed(b, m, u, asks) /\ IsPage(b, m) /\ b.pc = pc /\ b.plan = q.plan
<1>1. /\ DOMAIN q = {"pc", "kind", "stage", "key", "floor", "flight", "answer", "of", "plan"}
      /\ q.stage \in {"capacity", "full", "period"}
      /\ IsMark(q.floor) /\ q.floor.db <= m.db /\ q.floor.made <= m.made
      /\ \A v \in q.answer : ReadSince(v.read, q.floor)
  BY DEF IsPage
<1>2. ASSUME NEW a, DOMAIN a = DOMAIN q, a = [f \in DOMAIN a |-> a[f]], a.pc = pc,
             a.floor = q.floor, a.answer = q.answer, a.stage = q.stage
      PROVE  IsServed(a, m, u, asks) /\ IsPage(a, m)
  <2>1. a = [pc |-> a.pc, kind |-> a.kind, stage |-> a.stage, key |-> a.key, floor |-> a.floor,
             flight |-> a.flight, answer |-> a.answer, of |-> a.of, plan |-> a.plan]
    BY <1>1, <1>2
  <2>2. IsPage(a, m)
    BY <1>1, <1>2, <2>1 DEF IsPage
  <2>3. WaitsForCurrent(a, u)
    BY <1>2 DEF WaitsForCurrent, Waits
  <2> QED
    BY <2>2, <2>3 DEF IsServed
<1> DEFINE a == [q EXCEPT !.pc = pc, !.plan = plan]
           b == [q EXCEPT !.pc = pc]
<1>3. /\ DOMAIN a = DOMAIN q /\ a = [f \in DOMAIN a |-> a[f]] /\ a.pc = pc
      /\ a.floor = q.floor /\ a.answer = q.answer /\ a.plan = plan /\ a.stage = q.stage
  BY <1>1
<1>4. /\ DOMAIN b = DOMAIN q /\ b = [f \in DOMAIN b |-> b[f]] /\ b.pc = pc
      /\ b.floor = q.floor /\ b.answer = q.answer /\ b.plan = q.plan /\ b.stage = q.stage
  BY <1>1
<1> HIDE DEF a, b
<1>5. IsServed(a, m, u, asks) /\ IsPage(a, m) /\ IsServed(b, m, u, asks) /\ IsPage(b, m)
  BY <1>2, <1>3, <1>4
<1> QED
  BY <1>3, <1>4, <1>5 DEF a, b

(* A request that goes on is of a page.                                    *)
LEMMA PageOnTheWay ==
    ASSUME NEW q, NEW m, NEW t, NEW asks, IsServed(q, m, t, asks), q.pc \notin {"idle", "done"}
    PROVE  IsPage(q, m) /\ WaitsForCurrent(q, t)
<1>1. Idle.pc = "idle"
  BY DEF Idle
<1>2. IsSheet(q, asks) => q.pc = "done"
  <2>1. ASSUME NEW x, NEW y, NEW z, q = [pc |-> "done", kind |-> x, of |-> y, answer |-> z]
        PROVE  q.pc = "done"
    BY <2>1
  <2> QED
    BY <2>1 DEF IsSheet
<1> QED
  BY <1>1, <1>2 DEF IsServed

(* The head goes, and with it the waiting of those who wait for it.        *)
LEMMA ResolveServes ==
    ASSUME CacheInv, tail # <<>>, NEW outcome, Resolve(outcome),
           UNCHANGED <<mark, scene>>,
           \/ outcome = {}
           \/ \E value : /\ outcome = {value}
                         /\ \A r \in Requests :
                               IsPage(request[r], mark) /\ Waits(request[r], tail[1])
                               /\ WaitsForCurrent(request[r], tail) =>
                                  ReadSince(value.read, request[r].floor)
    PROVE  /\ request' = [r \in Requests |-> request'[r]]
           /\ \A r \in Requests : IsServed(request'[r], mark', tail', scene'.asks)
<1>1. /\ IsMark(mark) /\ request = [r \in Requests |-> request[r]] /\ tail' = Tail(tail)
      /\ NothingNew(tail, tail')
  BY GateTail DEF CacheInv, ClocksAgree, Resolve, Released
<1>2. ASSUME NEW r \in Requests PROVE IsServed(request'[r], mark, tail', scene.asks)
  <2>1. IsServed(request[r], mark, tail, scene.asks)
    BY DEF CacheInv
  <2>2. CASE ~Waits(request[r], tail[1])
    <3>1. request'[r] = request[r]
      BY <2>2 DEF Resolve
    <3> QED
      BY <1>1, <2>1, <3>1, ServedLater DEF IsMark
  <2>3. CASE Waits(request[r], tail[1])
    <3>1. IsPage(request[r], mark) /\ WaitsForCurrent(request[r], tail)
      BY <2>1, <2>3, PageOnTheWay DEF Waits
    <3>2. CASE outcome = {}
      <4>1. request'[r] = [request[r] EXCEPT !.pc = "failed"]
        BY <2>3, <3>2 DEF Resolve, Failed
      <4>2. \A plan : IsServed([request[r] EXCEPT !.pc = "failed"], mark, tail', scene.asks)
        BY <3>1, PageGoes
      <4> QED
        BY <4>1, <4>2
    <3>3. ASSUME NEW value, outcome = {value}, ReadSince(value.read, request[r].floor)
          PROVE  IsServed(request'[r], mark, tail', scene.asks)
      <4>1. outcome # {} /\ (CHOOSE v \in outcome : TRUE) = value
        BY <3>3
      <4>2. request'[r] = Answered(request[r], value)
        BY <2>3, <4>1 DEF Resolve
      <4> QED
        BY <3>1, <3>3, <4>2, AnsweredIsServed
    <3> QED
      BY <2>3, <3>1, <3>2, <3>3
  <2> QED
    BY <2>2, <2>3
<1>3. request' = [r \in Requests |-> request'[r]]
  <2>1. request' = [r \in Requests |->
           IF ~Waits(request[r], tail[1]) THEN request[r]
           ELSE IF outcome = {} THEN Failed(request[r])
           ELSE Answered(request[r], CHOOSE v \in outcome : TRUE)]
    BY DEF Resolve
  <2> QED
    BY ONLY <2>1
<1> QED
  BY <1>2, <1>3

(* One request goes on, the others wait as before.                         *)
LEMMA OneServed ==
    ASSUME CacheInv, UNCHANGED <<mark, scene>>, NEW r \in Requests, NEW STATE x,
           request' = [request EXCEPT ![r] = x], IsServed(x, mark, tail', scene.asks),
           NothingNew(tail, tail')
    PROVE  /\ request' = [q \in Requests |-> request'[q]]
           /\ \A q \in Requests : IsServed(request'[q], mark', tail', scene'.asks)
<1>1. IsMark(mark) /\ request = [q \in Requests |-> request[q]]
  BY DEF CacheInv, ClocksAgree
<1>2. request' = [q \in Requests |-> request'[q]]
  BY <1>1
<1>3. ASSUME NEW q \in Requests PROVE IsServed(request'[q], mark, tail', scene.asks)
  <2>1. IsServed(request[q], mark, tail, scene.asks)
    BY DEF CacheInv
  <2>2. CASE q = r
    BY <1>1, <2>2
  <2>3. CASE q # r
    <3>1. request'[q] = request[q]
      BY <1>1, <2>3
    <3> QED
      BY <1>1, <2>1, <3>1, ServedLater DEF IsMark
  <2> QED
    BY <2>2, <2>3
<1> QED
  BY <1>2, <1>3

-----------------------------------------------------------------------------
(* The peak.                                                               *)

LEMMA PeakTail ==
    ASSUME NEW t, NEW e, NEW g, PeakIsAlone(t, e, g),
           NEW u, AllQueued(u), DOMAIN u \subseteq Nat,
           \A i \in DOMAIN u : u[i] = t[i + 1] /\ i + 1 \in DOMAIN t
    PROVE  PeakIsAlone(u, e, g)
<1>1. ASSUME NEW i \in DOMAIN u, u[i].kind = "recompute"
      PROVE  /\ e = <<>>
             /\ \A j \in DOMAIN u : j < i /\ u[j].kind # "recompute" => u[j].gen < g
  <2>1. i + 1 \in DOMAIN t /\ t[i + 1].kind = "recompute" /\ i \in Nat
    BY <1>1
  <2>2. ASSUME NEW j \in DOMAIN u, j < i, u[j].kind # "recompute" PROVE u[j].gen < g
    <3>1. j + 1 \in DOMAIN t /\ u[j] = t[j + 1] /\ j + 1 < i + 1
      BY <2>1, <2>2
    <3> QED
      BY <2>1, <2>2, <3>1 DEF PeakIsAlone
  <2> QED
    BY <2>1, <2>2 DEF PeakIsAlone
<1> QED
  BY <1>1 DEF PeakIsAlone

(* After an invalidation nothing is retained.                              *)
LEMMA PeakForgets ==
    ASSUME NEW t, NEW g \in Nat, \A i \in DOMAIN t : t[i].gen \in Nat /\ t[i].gen <= g
    PROVE  PeakIsAlone(t, <<>>, g + 1)
  BY EmptySeq DEF PeakIsAlone, NoFull

LEMMA NothingRetained ==
    ASSUME NEW m
    PROVE  RetainedIsCurrent(<<>>, m)
  BY QueueEmpty DEF RetainedIsCurrent, AllSince, OneFull

LEMMA QueuedBuild ==
    ASSUME NEW kind, NEW key, NEW gen \in Nat, NEW g \in Nat, gen <= g
    PROVE  LET b == [kind |-> kind, key |-> key, gen |-> gen, pc |-> "queued", read |-> <<>>]
           IN  IsBuild(b, g) /\ b.pc = "queued" /\ b.read = <<>> /\ b.kind = kind /\ b.gen = gen
  BY DEF IsBuild

-----------------------------------------------------------------------------
(* Every step keeps the cache current.                                     *)

LEMMA CacheInit == Init => CacheInv
<1> SUFFICES ASSUME Init PROVE CacheInv
  OBVIOUS
<1>1. ClocksAgree
  BY StoriesAssumption DEF Init, ClocksAgree, IsMark
<1>2. RetainedIsCurrent(retained, mark)
  BY NothingRetained DEF Init
<1>3. GateIsKept(tail, generation, mark, made, db) /\ PeakIsAlone(tail, retained, generation)
  BY QueueEmpty DEF Init, GateIsKept, PeakIsAlone, AllQueued
<1>4. /\ request = [r \in Requests |-> request[r]]
      /\ \A r \in Requests : IsServed(request[r], mark, tail, scene.asks)
  BY DEF Init, IsServed
<1> QED
  BY <1>1, <1>2, <1>3, <1>4 DEF CacheInv

LEMMA CacheArrive ==
    ASSUME CacheInv, UNCHANGED scene, NEW r \in Requests, NEW kind, NEW now, Arrive(r, kind, now)
    PROVE  CacheInv'
<1> DEFINE x == [pc |-> "look", kind |-> kind,
                 stage |-> IF kind = "badge" THEN "capacity" ELSE "full",
                 key |-> [range |-> ResolveRange(scene.length, now), stamp |-> stamp],
                 floor |-> mark, flight |-> {}, answer |-> {}, of |-> {}, plan |-> {}]
<1>1. /\ UNCHANGED <<db, made, stamp, owed, generation, retained, tail, mark>>
      /\ request' = [request EXCEPT ![r] = x]
  BY DEF Arrive, cacheVars
<1>2. IsPage(x, mark)
  BY DEF IsPage, CacheInv, ClocksAgree, IsMark
<1>3. WaitsForCurrent(x, tail')
  BY DEF WaitsForCurrent, Waits
<1> HIDE DEF x
<1>4. /\ request' = [q \in Requests |-> request'[q]]
      /\ \A q \in Requests : IsServed(request'[q], mark', tail', scene'.asks)
  BY <1>1, <1>2, <1>3, OneServed, NothingNewSame DEF IsServed
<1> QED
  BY <1>1, <1>4 DEF CacheInv, ClocksAgree

LEMMA CacheReadDays ==
    ASSUME CacheInv, UNCHANGED scene, NEW r \in Requests, ReadDays(r)
    PROVE  CacheInv'
<1> DEFINE value == CapacityValue(request[r].key.range, db)
<1>1. /\ UNCHANGED <<db, made, stamp, owed, generation, retained, tail, mark>>
      /\ request' = [request EXCEPT ![r] = Answered(request[r], value)]
      /\ request[r].pc = "days"
  BY DEF ReadDays, cacheVars, CacheInv
<1>2. IsPage(request[r], mark)
  BY <1>1, PageOnTheWay DEF CacheInv
<1>3. ReadSince(value.read, request[r].floor)
  <2>1. DOMAIN value.read = {"days"} /\ value.read.days = db
    BY DEF CapacityValue
  <2>2. db \in Int
    BY StoriesAssumption DEF CacheInv, ClocksAgree
  <2> HIDE DEF value
  <2> QED
    BY <1>2, <2>1, <2>2 DEF ReadSince, Since, IsPage, CacheInv, ClocksAgree, IsMark
<1> HIDE DEF value
<1>4. IsServed(Answered(request[r], value), mark, tail', scene.asks)
  BY <1>2, <1>3, AnsweredIsServed
<1>5. /\ request' = [q \in Requests |-> request'[q]]
      /\ \A q \in Requests : IsServed(request'[q], mark', tail', scene'.asks)
  BY <1>1, <1>4, OneServed, NothingNewSame
<1> QED
  BY <1>1, <1>5 DEF CacheInv, ClocksAgree

LEMMA CacheWrite ==
    ASSUME CacheInv, UNCHANGED scene, Write
    PROVE  CacheInv'
<1>1. db' = db + 1 /\ UNCHANGED <<made, generation, retained, tail, mark, request>>
      /\ db < Len(scene.editions)
  BY DEF Write
<1>2. ClocksAgree'
  <2>1. DOMAIN scene.editions = 1..Len(scene.editions) /\ Len(scene.editions) \in Nat
    BY StoriesAssumption DEF CacheInv, ClocksAgree
  <2>2. db + 1 \in DOMAIN scene.editions /\ made \in 1..(db + 1) /\ mark.db <= db + 1
    BY <1>1, <2>1 DEF CacheInv, ClocksAgree, IsMark
  <2> QED
    BY <1>1, <2>2 DEF CacheInv, ClocksAgree
<1>3. GateIsKept(tail, generation, mark, made, db + 1)
  <2>1. made \in Int /\ db \in Int
    BY StoriesAssumption DEF CacheInv, ClocksAgree
  <2> QED
    BY <2>1 DEF CacheInv, GateIsKept, BuildIsCurrent
<1> QED
  BY <1>1, <1>2, <1>3 DEF CacheInv

LEMMA CacheInvalidate ==
    ASSUME CacheInv, UNCHANGED scene, Invalidate
    PROVE  CacheInv'
<1>1. /\ generation' = generation + 1 /\ retained' = <<>> /\ mark' = [db |-> db, made |-> made]
      /\ UNCHANGED <<db, made, tail, request>>
  BY DEF Invalidate, Forget
<1>2. ClocksAgree' /\ mark.db <= mark'.db /\ mark.made <= mark'.made /\ generation \in Nat
  BY <1>1, StoriesAssumption DEF CacheInv, ClocksAgree, IsMark
<1>3. GateIsKept(tail, generation + 1, mark', made, db)
  BY <1>2, GateForgets DEF CacheInv
<1>4. PeakIsAlone(tail, <<>>, generation + 1)
  BY <1>2, PeakForgets DEF CacheInv, GateIsKept, IsBuild
<1>5. RetainedIsCurrent(<<>>, mark')
  BY NothingRetained
<1>6. /\ request' = [q \in Requests |-> request'[q]]
      /\ \A q \in Requests : IsServed(request'[q], mark', tail', scene'.asks)
  BY <1>1, <1>2, AllServedLater, NothingNewSame DEF ClocksAgree
<1> QED
  BY <1>1, <1>2, <1>3, <1>4, <1>5, <1>6 DEF CacheInv

LEMMA CacheStartRecompute ==
    ASSUME CacheInv, UNCHANGED scene, StartRecompute
    PROVE  CacheInv'
<1> DEFINE b == [kind |-> "recompute", key |-> {}, gen |-> 0, pc |-> "queued", read |-> <<>>]
<1>1. /\ generation' = generation + 1 /\ retained' = <<>> /\ mark' = [db |-> db, made |-> made]
      /\ tail' = Append(tail, b)
      /\ UNCHANGED <<db, made, request>>
  BY DEF StartRecompute, Forget
<1>2. ClocksAgree' /\ mark.db <= mark'.db /\ mark.made <= mark'.made /\ generation \in Nat
  BY <1>1, StoriesAssumption DEF CacheInv, ClocksAgree, IsMark
<1>3. IsBuild(b, generation + 1) /\ b.pc = "queued" /\ b.read = <<>> /\ b.gen = 0
  BY <1>2, QueuedBuild
<1> HIDE DEF b
<1>4. GateIsKept(tail, generation + 1, mark', made, db)
  BY <1>2, GateForgets DEF CacheInv
<1>5. /\ GateIsKept(tail', generation + 1, mark', made, db) /\ NothingNew(tail, tail')
      /\ DOMAIN tail' = 1..(Len(tail) + 1) /\ DOMAIN tail = 1..Len(tail) /\ Len(tail) \in Nat
      /\ tail'[Len(tail) + 1] = b /\ \A i \in DOMAIN tail : tail'[i] = tail[i]
  BY <1>1, <1>3, <1>4, GateAppend
<1>6. PeakIsAlone(tail', <<>>, generation + 1)
  <2>1. \A i \in DOMAIN tail : tail[i].gen \in Nat /\ tail[i].gen <= generation
    BY DEF CacheInv, GateIsKept, IsBuild
  <2>2. \A i \in DOMAIN tail' : i \in DOMAIN tail \/ i = Len(tail) + 1
    BY <1>5
  <2>3. \A i \in DOMAIN tail' : tail'[i].gen \in Nat /\ tail'[i].gen <= generation
    BY <1>2, <1>3, <1>5, <2>1, <2>2
  <2> QED
    BY <1>2, <2>3, PeakForgets
<1>7. RetainedIsCurrent(<<>>, mark')
  BY NothingRetained
<1>8. /\ request' = [q \in Requests |-> request'[q]]
      /\ \A q \in Requests : IsServed(request'[q], mark', tail', scene'.asks)
  BY <1>1, <1>2, <1>5, AllServedLater DEF ClocksAgree
<1> QED
  BY <1>1, <1>2, <1>5, <1>6, <1>7, <1>8 DEF CacheInv

LEMMA CacheEndRecompute ==
    ASSUME CacheInv, UNCHANGED scene, FinishRecompute \/ RecomputeFails
    PROVE  CacheInv'
<1> DEFINE n == tail[1].read.orders
<1>1. /\ tail # <<>> /\ tail[1].kind = "recompute" /\ tail[1].pc = "running"
      /\ made' \in {made, n} /\ mark' \in {mark, [db |-> db, made |-> made']}
      /\ tail' = Tail(tail)
      /\ UNCHANGED <<db, generation, retained, request>>
  BY DEF FinishRecompute, RecomputeFails, Busy, Head1, Released
<1>2. 1 \in DOMAIN tail
  BY <1>1, QueueHead DEF CacheInv, GateIsKept
<1>3. n \in made..db /\ made \in 1..db /\ db \in Nat
  BY <1>1, <1>2, StoriesAssumption DEF CacheInv, ClocksAgree, GateIsKept, BuildIsCurrent
<1> HIDE DEF n
<1>4. made' \in made..db
  BY <1>1, <1>3
<1>5. ClocksAgree' /\ mark.db <= mark'.db /\ mark.made <= mark'.made /\ generation \in Nat
  BY <1>1, <1>3, <1>4, StoriesAssumption DEF CacheInv, ClocksAgree, IsMark
<1>6. retained = <<>>
  BY <1>1, <1>2 DEF CacheInv, PeakIsAlone
<1>7. /\ GateIsKept(tail', generation, mark, made, db) /\ AllQueued(tail')
      /\ NothingNew(tail, tail') /\ DOMAIN tail' = 1..(Len(tail) - 1) /\ Len(tail) \in Nat
      /\ \A i \in DOMAIN tail' : tail'[i] = tail[i + 1] /\ i + 1 \in DOMAIN tail
  BY <1>1, GateTail DEF CacheInv
<1>8. GateIsKept(tail', generation, mark', made', db)
  BY <1>7, GateOfQueued
<1>9. PeakIsAlone(tail', retained, generation)
  <2>1. DOMAIN tail' \subseteq Nat
    BY <1>7
  <2> QED
    BY <1>7, <2>1, PeakTail DEF CacheInv
<1>10. RetainedIsCurrent(retained, mark')
  BY <1>6, NothingRetained
<1>11. /\ request' = [q \in Requests |-> request'[q]]
       /\ \A q \in Requests : IsServed(request'[q], mark', tail', scene'.asks)
  BY <1>1, <1>5, <1>7, AllServedLater DEF ClocksAgree
<1> QED
  BY <1>1, <1>5, <1>8, <1>9, <1>10, <1>11 DEF CacheInv

LEMMA CacheRunRecompute ==
    ASSUME CacheInv, UNCHANGED scene, RunRecompute
    PROVE  CacheInv'
<1> DEFINE c == Gone(tail[1], "running", [orders |-> db])
<1>1. /\ tail # <<>> /\ tail[1].kind = "recompute"
      /\ tail' = HeadGoes(tail, "running", [orders |-> db])
      /\ UNCHANGED <<db, made, generation, mark, retained, request>>
  BY DEF RunRecompute, Busy, Head1, Go, Rest, HeadGoes
<1>2. BuildIsCurrent(c, generation, mark, made, db)
  <2>1. db \in made..db
    BY StoriesAssumption DEF CacheInv, ClocksAgree
  <2> QED
    BY <1>1, <2>1 DEF BuildIsCurrent, Gone
<1>3. /\ GateIsKept(tail', generation, mark, made, db)
      /\ DOMAIN tail' = DOMAIN tail /\ 1 \in DOMAIN tail /\ tail'[1] = c
      /\ \A i \in DOMAIN tail : i # 1 => tail'[i] = tail[i]
  <2>1. GateIsKept(tail, generation, mark, made, db)
    BY DEF CacheInv
  <2>2. "running" \in {"queued", "reading", "running"}
    OBVIOUS
  <2> QED
    BY <1>1, <1>2, <2>1, <2>2, GateHead
<1>4. /\ retained = <<>>
      /\ \A i \in DOMAIN tail' : tail'[i].kind = tail[i].kind /\ tail'[i].gen = tail[i].gen
  BY <1>1, <1>3 DEF CacheInv, PeakIsAlone, Gone
<1> HIDE DEF c
<1>5. PeakIsAlone(tail', retained, generation)
  <2>1. NoFull(<<>>)
    BY EmptySeq DEF NoFull
  <2> QED
    BY <1>3, <1>4, <2>1 DEF CacheInv, PeakIsAlone
<1>6. NothingNew(tail, tail')
  <2>1. tail'[1].kind = "recompute"
    BY <1>1, <1>3, <1>4
  <2> QED
    BY <1>3, <2>1 DEF NothingNew
<1>7. /\ request' = [q \in Requests |-> request'[q]]
      /\ \A q \in Requests : IsServed(request'[q], mark', tail', scene'.asks)
  <2>1. IsMark(mark') /\ mark.db <= mark'.db /\ mark.made <= mark'.made
    BY <1>1 DEF CacheInv, ClocksAgree, IsMark
  <2> QED
    BY <1>1, <1>6, <2>1, AllServedLater
<1> QED
  BY <1>1, <1>3, <1>5, <1>7 DEF CacheInv, ClocksAgree

LEMMA CacheMinute ==
    ASSUME CacheInv, UNCHANGED scene, Minute
    PROVE  CacheInv'
<1>1. /\ retained' = [i \in DOMAIN retained |-> [retained[i] EXCEPT !.fresh = FALSE]]
      /\ UNCHANGED <<db, made, stamp, owed, generation, tail, mark, request>>
  BY DEF Minute
<1>2. Len(retained) \in Nat /\ DOMAIN retained = 1..Len(retained)
  BY QueueShape DEF CacheInv, RetainedIsCurrent
<1>3. IsQueue(retained')
  <2>1. DOMAIN retained' = 1..Len(retained)
    BY <1>1, <1>2
  <2>2. retained' = [i \in 1..Len(retained) |-> retained'[i]]
    BY <1>1, <1>2
  <2> QED
    BY <1>2, <2>1, <2>2, QueueMade
<1>4. ASSUME NEW i \in DOMAIN retained
      PROVE  /\ IsEntry(retained'[i]) /\ retained'[i].kind = retained[i].kind
             /\ retained'[i].value = retained[i].value
  <2> DEFINE e == retained[i]
             d == [e EXCEPT !.fresh = FALSE]
  <2>1. IsEntry(e)
    BY DEF CacheInv, RetainedIsCurrent, AllSince
  <2> HIDE DEF e
  <2>2. DOMAIN e = {"kind", "key", "fresh", "value", "weight"}
    BY <2>1 DEF IsEntry
  <2>3. /\ DOMAIN d = {"kind", "key", "fresh", "value", "weight"} /\ d = [f \in DOMAIN d |-> d[f]]
        /\ d.kind = e.kind /\ d.value = e.value
    BY <2>2
  <2> HIDE DEF d
  <2>4. d = [kind |-> d.kind, key |-> d.key, fresh |-> d.fresh, value |-> d.value,
             weight |-> d.weight]
    BY <2>3
  <2>5. IsEntry(d)
    BY <2>1, <2>3, <2>4 DEF IsEntry
  <2>6. retained'[i] = d
    BY <1>1 DEF d, e
  <2> QED
    BY <2>3, <2>5, <2>6 DEF e
<1>5. DOMAIN retained' = DOMAIN retained
  BY <1>1
<1>6. RetainedIsCurrent(retained', mark)
  <2>1. AllSince(retained', mark)
    BY <1>4, <1>5 DEF CacheInv, RetainedIsCurrent, AllSince
  <2>2. OneFull(retained')
    BY <1>4, <1>5 DEF CacheInv, RetainedIsCurrent, OneFull
  <2> QED
    BY <1>3, <2>1, <2>2 DEF RetainedIsCurrent
<1>7. PeakIsAlone(tail, retained', generation)
  <2>1. NoFull(retained) => NoFull(retained')
    BY <1>4, <1>5 DEF NoFull
  <2>2. retained = <<>> => retained' = <<>>
    <3>1. ASSUME retained = <<>> PROVE retained' = <<>>
      <4>1. retained' = [i \in {} |-> retained'[i]] /\ <<>> = [i \in {} |-> retained'[i]]
        BY <1>1, <3>1, EmptySeq
      <4> QED
        BY <4>1
    <3> QED
      BY <3>1
  <2> QED
    BY <2>1, <2>2 DEF CacheInv, PeakIsAlone
<1> QED
  BY <1>1, <1>6, <1>7 DEF CacheInv, ClocksAgree

(* What the gate lets in at its head.                                      *)
LEMMA AtTheHead ==
    ASSUME CacheInv, NEW pc, Busy({"full", "period"}, pc)
    PROVE  /\ tail # <<>> /\ 1 \in DOMAIN tail
           /\ tail[1].kind \in {"full", "period"} /\ tail[1].kind # "recompute" /\ tail[1].pc = pc
           /\ IsBuild(tail[1], generation)
           /\ BuildIsCurrent(tail[1], generation, mark, made, db)
           /\ pc # "queued" => NoFull(retained)
<1>1. tail # <<>> /\ tail[1].kind \in {"full", "period"} /\ tail[1].pc = pc
  BY DEF Busy, Head1
<1>2. 1 \in DOMAIN tail
  BY <1>1, QueueHead DEF CacheInv, GateIsKept
<1>3. pc # "queued" => NoFull(retained)
  BY <1>1, <1>2 DEF CacheInv, PeakIsAlone, AllQueued
<1> QED
  BY <1>1, <1>2, <1>3 DEF CacheInv, GateIsKept

(* The head is done: the gate without it.                                  *)
LEMMA HeadLeaves ==
    ASSUME CacheInv, tail # <<>>, tail' = Tail(tail)
    PROVE  /\ GateIsKept(tail', generation, mark, made, db)
           /\ PeakIsAlone(tail', retained, generation)
           /\ AllQueued(tail')
<1>1. /\ GateIsKept(tail', generation, mark, made, db) /\ AllQueued(tail')
      /\ DOMAIN tail' = 1..(Len(tail) - 1) /\ Len(tail) \in Nat
      /\ \A i \in DOMAIN tail' : tail'[i] = tail[i + 1] /\ i + 1 \in DOMAIN tail
  BY GateTail DEF CacheInv
<1>2. DOMAIN tail' \subseteq Nat
  BY <1>1
<1> QED
  BY <1>1, <1>2, PeakTail DEF CacheInv

LEMMA CacheFails ==
    ASSUME CacheInv, UNCHANGED scene, Refuse \/ LoadFails
    PROVE  CacheInv'
<1>1. /\ Busy({"full", "period"}, "reading") /\ Resolve({})
      /\ UNCHANGED <<db, made, stamp, owed, generation, retained, mark>>
  BY DEF Refuse, LoadFails, Rest
<1>2. tail # <<>> /\ tail' = Tail(tail)
  BY <1>1, AtTheHead DEF Resolve, Released
<1>3. GateIsKept(tail', generation, mark, made, db) /\ PeakIsAlone(tail', retained, generation)
  BY <1>2, HeadLeaves
<1>4. /\ request' = [q \in Requests |-> request'[q]]
      /\ \A q \in Requests : IsServed(request'[q], mark', tail', scene'.asks)
  BY <1>1, <1>2, ResolveServes
<1> QED
  BY <1>1, <1>3, <1>4 DEF CacheInv, ClocksAgree

LEMMA CacheFinish ==
    ASSUME CacheInv, UNCHANGED scene, Finish
    PROVE  CacheInv'
<1> DEFINE kind == tail[1].kind
           value == ValueOf(kind, tail[1].key.range, tail[1].read)
<1>1. /\ Busy({"full", "period"}, "reading") /\ Resolve({value})
      /\ retained' = IF tail[1].gen = generation THEN Stored(kind, tail[1].key, value)
                     ELSE retained
      /\ UNCHANGED <<db, made, stamp, owed, generation, mark>>
  BY DEF Finish, Deliver, Rest, Head1, Keeps
<1>2. /\ tail # <<>> /\ tail' = Tail(tail) /\ 1 \in DOMAIN tail
      /\ kind \in {"full", "period"} /\ kind # "recompute"
      /\ BuildIsCurrent(tail[1], generation, mark, made, db) /\ NoFull(retained)
  BY <1>1, AtTheHead DEF Resolve, Released
<1>3. "read" \in DOMAIN value /\ value.read = tail[1].read
  BY ValueRead
<1> HIDE DEF value
<1>4. GateIsKept(tail', generation, mark, made, db) /\ AllQueued(tail')
      /\ PeakIsAlone(tail', retained, generation)
  BY <1>2, HeadLeaves
<1>5. /\ request' = [q \in Requests |-> request'[q]]
      /\ \A q \in Requests : IsServed(request'[q], mark', tail', scene'.asks)
  <2>1. ASSUME NEW r \in Requests, Waits(request[r], tail[1]),
               WaitsForCurrent(request[r], tail)
        PROVE  ReadSince(value.read, request[r].floor)
    BY <1>2, <1>3, <2>1 DEF WaitsForCurrent
  <2> QED
    BY <1>1, <1>2, <2>1, ResolveServes
<1>6. RetainedIsCurrent(retained, mark)
  BY DEF CacheInv
<1>7. RetainedIsCurrent(retained', mark) /\ PeakIsAlone(tail', retained', generation)
  <2>1. CASE tail[1].gen # generation
    BY <1>1, <1>4, <1>6, <2>1
  <2>2. CASE tail[1].gen = generation
    <3>1. ReadSince(value.read, mark)
      BY <1>2, <1>3, <2>2 DEF BuildIsCurrent
    <3>2. RetainedIsCurrent(Stored(kind, tail[1].key, value), mark)
      BY <1>2, <1>3, <1>6, <3>1, StoredSince
    <3>3. ASSUME NEW i \in DOMAIN tail' PROVE tail'[i].kind # "recompute"
      <4>1. /\ tail'[i] = tail[i + 1] /\ i + 1 \in DOMAIN tail /\ 1 < i + 1
        <5>1. DOMAIN tail' = 1..(Len(tail) - 1) /\ Len(tail) \in Nat
              /\ tail'[i] = tail[i + 1] /\ i + 1 \in DOMAIN tail
          BY <1>2, GateTail DEF CacheInv
        <5> QED
          BY <5>1
      <4>2. generation \in Nat /\ ~(tail[1].gen < generation)
        BY <2>2 DEF CacheInv, ClocksAgree
      <4> QED
        BY <1>2, <4>1, <4>2 DEF CacheInv, PeakIsAlone
    <3> QED
      BY <1>1, <1>4, <2>2, <3>2, <3>3 DEF PeakIsAlone
  <2> QED
    BY <2>1, <2>2
<1> QED
  BY <1>1, <1>4, <1>5, <1>7 DEF CacheInv, ClocksAgree

LEMMA CacheAdmit ==
    ASSUME CacheInv, UNCHANGED scene, Admit
    PROVE  CacheInv'
<1> DEFINE kind == tail[1].kind
           key == tail[1].key
           hit == Hits(kind, key) # {}
           value == HitValue(kind, key)
           c == Gone(tail[1], "reading", <<>>)
<1>1. /\ Busy({"full", "period"}, "queued")
      /\ UNCHANGED <<db, made, stamp, owed, generation, mark>>
      /\ hit => Resolve({value}) /\ UNCHANGED retained
      /\ ~hit => /\ retained' = Dropped(retained) /\ UNCHANGED request
                 /\ tail' = HeadGoes(tail, "reading", <<>>)
  BY DEF Admit, Rest, Head1, Go, HeadGoes
<1>2. /\ tail # <<>> /\ 1 \in DOMAIN tail /\ kind # "recompute"
      /\ BuildIsCurrent(tail[1], generation, mark, made, db)
  BY <1>1, AtTheHead
<1>3. /\ IsMark(mark) /\ RetainedIsCurrent(retained, mark)
      /\ GateIsKept(tail, generation, mark, made, db)
  BY DEF CacheInv, ClocksAgree
<1>4. CASE hit
  <2>1. ReadSince(value.read, mark)
    BY <1>3, <1>4, HitSince
  <2> HIDE DEF value
  <2>2. tail' = Tail(tail)
    BY <1>1, <1>4 DEF Resolve, Released
  <2>3. GateIsKept(tail', generation, mark, made, db) /\ PeakIsAlone(tail', retained, generation)
    BY <1>2, <2>2, HeadLeaves
  <2>4. /\ request' = [q \in Requests |-> request'[q]]
        /\ \A q \in Requests : IsServed(request'[q], mark', tail', scene'.asks)
    <3>1. ASSUME NEW r \in Requests, IsPage(request[r], mark)
          PROVE  ReadSince(value.read, request[r].floor)
      BY <1>3, <2>1, <3>1, SinceEarlier DEF IsPage
    <3> QED
      BY <1>1, <1>2, <1>4, <3>1, ResolveServes
  <2> QED
    BY <1>1, <1>4, <2>3, <2>4 DEF CacheInv, ClocksAgree
<1>5. CASE ~hit
  <2>1. BuildIsCurrent(c, generation, mark, made, db)
    BY <1>2, NothingReadYet DEF BuildIsCurrent, Gone
  <2>2. /\ GateIsKept(tail', generation, mark, made, db)
        /\ DOMAIN tail' = DOMAIN tail /\ tail'[1] = c
        /\ \A i \in DOMAIN tail : i # 1 => tail'[i] = tail[i]
    <3>1. "reading" \in {"queued", "reading", "running"}
      OBVIOUS
    <3> QED
      BY <1>1, <1>2, <1>3, <1>5, <2>1, <3>1, GateHead
  <2>3. \A i \in DOMAIN tail' : tail'[i].kind = tail[i].kind /\ tail'[i].gen = tail[i].gen
    BY <2>2 DEF Gone
  <2>4. RetainedIsCurrent(retained', mark) /\ NoFull(retained')
    BY <1>1, <1>3, <1>5, DroppedSince DEF RetainedIsCurrent
  <2>5. retained = <<>> => retained' = <<>>
    <3>1. ASSUME retained = <<>> PROVE retained' = <<>>
      <4>1. Dropped(retained) = [k \in 1..0 |-> Dropped(retained)[k]]
        <5> DEFINE kept == {i \in DOMAIN retained : retained[i].kind # "full"}
        <5>1. kept = {}
          BY <3>1, EmptySeq
        <5>2. Cardinality(kept) = 0
          BY <5>1, FS_EmptySet
        <5> HIDE DEF kept
        <5>3. Picked(retained, kept) = [k \in 1..0 |-> Picked(retained, kept)[k]]
          BY <5>2 DEF Picked
        <5>4. Dropped(retained) = Picked(retained, kept)
          BY DEF Dropped, kept
        <5> QED
          BY <5>3, <5>4
      <4>2. retained' = [k \in 1..0 |-> retained'[k]] /\ 1..0 = {}
        BY <1>1, <1>5, <4>1
      <4>3. retained' = [k \in {} |-> retained'[k]] /\ <<>> = [k \in {} |-> retained'[k]]
        BY <4>2, EmptySeq
      <4> QED
        BY <4>3
    <3> QED
      BY <3>1
  <2>6. PeakIsAlone(tail', retained', generation)
    BY <2>2, <2>3, <2>4, <2>5 DEF CacheInv, PeakIsAlone
  <2>7. NothingNew(tail, tail')
    <3>1. tail'[1].read = <<>>
      BY <2>2 DEF Gone
    <3> QED
      BY <2>2, <3>1 DEF NothingNew
  <2>8. /\ request' = [q \in Requests |-> request'[q]]
        /\ \A q \in Requests : IsServed(request'[q], mark', tail', scene'.asks)
    <3>1. IsMark(mark') /\ mark.db <= mark'.db /\ mark.made <= mark'.made
      BY <1>1, <1>3 DEF IsMark
    <3> QED
      BY <1>1, <1>5, <2>7, <3>1, AllServedLater
  <2> QED
    BY <1>1, <2>2, <2>4, <2>6, <2>8 DEF CacheInv, ClocksAgree
<1> QED
  BY <1>4, <1>5

LEMMA CacheLoad ==
    ASSUME CacheInv, UNCHANGED scene, NEW part \in Parts("full"), Load(part)
    PROVE  CacheInv'
<1> DEFINE old == tail[1].read
           read == [of \in DOMAIN old \cup {part} |->
                      IF of # part THEN old[of] ELSE IF part = "cohort" THEN made ELSE db]
           c == Gone(tail[1], "reading", read)
<1>1. /\ Busy({"full", "period"}, "reading") /\ part \notin DOMAIN old
      /\ tail' = HeadGoes(tail, "reading", read)
      /\ UNCHANGED <<db, made, stamp, owed, generation, mark, retained, request>>
  BY DEF Load, Rest, Head1, Go, HeadGoes
<1>2. /\ tail # <<>> /\ 1 \in DOMAIN tail /\ tail[1].kind # "recompute"
      /\ tail[1].pc = "reading" /\ BuildIsCurrent(tail[1], generation, mark, made, db)
      /\ NoFull(retained)
  BY <1>1, AtTheHead
<1>3. /\ IsMark(mark) /\ mark.db <= db /\ mark.made <= made /\ db \in Int /\ made \in Int
      /\ GateIsKept(tail, generation, mark, made, db)
  BY StoriesAssumption DEF CacheInv, ClocksAgree
<1>4. ASSUME NEW m, IsMark(m), m.db <= mark.db, m.made <= mark.made, ReadSince(old, m)
      PROVE  ReadSince(read, m)
  <2>1. DOMAIN read = DOMAIN old \cup {part}
    OBVIOUS
  <2>2. read[part] = IF part = "cohort" THEN made ELSE db
    OBVIOUS
  <2>3. \A of \in DOMAIN old : read[of] = old[of]
    BY <1>1
  <2> HIDE DEF read
  <2>4. read[part] \in Int /\ read[part] >= Since(m, part)
    BY <1>3, <1>4, <2>2 DEF Since, IsMark
  <2> QED
    BY <1>4, <2>1, <2>3, <2>4 DEF ReadSince
<1> HIDE DEF read
<1>5. BuildIsCurrent(c, generation, mark, made, db)
  <2>1. c.kind = tail[1].kind /\ c.gen = tail[1].gen /\ c.pc = "reading" /\ c.read = read
    BY DEF Gone
  <2>2. tail[1].gen = generation => ReadSince(read, mark)
    BY <1>2, <1>3, <1>4 DEF BuildIsCurrent, IsMark
  <2> QED
    BY <1>2, <2>1, <2>2 DEF BuildIsCurrent
<1>6. /\ GateIsKept(tail', generation, mark, made, db)
      /\ DOMAIN tail' = DOMAIN tail /\ tail'[1] = c
      /\ \A i \in DOMAIN tail : i # 1 => tail'[i] = tail[i]
  <2>1. "reading" \in {"queued", "reading", "running"}
    OBVIOUS
  <2> QED
    BY <1>1, <1>2, <1>3, <1>5, <2>1, GateHead
<1>7. /\ \A i \in DOMAIN tail' : tail'[i].kind = tail[i].kind /\ tail'[i].gen = tail[i].gen
      /\ c.kind = tail[1].kind /\ c.key = tail[1].key /\ c.gen = tail[1].gen /\ c.read = read
  BY <1>6 DEF Gone
<1> HIDE DEF c
<1>8. PeakIsAlone(tail', retained, generation)
  BY <1>2, <1>6, <1>7 DEF CacheInv, PeakIsAlone
<1>9. ASSUME NEW r \in Requests PROVE IsServed(request[r], mark, tail', scene.asks)
  <2> DEFINE q == request[r]
  <2>1. IsServed(q, mark, tail, scene.asks)
    BY DEF CacheInv
  <2>2. CASE ~(IsPage(q, mark) /\ WaitsForCurrent(q, tail))
    BY <2>1, <2>2 DEF IsServed
  <2>3. CASE IsPage(q, mark) /\ WaitsForCurrent(q, tail)
    <3>1. ASSUME NEW i \in DOMAIN tail', tail'[i].kind # "recompute", Waits(q, tail'[i])
          PROVE  ReadSince(tail'[i].read, q.floor)
      <4>1. CASE i # 1
        BY <1>6, <2>3, <3>1, <4>1 DEF WaitsForCurrent
      <4>2. CASE i = 1
        <5>1. Waits(q, tail[1])
          BY <1>6, <1>7, <3>1, <4>2 DEF Waits
        <5>2. ReadSince(old, q.floor)
          BY <1>2, <2>3, <5>1 DEF WaitsForCurrent
        <5>3. ReadSince(read, q.floor)
          BY <1>4, <2>3, <5>2 DEF IsPage
        <5> QED
          BY <1>6, <1>7, <4>2, <5>3
      <4> QED
        BY <4>1, <4>2
    <3>2. WaitsForCurrent(q, tail')
      BY <3>1 DEF WaitsForCurrent
    <3> QED
      BY <2>3, <3>2 DEF IsServed
  <2> QED
    BY <2>2, <2>3
<1> QED
  BY <1>1, <1>6, <1>8, <1>9 DEF CacheInv, ClocksAgree

LEMMA CacheLook ==
    ASSUME CacheInv, UNCHANGED scene, NEW r \in Requests, Look(r)
    PROVE  CacheInv'
<1> DEFINE q == request[r]
           hit == Hits(q.stage, q.key) # {}
           value == HitValue(q.stage, q.key)
           b == [kind |-> q.stage, key |-> q.key, gen |-> generation, pc |-> "queued",
                 read |-> <<>>]
           running == {i \in DOMAIN tail : tail[i].kind = q.stage /\ tail[i].key = q.key
                                           /\ tail[i].gen = generation}
           asked == [q EXCEPT !.pc = "waiting", !.flight = Flight(q)]
<1>1. /\ UNCHANGED <<db, made, stamp, owed, generation, retained, mark>>
      /\ q.pc = "look"
      /\ hit => request' = [request EXCEPT ![r] = Answered(q, value)] /\ UNCHANGED tail
      /\ ~hit /\ q.stage = "capacity" =>
            request' = [request EXCEPT ![r].pc = "days"] /\ UNCHANGED tail
      /\ ~hit /\ q.stage # "capacity" =>
            /\ request' = [request EXCEPT ![r].pc = "waiting", ![r].flight = Flight(q)]
            /\ tail' = IF running # {} THEN tail ELSE Append(tail, b)
  BY DEF Look
<1>2. /\ IsMark(mark) /\ RetainedIsCurrent(retained, mark)
      /\ GateIsKept(tail, generation, mark, made, db) /\ PeakIsAlone(tail, retained, generation)
      /\ request = [x \in Requests |-> request[x]] /\ generation \in Nat
  BY DEF CacheInv, ClocksAgree
<1>3. IsPage(q, mark)
  BY <1>1, PageOnTheWay DEF CacheInv
<1>4. CASE hit
  <2>1. ReadSince(value.read, q.floor)
    BY <1>2, <1>3, <1>4, HitSince, SinceEarlier DEF IsPage
  <2> HIDE DEF value
  <2>2. IsServed(Answered(q, value), mark, tail', scene.asks)
    BY <1>3, <2>1, AnsweredIsServed
  <2>3. /\ request' = [x \in Requests |-> request'[x]]
        /\ \A x \in Requests : IsServed(request'[x], mark', tail', scene'.asks)
    BY <1>1, <1>4, <2>2, OneServed, NothingNewSame
  <2> QED
    BY <1>1, <1>4, <2>3 DEF CacheInv, ClocksAgree
<1>5. CASE ~hit /\ q.stage = "capacity"
  <2> DEFINE a == [q EXCEPT !.pc = "days"]
  <2>1. \A plan : IsServed(a, mark, tail', scene.asks)
    BY <1>3, PageGoes
  <2>2. request' = [request EXCEPT ![r] = a]
    BY <1>1, <1>2, <1>5
  <2> HIDE DEF a
  <2>3. /\ request' = [x \in Requests |-> request'[x]]
        /\ \A x \in Requests : IsServed(request'[x], mark', tail', scene'.asks)
    BY <1>1, <1>5, <2>1, <2>2, OneServed, NothingNewSame
  <2> QED
    BY <1>1, <1>5, <2>3 DEF CacheInv, ClocksAgree
<1>6. CASE ~hit /\ q.stage # "capacity"
  <2>1. IsBuild(b, generation) /\ b.pc = "queued" /\ b.read = <<>> /\ b.kind = q.stage
    BY <1>2, QueuedBuild
  <2>2. b.kind # "recompute"
    BY <1>3, <2>1 DEF IsPage
  <2> HIDE DEF b
  <2>3. /\ GateIsKept(tail', generation, mark, made, db) /\ NothingNew(tail, tail')
        /\ PeakIsAlone(tail', retained, generation)
    <3>1. CASE running # {}
      BY <1>1, <1>2, <1>6, <3>1, NothingNewSame
    <3>2. CASE running = {}
      <4>1. tail' = Append(tail, b)
        BY <1>1, <1>6, <3>2
      <4>2. /\ GateIsKept(tail', generation, mark, made, db) /\ NothingNew(tail, tail')
            /\ DOMAIN tail' = 1..(Len(tail) + 1) /\ DOMAIN tail = 1..Len(tail)
            /\ Len(tail) \in Nat
            /\ tail'[Len(tail) + 1] = b /\ \A i \in DOMAIN tail : tail'[i] = tail[i]
        BY <1>2, <2>1, <4>1, GateAppend
      <4>3. ASSUME NEW i \in DOMAIN tail', tail'[i].kind = "recompute" \/ tail'[i].pc # "queued"
            PROVE  i \in DOMAIN tail /\ tail'[i] = tail[i] /\ i < Len(tail) + 1
        BY <2>1, <2>2, <4>2, <4>3
      <4>4. ASSUME NEW i \in DOMAIN tail', tail'[i].kind = "recompute",
                   NEW j \in DOMAIN tail', j < i
            PROVE  j \in DOMAIN tail /\ tail'[j] = tail[j]
        BY <4>2, <4>3, <4>4
      <4> QED
        BY <1>2, <4>2, <4>3, <4>4 DEF PeakIsAlone, AllQueued
    <3> QED
      BY <3>1, <3>2
  <2>4. /\ asked.pc = "waiting" /\ asked.flight = Flight(q) /\ asked.floor = q.floor
        /\ IsPage(asked, mark)
    <3>1. /\ DOMAIN q = {"pc", "kind", "stage", "key", "floor", "flight", "answer", "of", "plan"}
          /\ q.stage \in {"capacity", "full", "period"}
          /\ IsMark(q.floor) /\ q.floor.db <= mark.db /\ q.floor.made <= mark.made
          /\ \A v \in q.answer : ReadSince(v.read, q.floor)
      BY <1>3 DEF IsPage
    <3> HIDE DEF q
    <3>2. /\ DOMAIN asked = DOMAIN q /\ asked = [f \in DOMAIN asked |-> asked[f]]
          /\ asked.pc = "waiting" /\ asked.flight = Flight(q) /\ asked.floor = q.floor
          /\ asked.answer = q.answer /\ asked.stage = q.stage
      BY <3>1
    <3> HIDE DEF asked
    <3>3. asked = [pc |-> asked.pc, kind |-> asked.kind, stage |-> asked.stage,
                   key |-> asked.key, floor |-> asked.floor, flight |-> asked.flight,
                   answer |-> asked.answer, of |-> asked.of, plan |-> asked.plan]
      BY <3>1, <3>2
    <3> QED
      BY <3>1, <3>2, <3>3 DEF IsPage
  <2>5. request' = [request EXCEPT ![r] = asked]
    BY <1>1, <1>2, <1>6
  <2> HIDE DEF asked
  <2>6. WaitsForCurrent(asked, tail')
    <3>1. ASSUME NEW i \in DOMAIN tail', tail'[i].kind # "recompute", Waits(asked, tail'[i])
          PROVE  ReadSince(tail'[i].read, asked.floor)
      <4>1. tail'[i].gen = generation
        BY <2>4, <3>1 DEF Waits, Flight
      <4>2. ReadSince(tail'[i].read, mark)
        BY <2>3, <3>1, <4>1 DEF GateIsKept, BuildIsCurrent
      <4> QED
        BY <1>2, <2>4, <4>2, SinceEarlier DEF IsPage
    <3> QED
      BY <3>1 DEF WaitsForCurrent
  <2>7. /\ request' = [x \in Requests |-> request'[x]]
        /\ \A x \in Requests : IsServed(request'[x], mark', tail', scene'.asks)
    BY <1>1, <2>3, <2>4, <2>5, <2>6, OneServed DEF IsServed
  <2> QED
    BY <1>1, <2>3, <2>7 DEF CacheInv, ClocksAgree
<1> QED
  BY <1>4, <1>5, <1>6

-----------------------------------------------------------------------------
(* Prices.                                                                 *)

(* The first of the prices nearest to f = 0: x before y.                   *)
Before(f, x, y) == f[x] < f[y] \/ (f[x] = f[y] /\ x <= y)
HasFirst(f, S) == S = {} \/ \E c \in S : \A e \in S : Before(f, c, e)

LEMMA FirstAdded ==
    ASSUME NEW f \in [Int -> Int], NEW S \in SUBSET Int, NEW x \in Int, HasFirst(f, S)
    PROVE  HasFirst(f, S \cup {x})
<1>1. CASE S = {}
  <2>1. Before(f, x, x)
    BY DEF Before
  <2> QED
    BY <1>1, <2>1 DEF HasFirst
<1>2. CASE S # {}
  <2>1. PICK c \in S : \A e \in S : Before(f, c, e)
    BY <1>2 DEF HasFirst
  <2>2. CASE Before(f, c, x)
    BY <2>1, <2>2 DEF HasFirst
  <2>3. CASE ~Before(f, c, x)
    <3>1. c \in Int /\ f[c] \in Int /\ f[x] \in Int
      OBVIOUS
    <3>2. Before(f, x, x) /\ Before(f, x, c)
      BY <2>3, <3>1 DEF Before
    <3>3. ASSUME NEW e \in S PROVE Before(f, x, e)
      <4>1. Before(f, c, e) /\ e \in Int /\ f[e] \in Int
        BY <2>1
      <4> QED
        BY <3>1, <3>2, <4>1 DEF Before
    <3> QED
      BY <3>2, <3>3 DEF HasFirst
  <2> QED
    BY <2>2, <2>3
<1> QED
  BY <1>1, <1>2

LEMMA FirstOfFour ==
    ASSUME NEW f \in [Int -> Int], NEW a \in Int, NEW b \in Int, NEW c \in Int, NEW d \in Int,
           NEW S \in SUBSET {a, b, c, d}
    PROVE  HasFirst(f, S)
<1> DEFINE A == {x \in S : x = a}
           B == A \cup {x \in S : x = b}
           C == B \cup {x \in S : x = c}
<1>1. ASSUME NEW T \in SUBSET Int, HasFirst(f, T), NEW x \in Int
      PROVE  HasFirst(f, T \cup {y \in S : y = x})
  <2>1. CASE x \in S
    <3>1. {y \in S : y = x} = {x}
      BY <2>1
    <3> QED
      BY <1>1, <3>1, FirstAdded
  <2>2. CASE x \notin S
    <3>1. T \cup {y \in S : y = x} = T
      BY <2>2
    <3> QED
      BY <1>1, <3>1
  <2> QED
    BY <2>1, <2>2
<1>2. HasFirst(f, {})
  BY DEF HasFirst
<1>3. A = {} \cup {x \in S : x = a} /\ A \subseteq Int /\ B \subseteq Int /\ C \subseteq Int
  OBVIOUS
<1>4. HasFirst(f, A)
  <2>1. HasFirst(f, {} \cup {x \in S : x = a})
    BY <1>1, <1>2
  <2> QED
    BY <1>3, <2>1
<1>5. S = C \cup {x \in S : x = d}
  OBVIOUS
<1> HIDE DEF A
<1>6. HasFirst(f, B)
  BY <1>1, <1>3, <1>4
<1> HIDE DEF B
<1>7. HasFirst(f, C)
  BY <1>1, <1>3, <1>6
<1> HIDE DEF C
<1>8. HasFirst(f, C \cup {x \in S : x = d})
  BY <1>1, <1>3, <1>7
<1> QED
  BY <1>5, <1>8

(* A price that is rounded to a charming one stays over the floor.         *)
LEMMA CharmKeepsTheFloor ==
    ASSUME NEW cents \in Int, NEW floor \in Int, cents > 0
    PROVE  RoundToCharmPrice(cents, floor) \in Int /\ RoundToCharmPrice(cents, floor) >= floor
<1> DEFINE h == (cents \div 100) * 100
           near == {(cents \div 100) * 100 - 5, (cents \div 100) * 100 - 1,
                    (cents \div 100) * 100 + 95, (cents \div 100) * 100 + 99}
           viable == {c \in near : c >= floor}
           f == [c \in Int |-> Magnitude(c - cents)]
<1>1. h \in Int
  OBVIOUS
<1>2. near = {h - 5, h - 1, h + 95, h + 99} /\ near \subseteq Int
  BY <1>1
<1>3. f \in [Int -> Int]
  BY DEF Magnitude
<1>4. RoundToCharmPrice(cents, floor) =
         IF viable = {} THEN Most(cents, floor)
         ELSE CHOOSE c \in viable :
                \A e \in viable : \/ Magnitude(c - cents) < Magnitude(e - cents)
                                  \/ Magnitude(c - cents) = Magnitude(e - cents) /\ c <= e
  BY DEF RoundToCharmPrice
<1> HIDE DEF h
<1>5. HasFirst(f, viable)
  <2> DEFINE c1 == h - 5
             c2 == h - 1
             c3 == h + 95
             c4 == h + 99
  <2>1. c1 \in Int /\ c2 \in Int /\ c3 \in Int /\ c4 \in Int
    BY <1>1
  <2>2. viable \in SUBSET {c1, c2, c3, c4}
    BY <1>2
  <2> HIDE DEF viable, f, c1, c2, c3, c4
  <2> QED
    BY <1>3, <2>1, <2>2, FirstOfFour
<1>6. viable \subseteq near
  OBVIOUS
<1> HIDE DEF near
<1>7. CASE viable = {}
  BY <1>4, <1>7 DEF Most
<1>8. CASE viable # {}
  <2>1. \E c \in viable : \A e \in viable : f[c] < f[e] \/ (f[c] = f[e] /\ c <= e)
    BY <1>5, <1>8 DEF HasFirst, Before
  <2>2. \E c \in viable :
           \A e \in viable : \/ Magnitude(c - cents) < Magnitude(e - cents)
                             \/ Magnitude(c - cents) = Magnitude(e - cents) /\ c <= e
    <3>1. \A c \in viable : f[c] = Magnitude(c - cents)
      BY <1>2, <1>6
    <3> HIDE DEF f, viable
    <3> QED
      BY <2>1, <3>1
  <2>3. RoundToCharmPrice(cents, floor) \in viable
    <3> HIDE DEF viable
    <3> QED
      BY <1>4, <1>8, <2>2
  <2> QED
    BY <1>2, <2>3
<1> QED
  BY <1>7, <1>8

LEMMA CostIsCents ==
    ASSUME NEW micros \in Nat
    PROVE  UnitCost(micros) \in Nat
  BY DEF UnitCost, Rounded

LEMMA FloorKeepsTheMargin ==
    ASSUME NEW cost \in Nat
    PROVE  FloorOf(cost) \in Nat /\ 17 * FloorOf(cost) >= 20 * cost
  BY DEF FloorOf, Up

(* What a variant that sells over its cost may be offered at.              *)
LEMMA BoundedIsAPrice ==
    ASSUME NEW cost \in Nat, NEW now \in Int, now > cost, NEW cents \in Int
    PROVE  Bounded(cost, now, cents) \in Int /\ Bounded(cost, now, cents) > 0
<1>1. FloorOf(cost) \in Nat
  BY FloorKeepsTheMargin
<1>2. Rounded(3 * now, 4) \in Int /\ Rounded(3 * now, 4) > 0
  BY DEF Rounded
<1>3. HighestOf(now) \in Int /\ HighestOf(now) > 0
  BY DEF HighestOf, Rounded
<1>4. LowestOf(cost, now) \in Int /\ LowestOf(cost, now) > 0
  BY <1>1, <1>2 DEF LowestOf, Most
<1> QED
  BY <1>3, <1>4 DEF Bounded, Least, Most

LEMMA OfferKeepsTheMargin ==
    ASSUME NEW cost \in Nat, NEW now \in Int, now > cost, NEW cents \in Int
    PROVE  LET p == RoundToCharmPrice(Bounded(cost, now, cents), FloorOf(cost))
           IN  p \in Int /\ 20 * (p - cost) >= 3 * p
<1> DEFINE p == RoundToCharmPrice(Bounded(cost, now, cents), FloorOf(cost))
<1>1. p \in Int /\ p >= FloorOf(cost)
  BY BoundedIsAPrice, FloorKeepsTheMargin, CharmKeepsTheFloor
<1> HIDE DEF p
<1>2. 17 * p >= 20 * cost
  BY <1>1, FloorKeepsTheMargin
<1>3. 20 * (p - cost) >= 3 * p
  BY <1>1, <1>2
<1> QED
  BY <1>1, <1>3 DEF p

LEMMA RecommendationKeepsTheMargin ==
    ASSUME NEW v, {"id", "price", "cost", "slope"} \subseteq DOMAIN v,
           v.cost \in Nat, v.price \in Int, v.slope \in Int,
           NEW strategic, NEW observations,
           Recommendation(v, strategic, observations).method
              \in {"ELASTICITY_REGRESSION", "MARGIN_TARGET"}
    PROVE  LET x == Recommendation(v, strategic, observations)
           IN  x.variant = v.id /\ 20 * (x.price - UnitCost(v.cost)) >= 3 * x.price
<1> DEFINE cost  == UnitCost(v.cost)
           slope == Elasticity(observations, v.slope)
           offer(cents) == RoundToCharmPrice(Bounded(cost, v.price, cents), FloorOf(cost))
           best   == offer(Optimal(cost, OrElse(slope, 0)))
           target == offer(Up(20 * cost, 13))
           x == Recommendation(v, strategic, observations)
<1>1. cost \in Nat
  BY CostIsCents
<1>2. OrElse(slope, 0) \in Int
  BY DEF OrElse, Elasticity
<1>3. Up(20 * cost, 13) \in Int
  BY <1>1 DEF Up
<1>4. OrElse(slope, 0) < -10 => Optimal(cost, OrElse(slope, 0)) \in Int
  <2> DEFINE e == OrElse(slope, 0)
  <2>1. e \in Int
    BY <1>2
  <2> HIDE DEF e, cost
  <2>2. ASSUME e < -10 PROVE Optimal(cost, e) \in Int
    <3>1. cost * (-e) \in Int /\ (-e) - 10 \in Int /\ (-e) - 10 > 0
      BY <1>1, <2>1, <2>2
    <3>2. \A n, d \in Int : d > 0 => Rounded(n, d) \in Int
      BY DEF Rounded
    <3> QED
      BY <3>1, <3>2 DEF Optimal
  <2> QED
    BY <2>2 DEF e
<1>5. x.method = "ELASTICITY_REGRESSION" =>
         x.variant = v.id /\ x.price = best /\ v.price > cost /\ OrElse(slope, 0) < -10
  <2> HIDE DEF best, target
  <2> QED
    BY <1>1 DEF Recommendation, best, target
<1>6. x.method = "MARGIN_TARGET" => x.variant = v.id /\ x.price = target /\ v.price > cost
  BY <1>1 DEF Recommendation
<1>7. ASSUME NEW cents \in Int, v.price > cost
      PROVE  offer(cents) \in Int /\ 20 * (offer(cents) - cost) >= 3 * offer(cents)
  BY <1>1, <1>7, OfferKeepsTheMargin
<1> HIDE DEF x, cost, slope, offer
<1> QED
  BY <1>3, <1>4, <1>5, <1>6, <1>7 DEF x, cost

-----------------------------------------------------------------------------
(* The steps of a price run, of a sheet and of a merchant's decision.      *)

(* A price run and a decision leave the cache alone; so does a sheet.      *)
LEMMA CachePricing ==
    ASSUME CacheInv, NEW r \in Requests, Pricing(r)
    PROVE  CacheInv'
<1>1. /\ UNCHANGED <<db, made, generation, retained, tail, mark, scene>>
      /\ request[r].pc \in {"inputs", "decided", "delete", "create"}
      /\ \E pc \in {"decided", "delete", "create", "done"} : \E plan :
            request' = [request EXCEPT ![r].pc = pc, ![r].plan = plan]
  <2>1. Waiting => UNCHANGED <<db, made, generation, retained, tail, mark, scene>>
    BY DEF Waiting, cacheVars
  <2>2. ReadInputs(r) => \E plan : Waiting /\ request[r].pc = "inputs" /\ Goes(r, "decided", plan)
    BY DEF ReadInputs
  <2>3. ReadDecided(r) => \E plan : Waiting /\ request[r].pc = "decided" /\ Goes(r, "delete", plan)
    BY DEF ReadDecided
  <2>4. DeletePending(r) => \E plan, pc : /\ Waiting /\ request[r].pc = "delete"
                                          /\ pc \in {"done", "create"} /\ Goes(r, pc, plan)
    BY DEF DeletePending
  <2>5. CreatePending(r) => \E plan : Waiting /\ request[r].pc = "create" /\ Goes(r, "done", plan)
    BY DEF CreatePending
  <2> QED
    BY <2>1, <2>2, <2>3, <2>4, <2>5 DEF Pricing, Goes
<1>2. PICK pc \in {"decided", "delete", "create", "done"} : \E plan :
         request' = [request EXCEPT ![r].pc = pc, ![r].plan = plan]
  BY <1>1
<1>p. PICK plan : request' = [request EXCEPT ![r].pc = pc, ![r].plan = plan]
  BY <1>2
<1>3. IsPage(request[r], mark)
  BY <1>1, PageOnTheWay DEF CacheInv
<1> DEFINE a == [request[r] EXCEPT !.pc = pc, !.plan = plan]
<1>4. IsServed(a, mark, tail', scene.asks)
  BY <1>3, PageGoes
<1>5. request' = [request EXCEPT ![r] = a]
  BY <1>p DEF CacheInv
<1> HIDE DEF a
<1>6. /\ request' = [q \in Requests |-> request'[q]]
      /\ \A q \in Requests : IsServed(request'[q], mark', tail', scene'.asks)
  BY <1>1, <1>4, <1>5, OneServed, NothingNewSame
<1> QED
  BY <1>1, <1>6 DEF CacheInv, ClocksAgree

LEMMA CacheSheet ==
    ASSUME CacheInv, NEW r \in Requests, Sheet(r)
    PROVE  CacheInv'
<1>1. /\ UNCHANGED <<db, made, generation, retained, tail, mark, scene>>
      /\ \E sheet \in scene.sheets : \E answer :
            request' = [request EXCEPT ![r] =
               [pc |-> "done", kind |-> sheet.kind, of |-> sheet, answer |-> answer]]
  BY DEF Sheet, Waiting, cacheVars
<1>2. PICK sheet \in scene.sheets : \E answer :
         request' = [request EXCEPT ![r] =
            [pc |-> "done", kind |-> sheet.kind, of |-> sheet, answer |-> answer]]
  BY <1>1
<1>p. PICK answer : request' = [request EXCEPT ![r] =
         [pc |-> "done", kind |-> sheet.kind, of |-> sheet, answer |-> answer]]
  BY <1>2
<1> DEFINE a == [pc |-> "done", kind |-> sheet.kind, of |-> sheet, answer |-> answer]
<1>3. IsSheet(a, scene.asks)
  BY StoriesAssumption DEF IsSheet, CacheInv, ClocksAgree
<1> HIDE DEF a
<1>4. /\ request' = [q \in Requests |-> request'[q]]
      /\ \A q \in Requests : IsServed(request'[q], mark', tail', scene'.asks)
  BY <1>1, <1>p, <1>3, OneServed, NothingNewSame DEF IsServed, a
<1> QED
  BY <1>1, <1>4 DEF CacheInv, ClocksAgree

LEMMA CacheUnchanged ==
    ASSUME CacheInv, UNCHANGED <<db, made, generation, retained, tail, mark, request, scene>>
    PROVE  CacheInv'
<1>1. /\ request' = [q \in Requests |-> request'[q]]
      /\ \A q \in Requests : IsServed(request'[q], mark', tail', scene'.asks)
  BY DEF CacheInv
<1> QED
  BY <1>1 DEF CacheInv, ClocksAgree

LEMMA CacheStep == CacheInv /\ [Next]_vars => CacheInv'
<1> SUFFICES ASSUME CacheInv, [Next]_vars PROVE CacheInv'
  OBVIOUS
<1>1. CASE UNCHANGED vars
  BY <1>1, CacheUnchanged DEF vars
<1>2. ASSUME UNCHANGED scene, NEW r \in Requests,
             \/ \E kind \in scene.asks, now \in scene.nows : Arrive(r, kind, now)
             \/ Answering(r)
      PROVE  CacheInv'
  BY <1>2, CacheArrive, CacheLook, CacheReadDays DEF Answering
<1>3. ASSUME UNCHANGED scene,
             Running \/ LoadFails \/ RecomputeFails \/ Write \/ Invalidate \/ StartRecompute \/ Minute
      PROVE  CacheInv'
  BY <1>3, CacheAdmit, CacheLoad, CacheFails, CacheFinish, CacheRunRecompute,
     CacheEndRecompute, CacheWrite, CacheInvalidate, CacheStartRecompute, CacheMinute
     DEF Running
<1>4. ASSUME NEW r \in Requests, Pricing(r) \/ Sheet(r)
      PROVE  CacheInv'
  BY <1>4, CachePricing, CacheSheet
<1>5. ASSUME NEW s, NEW status, Decide(s, status)
      PROVE  CacheInv'
  BY <1>5, CacheUnchanged DEF Decide, Waiting, cacheVars
<1> QED
  BY <1>1, <1>2, <1>3, <1>4, <1>5 DEF Next

(* The cache, the gate and what waits for them are sound in every state.   *)
THEOREM CacheIsSound == Spec => []CacheInv
  BY CacheInit, CacheStep, PTL DEF Spec

(* However requests, deliveries, recomputes and failures interleave, what a*)
(* request is given was read after the last invalidation before it, and    *)
(* what is of the stored profit after the last recompute before it.        *)
THEOREM FiguresAreCurrent == Spec => []AnswersAreCurrent
<1>1. CacheInv => AnswersAreCurrent
  <2> SUFFICES ASSUME CacheInv, NEW r \in Requests, request[r].pc # "idle",
                      request[r].kind \in scene.asks, NEW v \in request[r].answer,
                      NEW part \in DOMAIN v.read
               PROVE  v.read[part] >= Floor(request[r], part)
    BY DEF AnswersAreCurrent
  <2>1. request[r] # Idle
    BY DEF Idle
  <2>2. ~IsSheet(request[r], scene.asks)
    BY DEF IsSheet
  <2>3. IsPage(request[r], mark)
    BY <2>1, <2>2 DEF CacheInv, IsServed
  <2> QED
    BY <2>3 DEF IsPage, ReadSince, Since, Floor
<1> QED
  BY <1>1, CacheIsSound, PTL

(* However many requests come at once, the graph of one window of orders   *)
(* at most is in memory: one retained, one being loaded, or one recomputed.*)
THEOREM OnePeak == Spec => []OnePeakAtATime
<1>1. CacheInv => OnePeakAtATime
  <2> SUFFICES ASSUME CacheInv PROVE OnePeakAtATime
    OBVIOUS
  <2> DEFINE runs == {i \in DOMAIN tail : tail[i].pc # "queued"}
             held == {i \in DOMAIN retained : retained[i].kind = "full"}
  <2>1. runs \subseteq {1}
    BY DEF CacheInv, GateIsKept
  <2>2. \A i, j \in held : i = j
    BY DEF CacheInv, RetainedIsCurrent, OneFull
  <2>3. runs # {} => held = {}
    BY DEF CacheInv, PeakIsAlone, AllQueued, NoFull
  <2> HIDE DEF runs, held
  <2>4. Cardinality({}) = 0 /\ \A x : Cardinality({x}) = 1
    BY FS_EmptySet, FS_Singleton
  <2>5. runs = {} \/ runs = {1}
    BY <2>1
  <2>6. held = {} \/ \E x : held = {x}
    BY <2>2
  <2>7. Cardinality(runs) + Cardinality(held) <= 1
    <3>1. CASE runs = {}
      <4>1. Cardinality(runs) = 0 /\ Cardinality(held) \in {0, 1}
        BY <2>4, <2>6, <3>1
      <4> QED
        BY <4>1
    <3>2. CASE runs = {1}
      <4>1. Cardinality(runs) = 1 /\ Cardinality(held) = 0
        BY <2>3, <2>4, <3>2
      <4> QED
        BY <4>1
    <3> QED
      BY <2>5, <3>1, <3>2
  <2> QED
    BY <2>7 DEF OnePeakAtATime, runs, held
<1> QED
  BY <1>1, CacheIsSound, PTL

-----------------------------------------------------------------------------
(* Suggested prices.                                                       *)

LEMMA MarginReadInputs ==
    ASSUME CacheInv, MarginInv, NEW r \in Requests, ReadInputs(r)
    PROVE  MarginInv'
<1> DEFINE q == request[r]
           ids == UNION {Strategic(v) : v \in q.answer}
           of(v) == Recommendation(v, v.product \in ids, Observations(Books(db), v, q.of))
           plan == {of(v) : v \in Books(db).variants}
<1>1. /\ request' = [request EXCEPT ![r].pc = "decided", ![r].plan = plan]
      /\ q.pc = "inputs" /\ UNCHANGED <<scene, suggestions>>
  BY DEF ReadInputs, Goes, Waiting
<1>2. ASSUME NEW x \in plan PROVE MarginKept(x)'
  <2>1. PICK v \in Books(db).variants : x = of(v)
    BY <1>2
  <2>2. /\ {"id", "price", "cost", "slope"} \subseteq DOMAIN v
        /\ v.cost \in Nat /\ v.price \in Int /\ v.slope \in Int
        /\ db \in DOMAIN scene.editions
    BY StoriesAssumption DEF CacheInv, ClocksAgree, Books
  <2>3. x.method \in {"ELASTICITY_REGRESSION", "MARGIN_TARGET"} =>
           v.id = x.variant /\ 20 * (x.price - UnitCost(v.cost)) >= 3 * x.price
    <3> HIDE DEF q, ids
    <3> QED
      BY <2>1, <2>2, RecommendationKeepsTheMargin
  <2> HIDE DEF plan, of
  <2> QED
    BY <1>1, <2>2, <2>3 DEF MarginKept, Books
<1>3. IsPage(q, mark)
  BY <1>1, PageOnTheWay DEF CacheInv
<1> HIDE DEF plan
<1>4. request'[r].plan = plan /\ \A w \in Requests : w # r => request'[w] = request[w]
  BY <1>1, <1>3 DEF CacheInv, IsPage
<1>5. PlansKeepTheMargin'
  <2> SUFFICES ASSUME NEW w \in Requests, request'[w].pc \in {"decided", "delete", "create"},
                      NEW x \in request'[w].plan
               PROVE  MarginKept(x)'
    BY DEF PlansKeepTheMargin
  <2>1. CASE w = r
    BY <1>2, <1>4, <2>1
  <2>2. CASE w # r
    BY <1>1, <1>4, <2>2 DEF MarginInv, PlansKeepTheMargin, MarginKept, Books
  <2> QED
    BY <2>1, <2>2
<1> QED
  BY <1>1, <1>5 DEF MarginInv, MarginKept, Books

(* A plan that loses rows, or is written as it is, keeps its margins.      *)
LEMMA MarginPlanGoes ==
    ASSUME CacheInv, MarginInv, NEW r \in Requests, UNCHANGED scene,
           request[r].pc \in {"decided", "delete", "create"},
           NEW STATE pc, NEW STATE plan, plan \subseteq request[r].plan,
           request' = [request EXCEPT ![r].pc = pc, ![r].plan = plan]
    PROVE  PlansKeepTheMargin'
<1>1. IsPage(request[r], mark)
  BY PageOnTheWay DEF CacheInv
<1>2. request'[r].plan = plan /\ \A w \in Requests : w # r => request'[w] = request[w]
  BY <1>1 DEF CacheInv, IsPage
<1> SUFFICES ASSUME NEW w \in Requests, request'[w].pc \in {"decided", "delete", "create"},
                    NEW x \in request'[w].plan
             PROVE  MarginKept(x)'
  BY DEF PlansKeepTheMargin
<1>3. CASE w = r
  BY <1>2, <1>3 DEF MarginInv, PlansKeepTheMargin, MarginKept, Books
<1>4. CASE w # r
  BY <1>2, <1>4 DEF MarginInv, PlansKeepTheMargin, MarginKept, Books
<1> QED
  BY <1>3, <1>4

LEMMA MarginReadDecided ==
    ASSUME CacheInv, MarginInv, NEW r \in Requests, ReadDecided(r)
    PROVE  MarginInv'
<1> DEFINE plan == {x \in request[r].plan : /\ Worthwhile(x)
                                            /\ \A s \in Decided : s.variant # x.variant}
<1>1. /\ request' = [request EXCEPT ![r].pc = "delete", ![r].plan = plan]
      /\ request[r].pc = "decided" /\ UNCHANGED <<scene, suggestions>>
      /\ plan \subseteq request[r].plan
  BY DEF ReadDecided, Goes, Waiting
<1> HIDE DEF plan
<1>2. PlansKeepTheMargin'
  BY <1>1, MarginPlanGoes
<1> QED
  BY <1>1, <1>2 DEF MarginInv, MarginKept, Books

LEMMA MarginDeletePending ==
    ASSUME CacheInv, MarginInv, NEW r \in Requests, DeletePending(r)
    PROVE  MarginInv'
<1> DEFINE pc == IF request[r].plan = {} THEN "done" ELSE "create"
           plan == request[r].plan
<1>1. /\ request' = [request EXCEPT ![r].pc = pc, ![r].plan = plan]
      /\ request[r].pc = "delete" /\ UNCHANGED scene
      /\ suggestions' \subseteq suggestions
  BY DEF DeletePending, Goes, Waiting, Decided
<1> HIDE DEF pc
<1>2. PlansKeepTheMargin'
  BY <1>1, MarginPlanGoes
<1> QED
  BY <1>1, <1>2 DEF MarginInv, MarginKept, Books

LEMMA MarginCreatePending ==
    ASSUME CacheInv, MarginInv, NEW r \in Requests, CreatePending(r)
    PROVE  MarginInv'
<1> DEFINE row(x) == [run |-> r, variant |-> x.variant, price |-> x.price, method |-> x.method,
                      status |-> "PENDING"]
           plan == request[r].plan
<1>1. /\ request' = [request EXCEPT ![r].pc = "done", ![r].plan = plan]
      /\ request[r].pc = "create" /\ UNCHANGED scene
      /\ suggestions' = suggestions \cup {row(x) : x \in plan}
  BY DEF CreatePending, Goes, Waiting
<1>2. PlansKeepTheMargin'
  BY <1>1, MarginPlanGoes
<1>3. ASSUME NEW x \in plan PROVE IsSuggestion(row(x)) /\ MarginKept(row(x))'
  <2>1. MarginKept(x)
    BY <1>1 DEF MarginInv, PlansKeepTheMargin
  <2>2. /\ row(x).variant = x.variant /\ row(x).price = x.price /\ row(x).method = x.method
        /\ IsSuggestion(row(x))
    BY DEF IsSuggestion
  <2> HIDE DEF row
  <2> QED
    BY <1>1, <2>1, <2>2 DEF MarginKept, Books
<1> HIDE DEF row, plan
<1>4. ASSUME NEW s \in suggestions PROVE IsSuggestion(s) /\ MarginKept(s)'
  BY <1>1 DEF MarginInv, MarginKept, Books
<1>5. ASSUME NEW s \in suggestions' PROVE IsSuggestion(s) /\ MarginKept(s)'
  <2>1. s \in suggestions \/ \E x \in plan : s = row(x)
    BY <1>1
  <2>2. ASSUME NEW x \in plan, s = row(x) PROVE IsSuggestion(s) /\ MarginKept(s)'
    BY <1>3, <2>2
  <2> QED
    BY <1>4, <2>1, <2>2
<1> QED
  BY <1>2, <1>5 DEF MarginInv

LEMMA MarginDecide ==
    ASSUME MarginInv, NEW s, NEW status, Decide(s, status)
    PROVE  MarginInv'
<1> DEFINE d == [s EXCEPT !.status = status]
<1>1. /\ s \in suggestions /\ UNCHANGED <<request, scene>>
      /\ suggestions' = (suggestions \ {s}) \cup {d}
  BY DEF Decide, Waiting
<1>2. IsSuggestion(s) /\ MarginKept(s)
  BY <1>1 DEF MarginInv
<1>3. IsSuggestion(d) /\ d.variant = s.variant /\ d.price = s.price /\ d.method = s.method
  <2>1. DOMAIN s = {"run", "variant", "price", "method", "status"}
    BY <1>2 DEF IsSuggestion
  <2>2. /\ DOMAIN d = {"run", "variant", "price", "method", "status"}
        /\ d = [f \in DOMAIN d |-> d[f]]
        /\ d.variant = s.variant /\ d.price = s.price /\ d.method = s.method
    BY <2>1
  <2> HIDE DEF d
  <2> QED
    BY <2>2 DEF IsSuggestion
<1> HIDE DEF d
<1>4. MarginKept(d)'
  BY <1>1, <1>2, <1>3 DEF MarginKept, Books
<1>5. ASSUME NEW x \in suggestions' PROVE IsSuggestion(x) /\ MarginKept(x)'
  <2>1. CASE x = d
    BY <1>3, <1>4, <2>1
  <2>2. CASE x \in suggestions
    BY <1>1, <2>2 DEF MarginInv, MarginKept, Books
  <2> QED
    BY <1>1, <2>1, <2>2
<1>6. PlansKeepTheMargin'
  BY <1>1 DEF MarginInv, PlansKeepTheMargin, MarginKept, Books
<1> QED
  BY <1>5, <1>6 DEF MarginInv

(* A request whose plan does not count, or that is not there yet.          *)
LEMMA MarginElsewhere ==
    ASSUME MarginInv, UNCHANGED <<scene, suggestions>>,
           \A w \in Requests : \/ request'[w] = request[w]
                               \/ request'[w].pc \notin {"decided", "delete", "create"}
    PROVE  MarginInv'
<1>1. PlansKeepTheMargin'
  BY DEF MarginInv, PlansKeepTheMargin, MarginKept, Books
<1> QED
  BY <1>1 DEF MarginInv, MarginKept, Books

LEMMA AnsweredGoesOn ==
    ASSUME NEW q, NEW m, IsPage(q, m), NEW value
    PROVE  /\ Answered(q, value).pc \in {"look", "inputs", "done"}
           /\ Failed(q).pc = "failed"
<1>1. DOMAIN q = {"pc", "kind", "stage", "key", "floor", "flight", "answer", "of", "plan"}
  BY DEF IsPage
<1> QED
  BY <1>1 DEF Answered, Failed

(* A step of the cache touches no plan.                                    *)
LEMMA MarginServe ==
    ASSUME CacheInv, NEW r \in Requests,
           (\E kind, now : Arrive(r, kind, now)) \/ Look(r) \/ ReadDays(r)
    PROVE  \A w \in Requests : \/ request'[w] = request[w]
                               \/ request'[w].pc \notin {"decided", "delete", "create"}
<1>1. request = [w \in Requests |-> request[w]]
  BY DEF CacheInv
<1>2. ASSUME NEW kind, NEW now, Arrive(r, kind, now)
      PROVE  request'[r].pc = "look" /\ \A w \in Requests : w # r => request'[w] = request[w]
  <2> DEFINE x == [pc |-> "look", kind |-> kind,
                   stage |-> IF kind = "badge" THEN "capacity" ELSE "full",
                   key |-> [range |-> ResolveRange(scene.length, now), stamp |-> stamp],
                   floor |-> mark, flight |-> {}, answer |-> {}, of |-> {}, plan |-> {}]
  <2>1. request' = [request EXCEPT ![r] = x] /\ x.pc = "look"
    BY <1>2 DEF Arrive
  <2> HIDE DEF x
  <2> QED
    BY <1>1, <2>1
<1>3. ASSUME request[r].pc \in {"look", "days"}, NEW value,
             request' = [request EXCEPT ![r] = Answered(request[r], value)]
      PROVE  /\ request'[r].pc \in {"look", "inputs", "done"}
             /\ \A w \in Requests : w # r => request'[w] = request[w]
  <2>1. IsPage(request[r], mark)
    BY <1>3, PageOnTheWay DEF CacheInv
  <2> DEFINE x == Answered(request[r], value)
  <2>2. x.pc \in {"look", "inputs", "done"}
    BY <2>1, AnsweredGoesOn
  <2> HIDE DEF x
  <2> QED
    BY <1>1, <1>3, <2>2 DEF x
<1>4. ASSUME Look(r)
      PROVE  /\ request'[r].pc \in {"look", "inputs", "done", "days", "waiting"}
             /\ \A w \in Requests : w # r => request'[w] = request[w]
  <2> DEFINE q == request[r]
  <2>1. /\ q.pc = "look"
        /\ \/ \E value : request' = [request EXCEPT ![r] = Answered(request[r], value)]
           \/ request' = [request EXCEPT ![r].pc = "days"]
           \/ request' = [request EXCEPT ![r].pc = "waiting", ![r].flight = Flight(q)]
    BY <1>4 DEF Look
  <2>2. DOMAIN q = {"pc", "kind", "stage", "key", "floor", "flight", "answer", "of", "plan"}
    BY <2>1, PageOnTheWay DEF CacheInv, IsPage
  <2>3. CASE \E value : request' = [request EXCEPT ![r] = Answered(request[r], value)]
    BY <1>3, <2>1, <2>3
  <2>4. CASE request' = [request EXCEPT ![r].pc = "days"]
    BY <1>1, <2>2, <2>4
  <2>5. CASE request' = [request EXCEPT ![r].pc = "waiting", ![r].flight = Flight(q)]
    BY <1>1, <2>2, <2>5
  <2> QED
    BY <2>1, <2>3, <2>4, <2>5
<1>5. ASSUME ReadDays(r)
      PROVE  /\ request'[r].pc \in {"look", "inputs", "done"}
             /\ \A w \in Requests : w # r => request'[w] = request[w]
  <2> DEFINE value == CapacityValue(request[r].key.range, db)
  <2>1. /\ request' = [request EXCEPT ![r] = Answered(request[r], value)]
        /\ request[r].pc = "days"
    BY <1>5 DEF ReadDays, CacheInv
  <2> HIDE DEF value
  <2> QED
    BY <1>3, <2>1
<1> QED
  BY <1>2, <1>4, <1>5

LEMMA MarginResolve ==
    ASSUME CacheInv, NEW outcome, Resolve(outcome)
    PROVE  \A w \in Requests : \/ request'[w] = request[w]
                               \/ request'[w].pc \notin {"decided", "delete", "create"}
<1> SUFFICES ASSUME NEW w \in Requests, request'[w] # request[w]
             PROVE  request'[w].pc \notin {"decided", "delete", "create"}
  OBVIOUS
<1>1. /\ Waits(request[w], tail[1])
      /\ \/ request'[w] = Failed(request[w])
         \/ request'[w] = Answered(request[w], CHOOSE v \in outcome : TRUE)
  BY DEF Resolve
<1>2. IsPage(request[w], mark)
  BY <1>1, PageOnTheWay DEF CacheInv, Waits
<1> QED
  BY <1>1, <1>2, AnsweredGoesOn

LEMMA MarginStep == CacheInv /\ MarginInv /\ [Next]_vars => MarginInv'
<1> SUFFICES ASSUME CacheInv, MarginInv, [Next]_vars PROVE MarginInv'
  OBVIOUS
<1>1. CASE UNCHANGED vars
  BY <1>1, MarginElsewhere DEF vars
<1>2. ASSUME UNCHANGED <<scene, suggestions>>, NEW r \in Requests,
             \/ \E kind \in scene.asks, now \in scene.nows : Arrive(r, kind, now)
             \/ Answering(r)
      PROVE  MarginInv'
  BY <1>2, MarginServe, MarginElsewhere DEF Answering
<1>3. ASSUME UNCHANGED <<scene, suggestions>>,
             Running \/ LoadFails \/ RecomputeFails \/ Write \/ Invalidate \/ StartRecompute \/ Minute
      PROVE  MarginInv'
  <2>1. UNCHANGED request \/ \E outcome : Resolve(outcome)
    BY <1>3 DEF Running, LoadFails, RecomputeFails, Write, Invalidate, StartRecompute, Minute,
                Admit, Load, Refuse, Finish, Deliver, RunRecompute, FinishRecompute
  <2> QED
    BY <1>3, <2>1, MarginResolve, MarginElsewhere
<1>4. ASSUME NEW r \in Requests, Pricing(r)
      PROVE  MarginInv'
  BY <1>4, MarginReadInputs, MarginReadDecided, MarginDeletePending, MarginCreatePending
     DEF Pricing
<1>5. ASSUME NEW r \in Requests, Sheet(r)
      PROVE  MarginInv'
  <2>1. /\ UNCHANGED <<scene, suggestions>>
        /\ \E sheet, answer : request' = [request EXCEPT ![r] =
              [pc |-> "done", kind |-> sheet.kind, of |-> sheet, answer |-> answer]]
    BY <1>5 DEF Sheet, Waiting
  <2>2. PICK sheet, answer : request' = [request EXCEPT ![r] =
           [pc |-> "done", kind |-> sheet.kind, of |-> sheet, answer |-> answer]]
    BY <2>1
  <2>3. \A w \in Requests : \/ request'[w] = request[w] \/ request'[w].pc = "done"
    <3> DEFINE x == [pc |-> "done", kind |-> sheet.kind, of |-> sheet, answer |-> answer]
    <3>1. x.pc = "done" /\ request' = [request EXCEPT ![r] = x]
      BY <2>2
    <3> HIDE DEF x
    <3> QED
      BY <3>1 DEF CacheInv
  <2> QED
    BY <2>1, <2>3, MarginElsewhere
<1>6. ASSUME NEW s, NEW status, Decide(s, status)
      PROVE  MarginInv'
  BY <1>6, MarginDecide
<1> QED
  BY <1>1, <1>2, <1>3, <1>4, <1>5, <1>6 DEF Next

(* Whatever the demand curve, the price or the cost: a price that is       *)
(* suggested leaves fifteen percent over the unit cost in cents, however   *)
(* runs and the merchant's decisions interleave.                           *)
THEOREM MarginsAreKept == Spec => []SuggestionsKeepTheMargin
<1>1. Init => MarginInv
  BY DEF Init, MarginInv, PlansKeepTheMargin, Idle
<1>2. MarginInv => SuggestionsKeepTheMargin
  BY DEF MarginInv, SuggestionsKeepTheMargin
<1> QED
  BY <1>1, <1>2, CacheIsSound, MarginStep, PTL DEF Spec
=============================================================================
