--------------------------- MODULE BillingProofs ---------------------------
(***************************************************************************)
(* Machine-checked theorems about what a shop pays.                        *)
(*                                                                         *)
(* Part 1, Account and PlanGate: for every set of requests and every       *)
(* story: any first state, any number of conversions, removals and         *)
(* installations, failures and lost deliveries.                            *)
(*                                                                         *)
(* Part 2, UsageMeter: what is charged and what is counted as charged      *)
(* agree, whatever runs side by side and whatever fails.                   *)
(***************************************************************************)
EXTENDS PlanGate, UsageMeter, FiniteSetTheorems, TLAPS

-----------------------------------------------------------------------------
(* Part 1: the plan and its charges.  The inductive invariants             *)

Types == {"unknown", "dev", "paid"}
Names == DOMAIN PlanOf
Kinds == {"page"} \cup Names
Plans == DOMAIN Rank
Seens == [dev : SUBSET BOOLEAN, charges : SUBSET Charges]

(* What a request knows, by how far it has come.                           *)
Finding  == [pc : {"find", "reset"}, kind : Kinds, hooks : BOOLEAN, scope : BOOLEAN,
             seen : Seens, confirm : {FALSE}]
Knowing  == [pc : {"find", "reset", "recordScopes", "carrier", "import", "plan"},
             kind : Kinds, hooks : BOOLEAN, scope : BOOLEAN, seen : Seens,
             confirm : {FALSE}, type : Types,
             sync : {"PENDING", "RUNNING", "COMPLETE", "FAILED"}]
Typing   == [pc : {"storeType", "read"}, kind : Kinds, seen : Seens,
             confirm : BOOLEAN, type : Types]
Ordering == [pc : {"charge"}, kind : Names, seen : Seens, confirm : BOOLEAN,
             type : Types]
Checking == [pc : {"check"}, seen : Seens, confirm : BOOLEAN, type : Types,
             plan : Plans]
Storing  == [pc : {"store"}, seen : Seens, confirm : BOOLEAN, type : Types,
             plan : Plans]
Serving  == [pc : {"served"}, seen : Seens, confirm : BOOLEAN, plan : Plans]
Charged  == [pc : {"charged"}, seen : Seens, test : BOOLEAN]
Request  == {Idle} \cup Finding \cup Knowing \cup Typing \cup Ordering
            \cup Checking \cup Storing \cup Serving \cup Charged

Delivery == [topic : {"shop", "uninstalled", "redact"}]
            \cup [topic : {"scopes"}, reports : BOOLEAN]
            \cup [topic : {"subscription"}, plan : Plans, active : BOOLEAN]
Handler  == {Free} \cup [step : 1 .. 4, delivery : Delivery]
Row      == [plan : Plans, fresh : BOOLEAN, events : SUBSET Delivery,
             meter : {"under_limit", "suspended"}]

TypeInv == /\ store \in Truth /\ deliveries \in SUBSET Delivery
           /\ handler \in Handler /\ shop \in ShopRow /\ row \in Row
           /\ session \in BOOLEAN /\ gap \in BOOLEAN
           /\ request \in [Requests -> Request]

(* The word that the app was removed: it waits, or its processing has not  *)
(* marked the row yet.                                                     *)
Removed == [topic |-> "uninstalled"]
Told == \/ Removed \in deliveries
        \/ handler # Free /\ handler.delivery = Removed /\ handler.step \in {1, 2}

(* A complete import hides a gap only until the word has come.             *)
GapInv == (gap /\ shop.exists /\ shop.sync = "COMPLETE") => (shop.gone \/ Told)

(* What a request saw is up to date, and what it is about to act on is     *)
(* from what it saw.                                                       *)
Watched(q, truth) == truth.dev \in q.seen.dev /\ truth.charges \subseteq q.seen.charges
Answered(q) == \E b \in q.seen.dev : q.type = TypeName(b)
Vouched(q) == \/ q.plan = "none"
              \/ \E c \in q.seen.charges : /\ PlanOf[c.name] = q.plan
                                           /\ c.test => TRUE \in q.seen.dev
BillReq(q, truth) ==
    /\ q \in Finding \cup Knowing => Watched(q, truth)
    /\ (q \in Typing /\ q.pc = "storeType") => q.confirm
    /\ (q \in Typing /\ q.confirm) => Watched(q, truth) /\ Answered(q)
    /\ q \in Ordering => Watched(q, truth) /\ Answered(q)
    /\ (q \in Checking /\ q.confirm) => Watched(q, truth) /\ Answered(q)
    /\ (q \in Storing /\ q.confirm) => Vouched(q)
    /\ (q \in Serving /\ q.confirm) => Vouched(q)
    /\ q \in Charged => q.test \in q.seen.dev
BillInv == \A r \in Requests : BillReq(request[r], store)

-----------------------------------------------------------------------------
(* The plans                                                               *)

(* The best of the plans charged for is one of them, or none.              *)
LEMMA BestOfCharges ==
    ASSUME NEW charges \in SUBSET Charges, NEW isTest \in BOOLEAN
    PROVE  LET best == BestOf(charges, isTest)
           IN  /\ best \in Plans
               /\ \/ best = "none"
                  \/ \E c \in charges : PlanOf[c.name] = best /\ (c.test => isTest)
  <1> DEFINE plans == {"none"} \cup {PlanOf[c.name] : c \in Counting(charges, isTest)}
             Leads(p) == \A q \in plans : Rank[q] <= Rank[p]
  <1>1. \A c \in charges : PlanOf[c.name] \in {"none", "starter", "growth"}
    BY DEF Charges, PlanOf
  <1>2. plans \subseteq {"none", "starter", "growth"} /\ "none" \in plans
    BY <1>1 DEF Counting
  <1>3. \E p \in plans : Leads(p)
    <2>1. Rank["none"] = 0 /\ Rank["starter"] = 1 /\ Rank["growth"] = 2
      BY DEF Rank
    <2>2. CASE "growth" \in plans
      BY <1>2, <2>1, <2>2
    <2>3. CASE "growth" \notin plans /\ "starter" \in plans
      BY <1>2, <2>1, <2>3
    <2>4. CASE "growth" \notin plans /\ "starter" \notin plans
      BY <1>2, <2>1, <2>4
    <2> QED
      BY <2>2, <2>3, <2>4
  <1>4. BestOf(charges, isTest) = CHOOSE p \in plans : Leads(p)
    BY DEF BestOf
  <1>5. BestOf(charges, isTest) \in plans
    <2> HIDE DEF plans, Leads
    <2> QED
      BY <1>3, <1>4
  <1>6. BestOf(charges, isTest) \in Plans
    BY <1>2, <1>5 DEF Plans, Rank
  <1> QED
    BY <1>5, <1>6 DEF Counting

LEMMA PlansOfNames == \A n \in Names : PlanOf[n] \in Plans
  BY DEF Names, PlanOf, Plans, Rank

LEMMA TypeNames == \A b \in BOOLEAN : /\ TypeName(b) \in Types
                                      /\ TypeName(b) = "dev" => b = TRUE
  BY DEF TypeName, Types

-----------------------------------------------------------------------------
(* What each write leaves in the records                                   *)

LEMMA ShopWrites ==
    ASSUME NEW s \in ShopRow
    PROVE  /\ \A b \in BOOLEAN : /\ [s EXCEPT !.gone = b] \in ShopRow
                                 /\ [s EXCEPT !.exists = b] \in ShopRow
                                 /\ [s EXCEPT !.reports = b] \in ShopRow
           /\ \A t \in Types : [s EXCEPT !.type = t] \in ShopRow
           /\ \A y \in {"PENDING", "RUNNING", "COMPLETE", "FAILED"} :
                [s EXCEPT !.sync = y] \in ShopRow
           /\ \A c \in {"NOT_CONFIGURED", "CONNECTED", "DISCONNECTED"} :
                [s EXCEPT !.carrier = c] \in ShopRow
           /\ \A m \in {"nothing", "dev", "paid", "stored"} :
                /\ [s EXCEPT !.told = m] \in ShopRow
                /\ [s EXCEPT !.sync = "RUNNING", !.told = m] \in ShopRow
                /\ \A t \in Types : [s EXCEPT !.type = t, !.told = m] \in ShopRow
           /\ Reinstated(s) \in ShopRow
  BY Zenon DEF ShopRow, Types, Reinstated

LEMMA NoShopTyped == NoShop \in ShopRow /\ [NoShop EXCEPT !.exists = TRUE] \in ShopRow
  <1>1. NoShop \in ShopRow
    BY DEF NoShop, ShopRow
  <1> QED
    BY <1>1, ShopWrites

LEMMA RowWrites ==
    ASSUME NEW q \in Row
    PROVE  /\ \A p \in Plans, b \in BOOLEAN :
                [q EXCEPT !.plan = p, !.fresh = b] \in Row
           /\ \A b \in BOOLEAN : [q EXCEPT !.fresh = b] \in Row
           /\ \A d \in Delivery : [q EXCEPT !.events = q.events \cup {d}] \in Row
           /\ \A m \in {"under_limit", "suspended"} : [q EXCEPT !.meter = m] \in Row
  <1>1. \A d \in Delivery : q.events \cup {d} \in SUBSET Delivery
    BY DEF Row
  <1> QED
    BY <1>1, Zenon DEF Row

LEMMA TruthWrites ==
    ASSUME NEW t \in Truth
    PROVE  /\ \A b \in BOOLEAN : /\ [t EXCEPT !.dev = b] \in Truth
                                 /\ [t EXCEPT !.reports = b] \in Truth
                                 /\ [t EXCEPT !.installed = b] \in Truth
           /\ \A c \in SUBSET Charges :
                /\ [t EXCEPT !.asked = c] \in Truth
                /\ \A a \in SUBSET Charges :
                     /\ [t EXCEPT !.charges = c, !.asked = a] \in Truth
                     /\ [t EXCEPT !.installed = FALSE, !.charges = c, !.asked = a]
                          \in Truth
  BY Zenon DEF Truth

(* The fields of what is typed.                                            *)
LEMMA ShopFields ==
    ASSUME NEW s \in ShopRow
    PROVE  /\ s.exists \in BOOLEAN /\ s.gone \in BOOLEAN /\ s.reports \in BOOLEAN
           /\ s.type \in Types
           /\ s.sync \in {"PENDING", "RUNNING", "COMPLETE", "FAILED"}
  BY DEF ShopRow, Types

LEMMA TruthFields ==
    ASSUME NEW t \in Truth
    PROVE  /\ t.installed \in BOOLEAN /\ t.dev \in BOOLEAN /\ t.reports \in BOOLEAN
           /\ t.charges \in SUBSET Charges /\ t.asked \in SUBSET Charges
  BY DEF Truth

(* What a request knows tells how far it has come.                         *)
LEMMA Disjoint ==
    ASSUME NEW q
    PROVE  /\ q \in Finding \cup Knowing =>
                q.pc \in {"find", "reset", "recordScopes", "carrier", "import", "plan"}
           /\ q \in Typing => q.pc \in {"storeType", "read"}
           /\ q \in Ordering => q.pc = "charge"
           /\ q \in Checking => q.pc = "check"
           /\ q \in Storing => q.pc = "store"
           /\ q \in Serving => q.pc = "served"
           /\ q \in Charged => q.pc = "charged"
  BY DEF Finding, Knowing, Typing, Ordering, Checking, Storing, Serving, Charged

(* How far it has come tells what it knows.                                *)
LEMMA RequestFields ==
    ASSUME NEW q \in Request
    PROVE  /\ q.pc = "idle" => q = Idle
           /\ q.pc \in {"find", "reset"} => q \in Finding \cup Knowing
           /\ q.pc \in {"recordScopes", "carrier", "import", "plan"} => q \in Knowing
           /\ q.pc \in {"storeType", "read"} => q \in Typing
           /\ q.pc = "charge" => q \in Ordering
           /\ q.pc = "check" => q \in Checking
           /\ q.pc = "store" => q \in Storing
           /\ q.pc = "served" => q \in Serving
           /\ q.pc = "charged" => q \in Charged
  <1>1. \/ q = Idle \/ q \in Finding \cup Knowing \/ q \in Typing
        \/ q \in Ordering \/ q \in Checking \/ q \in Storing \/ q \in Serving
        \/ q \in Charged
    BY DEF Request
  <1>2. q = Idle => q.pc = "idle"
    BY DEF Idle
  <1>3. q \in Finding => q.pc \in {"find", "reset"}
    BY DEF Finding
  <1> QED
    BY <1>1, <1>2, <1>3, Disjoint

(* The moves of a request.                                                 *)
LEMMA RequestWrites ==
    ASSUME NEW q
    PROVE  /\ q \in Finding \cup Knowing =>
                [q EXCEPT !.pc = "reset"] \in Finding \cup Knowing
           /\ q \in Knowing =>
                /\ [q EXCEPT !.pc = "carrier"] \in Knowing
                /\ [q EXCEPT !.pc = "import"] \in Knowing
                /\ [q EXCEPT !.pc = "find", !.hooks = FALSE] \in Knowing
           /\ q \in Typing => /\ [q EXCEPT !.pc = "read"] \in Typing
                              /\ q.kind # "page" => [q EXCEPT !.pc = "charge"] \in Ordering
           /\ \A p \in Plans : q \in Checking =>
                [q EXCEPT !.pc = "store", !.plan = p] \in Storing
  <1>1. q \in Finding => [q EXCEPT !.pc = "reset"] \in Finding
    BY Zenon DEF Finding
  <1>2. q \in Knowing => [q EXCEPT !.pc = "reset"] \in Knowing
    BY Zenon DEF Knowing
  <1>3. q \in Knowing => /\ [q EXCEPT !.pc = "carrier"] \in Knowing
                         /\ [q EXCEPT !.pc = "import"] \in Knowing
                         /\ [q EXCEPT !.pc = "find", !.hooks = FALSE] \in Knowing
    BY DEF Knowing
  <1>4. q \in Typing => [q EXCEPT !.pc = "read"] \in Typing
    BY DEF Typing
  <1>5. q \in Typing /\ q.kind # "page" => [q EXCEPT !.pc = "charge"] \in Ordering
    BY DEF Typing, Ordering, Kinds
  <1>6. \A p \in Plans : q \in Checking =>
          [q EXCEPT !.pc = "store", !.plan = p] \in Storing
    BY DEF Checking, Storing
  <1> QED
    BY <1>1, <1>2, <1>3, <1>4, <1>5, <1>6

-----------------------------------------------------------------------------
(* What a request may act on                                               *)

(* What BillReq asks, by how far the request has come.                     *)
LEMMA BillByStage ==
    ASSUME NEW q, NEW truth
    PROVE  /\ q.pc = "idle" => BillReq(q, truth)
           /\ (q.pc \in {"find", "reset", "recordScopes", "carrier", "import", "plan"}
               /\ Watched(q, truth)) => BillReq(q, truth)
           /\ (q.pc = "storeType" /\ q.confirm /\ Watched(q, truth) /\ Answered(q))
              => BillReq(q, truth)
           /\ (q.pc \in {"read", "check"}
               /\ (q.confirm => Watched(q, truth) /\ Answered(q))) => BillReq(q, truth)
           /\ (q.pc = "charge" /\ Watched(q, truth) /\ Answered(q)) => BillReq(q, truth)
           /\ (q.pc \in {"store", "served"} /\ (q.confirm => Vouched(q)))
              => BillReq(q, truth)
           /\ (q.pc = "charged" /\ q.test \in q.seen.dev) => BillReq(q, truth)
  BY Disjoint DEF BillReq

(* A change of what it does not look at does not matter.                   *)
LEMMA SameTruth ==
    ASSUME NEW q, NEW t, NEW u, BillReq(q, t), u.dev = t.dev, u.charges = t.charges
    PROVE  BillReq(q, u)
  BY DEF BillReq, Watched

(* A request that sees more keeps its stage and what it may act on.        *)
LEMMA SeesMoreTyped ==
    ASSUME NEW q \in Request, q # Idle, NEW n \in Seens
    PROVE  LET w == [q EXCEPT !.seen = n]
           IN  /\ q \in Finding \cup Knowing => w \in Finding \cup Knowing
               /\ q \in Typing => w \in Typing
               /\ q \in Ordering => w \in Ordering
               /\ q \in Checking => w \in Checking
               /\ q \in Storing => w \in Storing
               /\ q \in Serving => w \in Serving
               /\ q \in Charged => w \in Charged
               /\ w \in Request
  <1> DEFINE w == [q EXCEPT !.seen = n]
  <1>1. q \in Finding => w \in Finding
    BY Zenon DEF Finding
  <1>2. q \in Knowing => w \in Knowing
    BY Zenon DEF Knowing
  <1>3. q \in Typing => w \in Typing
    BY Zenon DEF Typing
  <1>4. q \in Ordering => w \in Ordering
    BY Zenon DEF Ordering
  <1>5. q \in Checking => w \in Checking
    BY Zenon DEF Checking
  <1>6. q \in Storing => w \in Storing
    BY Zenon DEF Storing
  <1>7. q \in Serving => w \in Serving
    BY Zenon DEF Serving
  <1>8. q \in Charged => w \in Charged
    BY Zenon DEF Charged
  <1> HIDE DEF w
  <1>9. q \in Finding \cup Knowing \cup Typing \cup Ordering \cup Checking
            \cup Storing \cup Serving \cup Charged
    BY DEF Request
  <1>10. w \in Request
    BY <1>1, <1>2, <1>3, <1>4, <1>5, <1>6, <1>7, <1>8, <1>9 DEF Request
  <1> QED
    BY <1>1, <1>2, <1>3, <1>4, <1>5, <1>6, <1>7, <1>8, <1>10 DEF w

LEMMA SeesMoreFields ==
    ASSUME NEW q \in Request, q # Idle, NEW n
    PROVE  LET w == [q EXCEPT !.seen = n]
           IN  /\ w.seen = n /\ w.pc = q.pc
               /\ q \in Typing \cup Ordering \cup Checking
                  => w.type = q.type /\ w.confirm = q.confirm
               /\ q \in Storing \cup Serving => w.plan = q.plan /\ w.confirm = q.confirm
               /\ q \in Charged => w.test = q.test
  BY DEF Request, Finding, Knowing, Typing, Ordering, Checking, Storing, Serving,
         Charged

LEMMA SeesMore ==
    ASSUME NEW q \in Request, q # Idle, NEW n \in Seens, NEW t, NEW u,
           q.seen.dev \cup {u.dev} \subseteq n.dev,
           q.seen.charges \cup u.charges \subseteq n.charges,
           BillReq(q, t)
    PROVE  BillReq([q EXCEPT !.seen = n], u)
  <1> DEFINE w == [q EXCEPT !.seen = n]
  <1>1. /\ w.seen = n /\ w.pc = q.pc
        /\ q \in Typing \cup Ordering \cup Checking
           => w.type = q.type /\ w.confirm = q.confirm
        /\ q \in Storing \cup Serving => w.plan = q.plan /\ w.confirm = q.confirm
        /\ q \in Charged => w.test = q.test
    BY SeesMoreFields, Zenon
  <1> HIDE DEF w
  <1>2. Watched(w, u)
    BY <1>1 DEF Watched
  <1>3. CASE q.pc = "idle"
    BY <1>1, <1>3, BillByStage DEF w
  <1>4. CASE q.pc \in {"find", "reset", "recordScopes", "carrier", "import", "plan"}
    BY <1>1, <1>2, <1>4, BillByStage DEF w
  <1>5. CASE q.pc \in {"storeType", "read", "charge", "check"}
    <2>1. q \in Typing \cup Ordering \cup Checking
      BY <1>5, RequestFields
    <2>2. Answered(q) => Answered(w)
      BY <1>1, <2>1 DEF Answered
    <2>3. q.pc = "storeType" => q.confirm /\ Answered(q)
      BY RequestFields DEF BillReq
    <2>4. q.pc \in {"read", "check"} /\ q.confirm => Answered(q)
      BY RequestFields DEF BillReq
    <2>5. q.pc = "charge" => Answered(q)
      BY RequestFields DEF BillReq
    <2>6. w.confirm = q.confirm
      BY <1>1, <2>1
    <2> QED
      BY <1>1, <1>2, <1>5, <2>2, <2>3, <2>4, <2>5, <2>6, BillByStage DEF w
  <1>6. CASE q.pc \in {"store", "served"}
    <2>1. q \in Storing \cup Serving
      BY <1>6, RequestFields
    <2>2. q.confirm => Vouched(q)
      BY <2>1 DEF BillReq
    <2>3. w.plan = q.plan /\ w.confirm = q.confirm
      BY <1>1, <2>1
    <2>4. Vouched(q) => Vouched(w)
      BY <1>1, <2>3 DEF Vouched
    <2> QED
      BY <1>1, <1>6, <2>2, <2>3, <2>4, BillByStage DEF w
  <1>7. CASE q.pc = "charged"
    <2>1. q \in Charged
      BY <1>7, RequestFields
    <2>2. w.test \in w.seen.dev
      BY <1>1, <2>1 DEF BillReq
    <2> QED
      BY <1>1, <1>7, <2>2, BillByStage DEF w
  <1>8. q.pc \in {"idle", "find", "reset", "recordScopes", "carrier", "import", "plan",
                  "storeType", "read", "charge", "check", "store", "served", "charged"}
    BY Disjoint DEF Request, Idle
  <1> QED
    BY <1>3, <1>4, <1>5, <1>6, <1>7, <1>8 DEF w

(* A request that saw nothing is sure of nothing.                          *)
LEMMA UnseenSure ==
    ASSUME NEW q, NEW t, NEW u, BillReq(q, t), q.seen = Unseen
    PROVE  BillReq(q, u)
  <1>1. ~Watched(q, t) /\ ~Answered(q)
    BY DEF Watched, Answered, Unseen
  <1> QED
    BY <1>1 DEF BillReq

-----------------------------------------------------------------------------
(* Type correctness, and that charges and plans are answered               *)

Core == TypeInv /\ BillInv

LEMMA CoreFields ==
    ASSUME Core
    PROVE  /\ store \in Truth /\ deliveries \in SUBSET Delivery
           /\ handler \in Handler /\ shop \in ShopRow /\ row \in Row
           /\ session \in BOOLEAN /\ gap \in BOOLEAN
           /\ request \in [Requests -> Request]
           /\ \A r \in Requests : request[r] \in Request /\ BillReq(request[r], store)
  BY DEF Core, TypeInv, BillInv

(* A step of one request.                                                  *)
LEMMA OneRequest ==
    ASSUME Core, NEW r \in Requests, NEW x \in Request, BillReq(x, store),
           request' = [request EXCEPT ![r] = x],
           store'.dev = store.dev, store'.charges = store.charges
    PROVE  request' \in [Requests -> Request] /\ BillInv'
  <1>1. request' \in [Requests -> Request]
    BY CoreFields
  <1>2. ASSUME NEW q \in Requests
        PROVE  BillReq(request'[q], store')
    <2>1. request'[q] = x \/ request'[q] = request[q]
      BY CoreFields
    <2>2. BillReq(request'[q], store)
      BY <2>1, CoreFields
    <2> QED
      BY <2>2, SameTruth
  <1> QED
    BY <1>1, <1>2 DEF BillInv

LEMMA CoreSame ==
    ASSUME Core, UNCHANGED <<store, request>>, deliveries' \in SUBSET Delivery,
           handler' \in Handler, shop' \in ShopRow, row' \in Row,
           session' \in BOOLEAN, gap' \in BOOLEAN
    PROVE  Core'
  BY CoreFields, Zenon DEF Core, TypeInv, BillInv

LEMMA CoreMoves ==
    ASSUME Core, NEW r \in Requests, NEW x \in Request, BillReq(x, store),
           request' = [request EXCEPT ![r] = x], store' = store,
           UNCHANGED <<deliveries, handler, gap>>,
           shop' \in ShopRow, row' \in Row, session' \in BOOLEAN
    PROVE  Core'
  <1>1. request' \in [Requests -> Request] /\ BillInv'
    BY OneRequest, Zenon
  <1> QED
    BY <1>1, CoreFields, Zenon DEF Core, TypeInv

LEMMA SeenOfNow ==
    ASSUME Core
    PROVE  /\ Seen \in Seens /\ Seen.dev = {store.dev} /\ Seen.charges = store.charges
           /\ Unseen \in Seens
  BY CoreFields, TruthFields DEF Seen, Seens, Unseen

LEMMA CoreBecomes ==
    ASSUME Core, NEW new \in Truth, NEW news \in SUBSET Delivery, Becomes(new, news),
           gap' \in BOOLEAN
    PROVE  Core'
  <1>1. ASSUME NEW r \in Requests
        PROVE  request'[r] \in Request /\ BillReq(request'[r], new)
    <2> DEFINE q == request[r]
               n == [dev |-> q.seen.dev \cup {new.dev},
                     charges |-> q.seen.charges \cup new.charges]
    <2>1. q \in Request /\ BillReq(q, store)
      BY CoreFields
    <2>2. request'[r] = IF q = Idle \/ q.seen = Unseen THEN q
                        ELSE [q EXCEPT !.seen = n]
      BY DEF Becomes, Watch
    <2>3. CASE q = Idle
      <3>1. request'[r] = q
        BY <2>2, <2>3
      <3>2. q.pc = "idle"
        BY <2>3 DEF Idle
      <3> QED
        BY <2>1, <3>1, <3>2, BillByStage
    <2>4. CASE q # Idle /\ q.seen = Unseen
      <3>1. request'[r] = q
        BY <2>2, <2>4
      <3> QED
        BY <2>1, <2>4, <3>1, UnseenSure
    <2>5. CASE q # Idle /\ q.seen # Unseen
      <3>1. q.seen \in Seens
        BY <2>1, <2>5 DEF Request, Finding, Knowing, Typing, Ordering, Checking,
                          Storing, Serving, Charged
      <3>2. n \in Seens
        BY <3>1, TruthFields DEF Seens
      <3>3. n.dev = q.seen.dev \cup {new.dev}
            /\ n.charges = q.seen.charges \cup new.charges
        OBVIOUS
      <3>4. request'[r] = [q EXCEPT !.seen = n]
        BY <2>2, <2>5, Zenon
      <3> HIDE DEF q, n
      <3>5. [q EXCEPT !.seen = n] \in Request
        BY <2>1, <2>5, <3>2, SeesMoreTyped
      <3>6. BillReq([q EXCEPT !.seen = n], new)
        BY <2>1, <2>5, <3>2, <3>3, SeesMore
      <3> QED
        BY <3>4, <3>5, <3>6
    <2> QED
      BY <2>3, <2>4, <2>5
  <1>2. request' \in [Requests -> Request]
    BY <1>1 DEF Becomes, Watch
  <1>3. store' = new /\ deliveries' \in SUBSET Delivery
    BY CoreFields DEF Becomes
  <1>4. BillInv'
    BY <1>1, <1>3 DEF BillInv
  <1> QED
    BY <1>2, <1>3, <1>4, CoreFields DEF Core, TypeInv, Becomes

LEMMA DeliveryTypes ==
    /\ \A t \in {"shop", "uninstalled", "redact"} : [topic |-> t] \in Delivery
    /\ \A b \in BOOLEAN : [topic |-> "scopes", reports |-> b] \in Delivery
    /\ \A p \in Plans, b \in BOOLEAN :
         [topic |-> "subscription", plan |-> p, active |-> b] \in Delivery
  BY DEF Delivery

(* Shopify and the merchant.                                               *)
LEMMA HappensCore ==
    ASSUME Core, Happens
    PROVE  Core'
  <1> USE CoreFields, TruthFields
  <1>1. CASE Convert
    <2>1. [store EXCEPT !.dev = FALSE] \in Truth
      BY TruthWrites
    <2>2. {[topic |-> "shop"]} \in SUBSET Delivery
      BY DeliveryTypes
    <2>3. Becomes([store EXCEPT !.dev = FALSE], {[topic |-> "shop"]}) /\ gap' = gap
      BY <1>1 DEF Convert
    <2> QED
      BY <2>1, <2>2, <2>3, CoreBecomes
  <1>2. CASE Regrant
    <2> DEFINE new  == [store EXCEPT !.reports = ~store.reports]
               news == {[topic |-> "scopes", reports |-> ~store.reports]}
    <2>1. new \in Truth
      BY TruthWrites
    <2>2. news \in SUBSET Delivery
      BY DeliveryTypes
    <2>3. Becomes(new, news) /\ gap' = gap
      BY <1>2 DEF Regrant
    <2> QED
      BY <2>1, <2>2, <2>3, CoreBecomes
  <1>3. CASE Approve
    <2> DEFINE new  == [store EXCEPT !.charges = store.asked, !.asked = {}]
               news == {[topic |-> "subscription", plan |-> PlanOf[c.name],
                         active |-> TRUE] : c \in store.asked}
                       \cup {[topic |-> "subscription", plan |-> PlanOf[c.name],
                              active |-> FALSE] : c \in store.charges}
    <2>1. new \in Truth
      BY TruthWrites
    <2>2. \A c \in Charges : PlanOf[c.name] \in Plans
      BY PlansOfNames DEF Charges, Names
    <2>3. news \in SUBSET Delivery
      BY <2>2, DeliveryTypes
    <2>4. Becomes(new, news) /\ gap' = gap
      BY <1>3, Zenon DEF Approve
    <2> HIDE DEF new, news
    <2> QED
      BY <2>1, <2>3, <2>4, CoreBecomes
  <1>4. CASE Uninstall
    <2> DEFINE new == [store EXCEPT !.installed = FALSE, !.charges = {}, !.asked = {}]
    <2>1. new \in Truth
      BY TruthWrites
    <2>2. {[topic |-> "uninstalled"]} \in SUBSET Delivery
      BY DeliveryTypes
    <2>3. Becomes(new, {[topic |-> "uninstalled"]}) /\ gap' = TRUE
      BY <1>4 DEF Uninstall
    <2> HIDE DEF new
    <2> QED
      BY <2>1, <2>2, <2>3, CoreBecomes
  <1>5. CASE Reinstall
    <2>1. [store EXCEPT !.installed = TRUE] \in Truth
      BY TruthWrites
    <2>2. Becomes([store EXCEPT !.installed = TRUE], {}) /\ gap' = gap
      BY <1>5 DEF Reinstall
    <2> QED
      BY <2>1, <2>2, CoreBecomes
  <1>6. CASE AskRedact
    <2>1. {[topic |-> "redact"]} \in SUBSET Delivery
      BY DeliveryTypes
    <2>2. Becomes(store, {[topic |-> "redact"]}) /\ gap' = gap
      BY <1>6 DEF AskRedact
    <2> QED
      BY <2>1, <2>2, CoreBecomes
  <1>7. CASE LoseDelivery
    <2>1. deliveries' \in SUBSET Delivery
      BY <1>7 DEF LoseDelivery
    <2>2. UNCHANGED <<store, handler, shop, session, row, request, gap>>
      BY <1>7 DEF LoseDelivery
    <2> QED
      BY <2>1, <2>2, CoreSame
  <1> QED
    BY <1>1, <1>2, <1>3, <1>4, <1>5, <1>6, <1>7 DEF Happens

(* Deliveries.                                                             *)
LEMMA HandlerFields ==
    ASSUME NEW h \in Handler, h # Free
    PROVE  h.step \in 1 .. 4 /\ h.delivery \in Delivery
  BY DEF Handler

LEMMA DeliveryFields ==
    ASSUME NEW d \in Delivery
    PROVE  /\ d.topic \in {"shop", "scopes", "subscription", "uninstalled", "redact"}
           /\ d.topic = "scopes" => d.reports \in BOOLEAN
           /\ d.topic = "subscription" => d.plan \in Plans /\ d.active \in BOOLEAN
           /\ d.topic = "uninstalled" => d = Removed
           /\ d = Removed => d.topic = "uninstalled"
  BY DEF Delivery, Removed

LEMMA NewHandler ==
    /\ Free \in Handler /\ Free.step = 0
    /\ \A n \in 1 .. 4, d \in Delivery : [step |-> n, delivery |-> d] \in Handler
    /\ \A h \in Handler : h # Free => \A n \in 1 .. 4 : [h EXCEPT !.step = n] \in Handler
  BY DEF Handler, Free

LEMMA TakeCore ==
    ASSUME Core, NEW d \in deliveries, Take(d)
    PROVE  Core'
  <1> USE CoreFields
  <1>1. d \in Delivery /\ deliveries' \in SUBSET Delivery
    BY DEF Take
  <1>2. handler' = Free \/ handler' = [step |-> 1, delivery |-> d]
    BY DEF Take
  <1>3. handler' \in Handler
    BY <1>1, <1>2, NewHandler
  <1>4. UNCHANGED <<store, shop, session, row, request, gap>>
    BY DEF Take
  <1> QED
    BY <1>1, <1>3, <1>4, CoreSame

LEMMA ProcessCore ==
    ASSUME Core, Process
    PROVE  Core'
  <1> USE CoreFields
  <1>1. handler # Free /\ handler.step \in 1 .. 4 /\ handler.delivery \in Delivery
    <2>1. handler # Free
      BY DEF Process, ShopUpdated, ScopesUpdated, SubscriptionUpdated, AppUninstalled,
             ShopRedacted, Now
    <2> QED
      BY <2>1, HandlerFields
  <1>2. handler' \in Handler
    <2>1. handler' = Free \/ handler' = [handler EXCEPT !.step = handler.step + 1]
      BY DEF Process
    <2>2. handler' # Free => handler.step # LastStep[handler.delivery.topic]
      BY DEF Process
    <2>3. handler.step = 4 => handler.delivery.topic = "uninstalled"
      BY <1>1 DEF Process, ShopUpdated, ScopesUpdated, SubscriptionUpdated,
                  AppUninstalled, ShopRedacted, Now
    <2>4. handler' # Free => handler.step + 1 \in 1 .. 4
      BY <1>1, <2>2, <2>3 DEF LastStep
    <2> QED
      BY <1>1, <2>1, <2>4, NewHandler
  <1>3. shop' \in ShopRow /\ row' \in Row /\ session' \in BOOLEAN
    <2> DEFINE d == handler.delivery
    <2>1. d \in Delivery /\ "none" \in Plans /\ "unknown" \in Types
      BY <1>1 DEF Plans, Rank, Types
    <2> HIDE DEF d
    <2>2. CASE ShopUpdated
      BY <2>1, <2>2, ShopWrites DEF ShopUpdated
    <2>3. CASE ScopesUpdated
      <3>1. d.reports \in BOOLEAN
        BY <2>1, <2>3, DeliveryFields DEF ScopesUpdated, Now, d
      <3>2. \/ shop' = [shop EXCEPT !.reports = d.reports]
            \/ shop' = [shop EXCEPT !.carrier = "CONNECTED"]
            \/ shop' = [shop EXCEPT !.carrier = "DISCONNECTED"]
        BY <2>3 DEF ScopesUpdated, d
      <3>3. shop' \in ShopRow
        BY <3>1, <3>2, ShopWrites
      <3> QED
        BY <2>3, <3>3 DEF ScopesUpdated
    <2>4. CASE SubscriptionUpdated
      <3> DEFINE plan == IF d.active THEN d.plan ELSE "none"
      <3>1. plan \in Plans
        BY <2>1, <2>4, DeliveryFields DEF SubscriptionUpdated, Now, d
      <3>2. \/ row' = [row EXCEPT !.plan = plan, !.fresh = TRUE]
            \/ row' = [row EXCEPT !.events = row.events \cup {d}]
        BY <2>4 DEF SubscriptionUpdated, d
      <3> HIDE DEF plan
      <3>3. row' \in Row
        BY <2>1, <3>1, <3>2, RowWrites
      <3> QED
        BY <2>4, <3>3 DEF SubscriptionUpdated
    <2>5. CASE AppUninstalled
      <3>1. shop' = shop \/ shop' = [shop EXCEPT !.gone = shop.exists]
        BY <2>5 DEF AppUninstalled
      <3>2. \/ row' = row \/ row' = [row EXCEPT !.plan = "none", !.fresh = TRUE]
            \/ row' = [row EXCEPT !.meter = "suspended"]
        BY <2>5 DEF AppUninstalled
      <3>3. shop' \in ShopRow
        BY <3>1, ShopWrites, ShopFields
      <3>4. row' \in Row
        BY <2>1, <3>2, RowWrites
      <3> QED
        BY <2>5, <3>3, <3>4 DEF AppUninstalled
    <2>6. CASE ShopRedacted
      <3>1. [plan |-> "none", fresh |-> FALSE, events |-> {},
             meter |-> "under_limit"] \in Row
        BY <2>1 DEF Row
      <3> QED
        BY <2>6, <3>1, NoShopTyped DEF ShopRedacted
    <2> QED
      BY <2>2, <2>3, <2>4, <2>5, <2>6 DEF Process
  <1>4. UNCHANGED <<store, deliveries, request, gap>>
    BY DEF Process
  <1> QED
    BY <1>2, <1>3, <1>4, CoreSame

LEMMA ProcessFailsCore ==
    ASSUME Core, ProcessFails
    PROVE  Core'
  <1> USE CoreFields
  <1>1. handler.delivery \in Delivery
    BY HandlerFields DEF ProcessFails
  <1>2. deliveries' \in SUBSET Delivery /\ handler' \in Handler
    BY <1>1, NewHandler DEF ProcessFails
  <1>3. UNCHANGED <<store, shop, session, row, request, gap>>
    BY DEF ProcessFails
  <1> QED
    BY <1>2, <1>3, CoreSame

(* The meter, time, and the end of an import.                              *)
LEMMA BackgroundCore ==
    ASSUME Core, MeterOrder \/ Age \/ ImportStep
    PROVE  Core'
  <1> USE CoreFields
  <1>1. CASE MeterOrder
    <2>1. row' \in Row
      BY <1>1, RowWrites DEF MeterOrder
    <2> QED
      BY <1>1, <2>1, CoreSame DEF MeterOrder
  <1>2. CASE Age
    <2>1. row' \in Row
      BY <1>2, RowWrites DEF Age
    <2> QED
      BY <1>2, <2>1, CoreSame DEF Age
  <1>3. CASE ImportStep
    <2>1. TypeName(store.dev) \in {"dev", "paid"} /\ {"dev", "paid"} \subseteq Types
      BY DEF TypeName, Types
    <2>2. shop' \in ShopRow /\ gap' \in BOOLEAN
      BY <1>3, <2>1, ShopWrites DEF ImportStep, ImportAsks, ImportStoresType, ImportEnds, Elsewhere
    <2> QED
      BY <1>3, <2>2, CoreSame DEF ImportStep, ImportAsks, ImportStoresType, ImportEnds, Elsewhere
  <1> QED
    BY <1>1, <1>2, <1>3

(* The steps of a request.                                                 *)
LEMMA KnowsRequest ==
    ASSUME NEW q \in Finding \cup Knowing, NEW known \in ShopRow,
           NEW c \in {"recordScopes", "plan"}, NEW t, Watched(q, t)
    PROVE  LET x == [pc |-> c, kind |-> q.kind, hooks |-> q.hooks, scope |-> q.scope,
                     seen |-> q.seen, confirm |-> FALSE, type |-> known.type,
                     sync |-> known.sync]
           IN  x \in Request /\ BillReq(x, t)
  <1> DEFINE x == [pc |-> c, kind |-> q.kind, hooks |-> q.hooks, scope |-> q.scope,
                   seen |-> q.seen, confirm |-> FALSE, type |-> known.type,
                   sync |-> known.sync]
  <1>1. /\ q.kind \in Kinds /\ q.hooks \in BOOLEAN /\ q.scope \in BOOLEAN
        /\ q.seen \in Seens
    BY DEF Finding, Knowing
  <1>2. x \in Knowing
    BY <1>1, ShopFields DEF Knowing
  <1>3. x.pc = c /\ x.seen = q.seen
    OBVIOUS
  <1> HIDE DEF x
  <1>4. BillReq(x, t)
    BY <1>3, BillByStage DEF Watched
  <1> QED
    BY <1>2, <1>4 DEF x, Request

LEMMA IdleRequest == Idle \in Request /\ \A t : BillReq(Idle, t)
  <1>1. Idle.pc = "idle"
    BY DEF Idle
  <1> QED
    BY <1>1, BillByStage DEF Request

LEMMA OpenCore ==
    ASSUME Core, NEW r \in Requests, NEW kind \in Kinds, Open(r, kind)
    PROVE  Core'
  <1> USE CoreFields
  <1> DEFINE x == [pc |-> "find", kind |-> kind, hooks |-> ~session,
                   scope |-> store.reports, seen |-> Seen, confirm |-> FALSE]
  <1>1. x \in Finding
    BY TruthFields, SeenOfNow DEF Finding
  <1>2. x.pc = "find" /\ x.seen = Seen
    OBVIOUS
  <1>3. request' = [request EXCEPT ![r] = x] /\ store' = store /\ session' = TRUE
        /\ UNCHANGED <<deliveries, handler, gap, shop, row>>
    BY DEF Open
  <1> HIDE DEF x
  <1>4. BillReq(x, store)
    BY <1>2, SeenOfNow, BillByStage DEF Watched
  <1>5. x \in Request
    BY <1>1 DEF Request
  <1> QED
    BY <1>3, <1>4, <1>5, CoreMoves

LEMMA EndsCore ==
    ASSUME Core, NEW r \in Requests, Ends(r), UNCHANGED <<store, deliveries, handler, gap>>,
           UNCHANGED <<shop, row, session>>
    PROVE  Core'
  BY CoreFields, IdleRequest, CoreMoves DEF Ends

LEMMA FindShopCore ==
    ASSUME Core, NEW r \in Requests, FindShop(r)
    PROVE  Core'
  <1> USE CoreFields
  <1> DEFINE q == request[r]
  <1>1. q \in Finding \cup Knowing /\ Watched(q, store)
    BY RequestFields DEF FindShop, At, BillReq
  <1>2. After(r) \in {"recordScopes", "plan"}
    BY DEF After
  <1>3. /\ UNCHANGED <<session, row>>
        /\ UNCHANGED <<store, deliveries, handler, gap>>
    BY DEF FindShop, Elsewhere
  <1>4. CASE ~shop.exists
    <2>1. shop' = [NoShop EXCEPT !.exists = TRUE] /\ Knows(r, After(r), NoShop)
      BY <1>4 DEF FindShop
    <2> DEFINE x == [pc |-> After(r), kind |-> q.kind, hooks |-> q.hooks,
                     scope |-> q.scope, seen |-> q.seen, confirm |-> FALSE,
                     type |-> NoShop.type, sync |-> NoShop.sync]
    <2>2. x \in Request /\ BillReq(x, store)
      BY <1>1, <1>2, KnowsRequest, NoShopTyped
    <2>3. request' = [request EXCEPT ![r] = x]
      BY <2>1 DEF Knows
    <2> HIDE DEF x
    <2> QED
      BY <1>3, <2>1, <2>2, <2>3, CoreMoves, NoShopTyped
  <1>5. CASE shop.exists /\ shop.gone
    <2>1. Go(r, "reset") /\ UNCHANGED shop
      BY <1>5 DEF FindShop
    <2> DEFINE x == [q EXCEPT !.pc = "reset"]
    <2>2. x \in Finding \cup Knowing
      BY <1>1, RequestWrites
    <2>3. x.pc = "reset" /\ x.seen = q.seen
      BY <1>1 DEF Finding, Knowing
    <2>4. request' = [request EXCEPT ![r] = x]
      BY <2>1 DEF Go
    <2> HIDE DEF x, q
    <2>5. BillReq(x, store)
      BY <1>1, <2>3, BillByStage DEF Watched
    <2>6. x \in Request
      BY <2>2 DEF Request
    <2> QED
      BY <1>3, <2>1, <2>4, <2>5, <2>6, CoreMoves
  <1>6. CASE shop.exists /\ ~shop.gone
    <2>1. shop' = shop /\ Knows(r, After(r), shop)
      BY <1>6 DEF FindShop
    <2> DEFINE x == [pc |-> After(r), kind |-> q.kind, hooks |-> q.hooks,
                     scope |-> q.scope, seen |-> q.seen, confirm |-> FALSE,
                     type |-> shop.type, sync |-> shop.sync]
    <2>2. x \in Request /\ BillReq(x, store)
      BY <1>1, <1>2, KnowsRequest
    <2>3. request' = [request EXCEPT ![r] = x]
      BY <2>1 DEF Knows
    <2> HIDE DEF x
    <2> QED
      BY <1>3, <2>1, <2>2, <2>3, CoreMoves
  <1> QED
    BY <1>4, <1>5, <1>6, ShopFields

LEMMA ResetShopCore ==
    ASSUME Core, NEW r \in Requests, ResetShop(r)
    PROVE  Core'
  <1> USE CoreFields
  <1> DEFINE q == request[r]
  <1>1. q \in Finding \cup Knowing /\ Watched(q, store)
    BY RequestFields DEF ResetShop, At, BillReq
  <1>2. After(r) \in {"recordScopes", "plan"}
    BY DEF After
  <1>3. /\ UNCHANGED <<session, row>>
        /\ UNCHANGED <<store, deliveries, handler, gap>>
    BY DEF ResetShop, Elsewhere
  <1>4. CASE shop.exists
    <2>1. shop' = Reinstated(shop) /\ Knows(r, After(r), shop')
      BY <1>4, Zenon DEF ResetShop
    <2>2. shop' \in ShopRow
      BY <2>1, ShopWrites
    <2> DEFINE x == [pc |-> After(r), kind |-> q.kind, hooks |-> q.hooks,
                     scope |-> q.scope, seen |-> q.seen, confirm |-> FALSE,
                     type |-> (shop').type, sync |-> (shop').sync]
    <2>3. x \in Request /\ BillReq(x, store)
      BY <1>1, <1>2, <2>2, KnowsRequest
    <2>4. request' = [request EXCEPT ![r] = x]
      BY <2>1 DEF Knows
    <2> HIDE DEF x
    <2> QED
      BY <1>3, <2>2, <2>3, <2>4, CoreMoves
  <1>5. CASE ~shop.exists
    BY <1>3, <1>5, EndsCore DEF ResetShop
  <1> QED
    BY <1>4, <1>5

(* A request that goes on to know nothing new.                             *)
LEMMA HooksCore ==
    ASSUME Core, NEW r \in Requests, RecordScopes(r) \/ SynchroniseCarrier(r)
    PROVE  Core'
  <1> USE CoreFields
  <1> DEFINE q == request[r]
  <1>1. q \in Knowing /\ Watched(q, store)
    BY RequestFields DEF RecordScopes, SynchroniseCarrier, At, BillReq
  <1>2. /\ UNCHANGED <<session, row>>
        /\ UNCHANGED <<store, deliveries, handler, gap>>
    BY DEF RecordScopes, SynchroniseCarrier, Elsewhere
  <1>3. CASE ~shop.exists
    BY <1>2, <1>3, EndsCore DEF RecordScopes, SynchroniseCarrier
  <1>4. CASE shop.exists
    <2>1. q.scope \in BOOLEAN
      BY <1>1 DEF Knowing
    <2>2. \/ shop' = [shop EXCEPT !.reports = q.scope]
          \/ shop' = [shop EXCEPT !.carrier = "CONNECTED"]
          \/ shop' = [shop EXCEPT !.carrier = "DISCONNECTED"]
      BY <1>4 DEF RecordScopes, SynchroniseCarrier
    <2>3. shop' \in ShopRow
      BY <2>1, <2>2, ShopWrites
    <2>4. PICK c \in {"carrier", "import"} : Go(r, c)
      BY <1>4 DEF RecordScopes, SynchroniseCarrier
    <2> DEFINE x == [q EXCEPT !.pc = c]
    <2>5. x \in Knowing
      BY <1>1, RequestWrites
    <2>6. x.pc = c /\ x.seen = q.seen
      BY <1>1 DEF Knowing
    <2>7. request' = [request EXCEPT ![r] = x]
      BY <2>4 DEF Go
    <2> HIDE DEF x, q
    <2>8. BillReq(x, store)
      BY <1>1, <2>6, BillByStage DEF Watched
    <2>9. x \in Request
      BY <2>5 DEF Request
    <2> QED
      BY <1>2, <2>3, <2>7, <2>8, <2>9, CoreMoves
  <1> QED
    BY <1>3, <1>4

LEMMA StartImportCore ==
    ASSUME Core, NEW r \in Requests, StartImport(r)
    PROVE  Core'
  <1> USE CoreFields
  <1> DEFINE q == request[r]
             x == [q EXCEPT !.pc = "find", !.hooks = FALSE]
  <1>1. q \in Knowing /\ Watched(q, store)
    BY RequestFields DEF StartImport, At, BillReq
  <1>2. /\ UNCHANGED <<session, row>>
        /\ UNCHANGED <<store, deliveries, handler, gap>>
    BY DEF StartImport, Elsewhere
  <1>3. shop' \in ShopRow
    BY ShopWrites DEF StartImport
  <1>4. x \in Knowing
    BY <1>1, RequestWrites
  <1>5. x.pc = "find" /\ x.seen = q.seen
    BY <1>1 DEF Knowing
  <1>6. request' = [request EXCEPT ![r] = x]
    BY DEF StartImport
  <1> HIDE DEF x, q
  <1>7. BillReq(x, store)
    BY <1>1, <1>5, BillByStage DEF Watched
  <1>8. x \in Request
    BY <1>4 DEF Request
  <1> QED
    BY <1>2, <1>3, <1>6, <1>7, <1>8, CoreMoves

LEMMA AskStoreCore ==
    ASSUME Core, NEW r \in Requests, AskStore(r)
    PROVE  Core'
  <1> USE CoreFields
  <1> DEFINE q == request[r]
             x == [pc |-> "storeType", kind |-> q.kind, seen |-> q.seen,
                   confirm |-> TRUE, type |-> TypeName(store.dev)]
  <1>1. q \in Knowing /\ Watched(q, store)
    BY RequestFields DEF AskStore, At, BillReq
  <1>2. x \in Typing
    BY <1>1, TruthFields, TypeNames DEF Knowing, Typing
  <1>3. /\ x.pc = "storeType" /\ x.seen = q.seen /\ x.confirm
        /\ x.type = TypeName(store.dev)
    OBVIOUS
  <1>4. /\ request' = [request EXCEPT ![r] = x]
        /\ UNCHANGED <<shop, session, row, store, deliveries, handler, gap>>
    BY DEF AskStore, Elsewhere
  <1> HIDE DEF x, q
  <1>5. BillReq(x, store)
    BY <1>1, <1>3, BillByStage DEF Watched, Answered
  <1>6. x \in Request
    BY <1>2 DEF Request
  <1> QED
    BY <1>4, <1>5, <1>6, CoreMoves

LEMMA TypeFailsCore ==
    ASSUME Core, NEW r \in Requests, TypeFails(r) \/ Close(r)
    PROVE  Core'
  BY EndsCore DEF TypeFails, Close, Elsewhere

LEMMA StoreTypeCore ==
    ASSUME Core, NEW r \in Requests, StoreType(r)
    PROVE  Core'
  <1> USE CoreFields
  <1> DEFINE q == request[r]
  <1>1. q \in Typing /\ q.confirm /\ Watched(q, store) /\ Answered(q)
    BY RequestFields DEF StoreType, At, BillReq
  <1>2. UNCHANGED <<session, row, store, deliveries, handler, gap>>
    BY DEF StoreType, Elsewhere
  <1>3. CASE ~shop.exists
    BY <1>2, <1>3, EndsCore DEF StoreType
  <1>4. CASE shop.exists
    <2>1. shop' = [shop EXCEPT !.type = q.type]
      BY <1>4 DEF StoreType
    <2>2. shop' \in ShopRow
      BY <1>1, <2>1, ShopWrites DEF Typing
    <2>3. PICK c \in {"read", "charge"} : Go(r, c) /\ (c = "charge" => q.kind # "page")
      BY <1>4 DEF StoreType
    <2> DEFINE x == [q EXCEPT !.pc = c]
    <2>4. x \in Typing \cup Ordering
      BY <1>1, <2>3, RequestWrites
    <2>5. x.pc = c /\ x.seen = q.seen /\ x.confirm = q.confirm /\ x.type = q.type
      BY <1>1 DEF Typing
    <2>6. request' = [request EXCEPT ![r] = x]
      BY <2>3 DEF Go
    <2> HIDE DEF x, q
    <2>7. Watched(x, store) /\ Answered(x)
      BY <1>1, <2>5 DEF Watched, Answered
    <2>8. BillReq(x, store)
      BY <2>5, <2>7, BillByStage
    <2>9. x \in Request
      BY <2>4 DEF Request
    <2> QED
      BY <1>2, <2>2, <2>6, <2>8, <2>9, CoreMoves
  <1> QED
    BY <1>3, <1>4

(* Only a page goes by the type that is stored.                            *)
LEMMA KnowTypeCore ==
    ASSUME Core, NEW r \in Requests, KnowType(r)
    PROVE  Core'
  <1> USE CoreFields
  <1> DEFINE q == request[r]
             x == [pc |-> "read", kind |-> "page", confirm |-> FALSE, type |-> q.type,
                   seen |-> Unseen]
  <1>1. q \in Knowing
    BY RequestFields DEF KnowType, At
  <1>2. q.kind = "page"
    BY DEF KnowType, MustAsk
  <1>3. x \in Typing
    BY <1>1, SeenOfNow DEF Knowing, Typing, Kinds
  <1>4. x.pc = "read" /\ ~x.confirm
    OBVIOUS
  <1>5. /\ request' = [request EXCEPT ![r] = x]
        /\ UNCHANGED <<shop, session, row, store, deliveries, handler, gap>>
    BY <1>2 DEF KnowType, Elsewhere
  <1> HIDE DEF x, q
  <1>6. BillReq(x, store)
    BY <1>4, BillByStage
  <1>7. x \in Request
    BY <1>3 DEF Request
  <1> QED
    BY <1>5, <1>6, <1>7, CoreMoves

(* A plan is served: trusted as stored, or vouched for.                    *)
LEMMA ServesCore ==
    ASSUME Core, NEW r \in Requests, NEW p \in Plans, Serves(r, p),
           request[r].seen \in Seens, request[r].confirm \in BOOLEAN,
           request[r].confirm =>
             p = "none" \/ (p = request[r].plan /\ Vouched(request[r])),
           UNCHANGED <<store, deliveries, handler, gap>>,
           shop' \in ShopRow, row' \in Row, session' \in BOOLEAN
    PROVE  Core'
  <1> USE CoreFields
  <1> DEFINE q == request[r]
             x == [pc |-> "served", seen |-> q.seen, confirm |-> q.confirm, plan |-> p]
  <1>1. x \in Serving
    BY DEF Serving
  <1>2. x.pc = "served" /\ x.seen = q.seen /\ x.confirm = q.confirm /\ x.plan = p
    OBVIOUS
  <1>3. request' = [request EXCEPT ![r] = x]
    BY DEF Serves
  <1>4. q.confirm => p = "none" \/ (p = q.plan /\ Vouched(q))
    OBVIOUS
  <1> HIDE DEF x, q
  <1>5. BillReq(x, store)
    BY <1>2, <1>4, BillByStage DEF Vouched
  <1>6. x \in Request
    BY <1>1 DEF Request
  <1> QED
    BY <1>3, <1>5, <1>6, CoreMoves

LEMMA ReadSubscriptionCore ==
    ASSUME Core, NEW r \in Requests, ReadSubscription(r)
    PROVE  Core'
  <1> USE CoreFields
  <1> DEFINE q == request[r]
  <1>1. q \in Typing /\ q.pc = "read"
    BY RequestFields DEF ReadSubscription, At
  <1>2. q.confirm => Watched(q, store) /\ Answered(q)
    BY <1>1 DEF BillReq
  <1>3. UNCHANGED <<shop, session, row, store, deliveries, handler, gap>>
    BY DEF ReadSubscription, Elsewhere
  <1>4. row.plan \in Plans
    BY DEF Row
  <1>5. CASE Trusts(r)
    <2>1. Serves(r, row.plan)
      BY <1>5 DEF ReadSubscription
    <2>2. q.seen \in Seens /\ q.confirm \in BOOLEAN /\ ~q.confirm
      BY <1>1, <1>5 DEF Typing, Trusts
    <2> QED
      BY <1>3, <1>4, <2>1, <2>2, ServesCore
  <1>6. CASE ~Trusts(r)
    <2> DEFINE x == [pc |-> "check", seen |-> q.seen, confirm |-> q.confirm,
                     type |-> q.type, plan |-> row.plan]
    <2>1. x \in Checking
      BY <1>1, <1>4 DEF Typing, Checking
    <2>2. x.pc = "check" /\ x.seen = q.seen /\ x.confirm = q.confirm /\ x.type = q.type
      OBVIOUS
    <2>3. request' = [request EXCEPT ![r] = x]
      BY <1>6 DEF ReadSubscription
    <2> HIDE DEF x, q
    <2>4. x.confirm => Watched(x, store) /\ Answered(x)
      BY <1>2, <2>2 DEF Watched, Answered
    <2>5. BillReq(x, store)
      BY <2>2, <2>4, BillByStage
    <2>6. x \in Request
      BY <2>1 DEF Request
    <2> QED
      BY <1>3, <2>3, <2>5, <2>6, CoreMoves
  <1> QED
    BY <1>5, <1>6

(* What billing.check answers is vouched for by what the request saw.      *)
LEMMA CheckBillingCore ==
    ASSUME Core, NEW r \in Requests, CheckBilling(r)
    PROVE  Core'
  <1> USE CoreFields
  <1> DEFINE q == request[r]
             p == BestOf(store.charges, q.type = "dev")
             x == [q EXCEPT !.pc = "store", !.plan = p]
  <1>1. q \in Checking
    BY RequestFields DEF CheckBilling, At
  <1>2. q.confirm => Watched(q, store) /\ Answered(q)
    BY <1>1 DEF BillReq
  <1>3. /\ p \in Plans
        /\ \/ p = "none"
           \/ \E c \in store.charges : PlanOf[c.name] = p /\ (c.test => q.type = "dev")
    BY BestOfCharges, TruthFields
  <1>4. /\ request' = [request EXCEPT ![r] = x]
        /\ UNCHANGED <<shop, session, row, store, deliveries, handler, gap>>
    BY DEF CheckBilling, Elsewhere
  <1> HIDE DEF p
  <1>5. x \in Storing
    BY <1>1, <1>3, RequestWrites
  <1>6. x.pc = "store" /\ x.seen = q.seen /\ x.confirm = q.confirm /\ x.plan = p
    BY <1>1 DEF Checking
  <1>7. q.seen.dev \subseteq BOOLEAN
    BY <1>1 DEF Checking, Seens
  <1> HIDE DEF x, q
  <1>8. ASSUME x.confirm
        PROVE  Vouched(x)
    <2>1. Watched(q, store) /\ Answered(q)
      BY <1>2, <1>6, <1>8
    <2>2. q.type = "dev" => TRUE \in q.seen.dev
      BY <1>7, <2>1, TypeNames DEF Answered
    <2>3. store.charges \subseteq q.seen.charges
      BY <2>1 DEF Watched
    <2> QED
      BY <1>3, <1>6, <2>2, <2>3 DEF Vouched
  <1>9. BillReq(x, store)
    BY <1>6, <1>8, BillByStage
  <1>10. x \in Request
    BY <1>5 DEF Request
  <1> QED
    BY <1>4, <1>9, <1>10, CoreMoves

LEMMA CheckFailsCore ==
    ASSUME Core, NEW r \in Requests, CheckFails(r)
    PROVE  Core'
  <1> USE CoreFields
  <1> DEFINE q == request[r]
             p == IF q.confirm THEN "none" ELSE q.plan
  <1>1. q \in Checking
    BY RequestFields DEF CheckFails, At
  <1>2. UNCHANGED <<shop, session, row, store, deliveries, handler, gap>>
    BY DEF CheckFails
  <1>3. q.seen \in Seens /\ q.confirm \in BOOLEAN /\ p \in Plans
    BY <1>1 DEF Checking, Plans, Rank
  <1>4. Serves(r, p) /\ (q.confirm => p = "none")
    BY DEF CheckFails
  <1> HIDE DEF p
  <1> QED
    BY <1>2, <1>3, <1>4, ServesCore

LEMMA StorePlanCore ==
    ASSUME Core, NEW r \in Requests, StorePlan(r)
    PROVE  Core'
  <1> USE CoreFields
  <1> DEFINE q == request[r]
  <1>1. q \in Storing
    BY RequestFields DEF StorePlan, At
  <1>2. q.confirm => Vouched(q)
    BY <1>1 DEF BillReq
  <1>3. UNCHANGED <<shop, session, store, deliveries, handler, gap>>
    BY DEF StorePlan, Elsewhere
  <1>4. CASE ~shop.exists
    BY <1>3, <1>4, EndsCore DEF StorePlan
  <1>5. CASE shop.exists
    <2>1. q.seen \in Seens /\ q.confirm \in BOOLEAN /\ q.plan \in Plans
      BY <1>1 DEF Storing
    <2>2. row' \in Row
      BY <1>5, <2>1, RowWrites DEF StorePlan
    <2>3. Serves(r, q.plan)
      BY <1>5 DEF StorePlan
    <2> HIDE DEF q
    <2> QED
      BY <1>2, <1>3, <2>1, <2>2, <2>3, ServesCore DEF q
  <1> QED
    BY <1>4, <1>5

(* A charge is asked for in the mode the store had.                        *)
LEMMA RequestChargeCore ==
    ASSUME Core, NEW r \in Requests, RequestCharge(r)
    PROVE  Core'
  <1> USE CoreFields
  <1> DEFINE q == request[r]
             isTest == q.type = "dev"
             charge == [name |-> q.kind, test |-> isTest]
             x == [pc |-> "charged", seen |-> q.seen, test |-> isTest]
  <1>1. q \in Ordering /\ Answered(q)
    BY RequestFields DEF RequestCharge, At, BillReq
  <1>2. charge \in Charges
    BY <1>1 DEF Ordering, Names, Charges
  <1>3. /\ request' = [request EXCEPT ![r] = x]
        /\ store' = store \/ store' = [store EXCEPT !.asked = {charge}]
        /\ UNCHANGED <<shop, session, row, deliveries, handler, gap>>
    BY DEF RequestCharge
  <1>4. store' \in Truth
    <2>1. {charge} \in SUBSET Charges /\ store \in Truth
      BY <1>2
    <2>2. [store EXCEPT !.asked = {charge}] \in Truth
      BY <2>1, TruthWrites
    <2> QED
      BY <1>3, <2>1, <2>2
  <1>5. store'.dev = store.dev /\ store'.charges = store.charges
    BY <1>3 DEF Truth
  <1>6. q.seen \in Seens /\ q.seen.dev \subseteq BOOLEAN
    BY <1>1 DEF Ordering, Seens
  <1>7. isTest \in q.seen.dev
    <2>1. PICK b \in q.seen.dev : q.type = TypeName(b)
      BY <1>1 DEF Answered
    <2>2. b = isTest
      BY <1>6, <2>1 DEF TypeName
    <2> QED
      BY <2>1, <2>2
  <1>8. x \in Charged
    BY <1>6 DEF Charged
  <1>9. x.pc = "charged" /\ x.seen = q.seen /\ x.test = isTest
    OBVIOUS
  <1> HIDE DEF x, q, isTest, charge
  <1>10. BillReq(x, store)
    BY <1>7, <1>9, BillByStage
  <1>11. x \in Request
    BY <1>8 DEF Request
  <1>12. request' \in [Requests -> Request] /\ BillInv'
    BY <1>3, <1>5, <1>10, <1>11, OneRequest
  <1> QED
    BY <1>3, <1>4, <1>12 DEF Core, TypeInv

LEMMA RequestStepCore ==
    ASSUME Core, NEW r \in Requests, RequestStep(r) \/ TypeFails(r) \/ CheckFails(r)
    PROVE  Core'
  BY FindShopCore, ResetShopCore, HooksCore, StartImportCore, AskStoreCore,
     StoreTypeCore, KnowTypeCore, ReadSubscriptionCore, CheckBillingCore,
     StorePlanCore, RequestChargeCore, TypeFailsCore, CheckFailsCore
     DEF RequestStep

LEMMA StepsCore == Core /\ Steps => Core'
  <1> SUFFICES ASSUME Core, Steps
               PROVE  Core'
    OBVIOUS
  <1>1. ASSUME NEW d \in deliveries, Take(d)
        PROVE  Core'
    BY <1>1, TakeCore
  <1>2. ASSUME NEW r \in Requests, NEW kind \in Kinds, Open(r, kind)
        PROVE  Core'
    BY <1>2, OpenCore
  <1>3. ASSUME NEW r \in Requests, RequestStep(r) \/ TypeFails(r) \/ CheckFails(r)
        PROVE  Core'
    BY <1>3, RequestStepCore
  <1> QED
    BY <1>1, <1>2, <1>3, HappensCore, ProcessCore, ProcessFailsCore, BackgroundCore
       DEF Steps, Kinds, Names

LEMMA CoreStep == Core /\ [Next]_accountVars => Core'
  <1> SUFFICES ASSUME Core, [Next]_accountVars
               PROVE  Core'
    OBVIOUS
  <1>1. CASE Next
    BY <1>1, StepsCore DEF Next
  <1>2. CASE UNCHANGED accountVars
    BY <1>2, CoreFields, CoreSame DEF accountVars
  <1> QED
    BY <1>1, <1>2

LEMMA CoreInit == (\E s \in Stories : AccountInit(s)) => Core
  <1> SUFFICES ASSUME NEW s \in Stories, AccountInit(s)
               PROVE  Core
    OBVIOUS
  <1>1. store \in Truth /\ shop \in ShopRow /\ s.shop \in ShopRow
    BY StoriesAssumption DEF AccountInit
  <1>2. BestOf(store.charges, store.dev) \in Plans /\ "none" \in Plans
    BY <1>1, BestOfCharges, TruthFields DEF Plans, Rank
  <1>3. row \in Row
    BY <1>1, <1>2, ShopFields DEF AccountInit, Row
  <1>4. session \in BOOLEAN /\ gap \in BOOLEAN
    BY <1>1, ShopFields DEF AccountInit
  <1>5. request \in [Requests -> Request] /\ BillInv
    BY IdleRequest DEF AccountInit, BillInv
  <1>6. handler \in Handler /\ deliveries \in SUBSET Delivery
    BY NewHandler DEF AccountInit
  <1> QED
    BY <1>1, <1>3, <1>4, <1>5, <1>6 DEF Core, TypeInv

LEMMA CoreAlways == Spec => []Core
  BY CoreInit, CoreStep, PTL DEF Spec

(* The rows, the session and the gap stay of their types, and the stored   *)
(* plan is one of the plans, whatever a delivery or Shopify's answer said. *)
THEOREM TypeCorrect == Spec => []TypeOK
  <1>1. Core => TypeOK
    BY CoreFields DEF TypeOK, Row, Plans
  <1> QED
    BY <1>1, CoreAlways, PTL

(* A charge is requested in a mode the store had while its request ran,    *)
(* and a page that found the type of the store in doubt serves only a plan *)
(* Shopify had a charge of meanwhile, in a mode the store had: for any     *)
(* number of requests, conversions, removals and losses.                   *)
THEOREM BillingIsAnswered == Spec => []BillingModeIsAnswered
  <1>1. Core => BillingModeIsAnswered
    <2> SUFFICES ASSUME Core, NEW r \in Requests
                 PROVE  /\ At(r, "charged") => request[r].test \in request[r].seen.dev
                        /\ (At(r, "served") /\ request[r].confirm
                            /\ request[r].plan # "none") => Vouched(request[r])
      BY DEF BillingModeIsAnswered, Vouched
    <2>1. request[r] \in Request /\ BillReq(request[r], store)
      BY CoreFields
    <2> QED
      BY <2>1, RequestFields DEF At, BillReq
  <1> QED
    BY <1>1, CoreAlways, PTL

-----------------------------------------------------------------------------
(* The gap of an uninstallation                                            *)

(* What GapInv looks at, of a shop.                                        *)
Hides(s) == s.exists /\ s.sync = "COMPLETE" /\ ~s.gone

(* Steps after which no more is hidden, and the word is still known.       *)
LEMMA GapKept ==
    ASSUME GapInv, gap' => gap, Hides(shop)' => Hides(shop), Told => Told'
    PROVE  GapInv'
  BY DEF GapInv, Hides

(* What the writes of a shop show of it.                                   *)
LEMMA HidesNot ==
    ASSUME NEW s \in ShopRow
    PROVE  /\ ~Hides(Reinstated(s)) /\ ~Hides(NoShop)
           /\ ~Hides([NoShop EXCEPT !.exists = TRUE])
           /\ \A y \in {"RUNNING", "FAILED"} : ~Hides([s EXCEPT !.sync = y])
           /\ ~Hides([s EXCEPT !.gone = s.exists])
           /\ \A b \in BOOLEAN : Hides([s EXCEPT !.reports = b]) => Hides(s)
           /\ \A c : Hides([s EXCEPT !.carrier = c]) => Hides(s)
           /\ \A t : Hides([s EXCEPT !.type = t]) => Hides(s)
           /\ \A m : /\ Hides([s EXCEPT !.told = m]) => Hides(s)
                     /\ ~Hides([s EXCEPT !.sync = "RUNNING", !.told = m])
                     /\ \A t : Hides([s EXCEPT !.type = t, !.told = m]) => Hides(s)
  BY DEF ShopRow, Hides, Reinstated, NoShop

LEMMA GapOfDeliveries ==
    ASSUME Core, GapInv, (\E d \in deliveries : Take(d)) \/ Process \/ ProcessFails
    PROVE  GapInv'
  <1> USE CoreFields
  <1>1. ASSUME NEW d \in deliveries, Take(d)
        PROVE  GapInv'
    <2>1. d \in Delivery
      BY <1>1
    <2>2. d = Removed => handler' = [step |-> 1, delivery |-> d]
      BY <1>1 DEF Take, Removed
    <2>3. d = Removed => Told'
      BY <2>2 DEF Told, Free
    <2>4. d # Removed => (Told => Told')
      BY <1>1 DEF Take, Told, Free
    <2>5. UNCHANGED <<shop, gap>>
      BY <1>1 DEF Take
    <2> QED
      BY <2>3, <2>4, <2>5, GapKept DEF GapInv
  <1>2. CASE Process
    <2>1. handler # Free /\ handler.step \in 1 .. 4 /\ handler.delivery \in Delivery
      <3>1. handler # Free
        BY <1>2 DEF Process, ShopUpdated, ScopesUpdated, SubscriptionUpdated,
                    AppUninstalled, ShopRedacted, Now
      <3> QED
        BY <3>1, HandlerFields
    <2>2. UNCHANGED <<gap, deliveries>>
      BY <1>2 DEF Process
    <2>3. CASE handler.delivery = Removed /\ handler.step = 1
      <3>1. handler' = [handler EXCEPT !.step = handler.step + 1]
        BY <1>2, <2>3 DEF Process, Removed, LastStep
      <3>2. handler'.step = 2 /\ handler'.delivery = Removed
        BY <2>1, <2>3, <3>1 DEF Handler
      <3> QED
        BY <3>2, NewHandler DEF GapInv, Told
    <2>4. CASE handler.delivery = Removed /\ handler.step = 2
      <3>1. shop' = [shop EXCEPT !.gone = shop.exists]
        BY <1>2, <2>4 DEF Process, ShopUpdated, ScopesUpdated, SubscriptionUpdated,
                          AppUninstalled, ShopRedacted, Now, Removed
      <3>2. ~Hides(shop)'
        BY <3>1, HidesNot DEF Hides
      <3> QED
        BY <3>2 DEF GapInv, Hides
    <2>5. CASE ~(handler.delivery = Removed /\ handler.step \in {1, 2})
      <3>1. Told => Told'
        BY <2>2, <2>5 DEF Told
      <3>2. ~(handler.delivery.topic = "uninstalled" /\ handler.step = 2)
        BY <2>1, <2>5, DeliveryFields
      <3>3. \/ shop' = shop \/ shop' = [shop EXCEPT !.type = "unknown"]
            \/ shop' = [shop EXCEPT !.reports = handler.delivery.reports]
               /\ handler.delivery.topic = "scopes"
            \/ shop' = [shop EXCEPT !.carrier = "CONNECTED"]
            \/ shop' = [shop EXCEPT !.carrier = "DISCONNECTED"]
            \/ shop' = NoShop
        BY <1>2, <3>2 DEF Process, ShopUpdated, ScopesUpdated, SubscriptionUpdated,
                          AppUninstalled, ShopRedacted, Now
      <3>4. Hides(shop') => Hides(shop)
        <4> DEFINE b == handler.delivery.reports
        <4>1. handler.delivery.topic = "scopes" => b \in BOOLEAN
          BY <2>1, DeliveryFields
        <4>2. b \in BOOLEAN => (Hides([shop EXCEPT !.reports = b]) => Hides(shop))
          BY HidesNot
        <4>3. /\ Hides([shop EXCEPT !.type = "unknown"]) => Hides(shop)
              /\ Hides([shop EXCEPT !.carrier = "CONNECTED"]) => Hides(shop)
              /\ Hides([shop EXCEPT !.carrier = "DISCONNECTED"]) => Hides(shop)
              /\ ~Hides(NoShop)
          BY HidesNot
        <4> HIDE DEF b
        <4> QED
          BY <3>3, <4>1, <4>2, <4>3 DEF b
      <3> QED
        BY <2>2, <3>1, <3>4, GapKept DEF Hides
    <2> QED
      BY <2>3, <2>4, <2>5
  <1>3. CASE ProcessFails
    <2>1. Told => Told'
      BY <1>3 DEF ProcessFails, Told
    <2>2. UNCHANGED <<shop, gap>>
      BY <1>3 DEF ProcessFails
    <2> QED
      BY <2>1, <2>2 DEF GapInv
  <1> QED
    BY <1>1, <1>2, <1>3

LEMMA GapOfHappens ==
    ASSUME Core, GapInv, Happens
    PROVE  GapInv'
  <1>1. CASE Uninstall
    <2>1. Removed \in deliveries'
      BY <1>1 DEF Uninstall, Becomes, Removed
    <2> QED
      BY <2>1 DEF GapInv, Told
  <1>2. CASE LoseDelivery
    <2>1. Told => Told'
      BY <1>2 DEF LoseDelivery, Told, Removed
    <2> QED
      BY <1>2, <2>1 DEF LoseDelivery, GapInv
  <1>3. CASE Convert \/ Regrant \/ Approve \/ Reinstall \/ AskRedact
    <2>1. PICK new, news : Becomes(new, news) /\ gap' = gap
      BY <1>3 DEF Convert, Regrant, Approve, Reinstall, AskRedact
    <2> QED
      BY <2>1 DEF Becomes, GapInv, Told
  <1> QED
    BY <1>1, <1>2, <1>3 DEF Happens

(* A reinstated shop is to import again.                                   *)
LEMMA GapOfRequests ==
    ASSUME Core, GapInv, NEW r \in Requests,
           \/ \E kind \in Kinds : Open(r, kind)
           \/ RequestStep(r) \/ TypeFails(r) \/ CheckFails(r)
    PROVE  GapInv'
  <1> USE CoreFields
  <1>1. UNCHANGED <<deliveries, handler, gap>>
    BY DEF Open, RequestStep, FindShop, ResetShop, RecordScopes, SynchroniseCarrier,
           StartImport, AskStore, StoreType, KnowType, ReadSubscription, CheckBilling,
           StorePlan, RequestCharge, Close, TypeFails, CheckFails, Elsewhere
  <1>2. Told => Told'
    BY <1>1 DEF Told
  <1>3. \/ shop' = shop
        \/ shop' = [NoShop EXCEPT !.exists = TRUE]
        \/ shop' = Reinstated(shop)
        \/ shop' = [shop EXCEPT !.sync = "RUNNING", !.told = "nothing"]
        \/ shop' = [shop EXCEPT !.reports = request[r].scope] /\ request[r].pc = "recordScopes"
        \/ shop' = [shop EXCEPT !.carrier = "CONNECTED"]
        \/ shop' = [shop EXCEPT !.carrier = "DISCONNECTED"]
        \/ shop' = [shop EXCEPT !.type = request[r].type]
    BY DEF Open, RequestStep, FindShop, ResetShop, RecordScopes, SynchroniseCarrier,
           StartImport, AskStore, StoreType, KnowType, ReadSubscription, CheckBilling,
           StorePlan, RequestCharge, Close, TypeFails, CheckFails, Elsewhere, At
  <1>4. request[r].pc = "recordScopes" => request[r].scope \in BOOLEAN
    BY RequestFields DEF Knowing
  <1>5. Hides(shop') => Hides(shop)
    <2> DEFINE q == request[r]
    <2>1. q.scope \in BOOLEAN => (Hides([shop EXCEPT !.reports = q.scope]) => Hides(shop))
      BY HidesNot
    <2>2. /\ Hides([shop EXCEPT !.type = q.type]) => Hides(shop)
          /\ Hides([shop EXCEPT !.carrier = "CONNECTED"]) => Hides(shop)
          /\ Hides([shop EXCEPT !.carrier = "DISCONNECTED"]) => Hides(shop)
      BY HidesNot
    <2>3. /\ ~Hides([shop EXCEPT !.sync = "RUNNING", !.told = "nothing"])
          /\ ~Hides(Reinstated(shop)) /\ ~Hides([NoShop EXCEPT !.exists = TRUE])
      BY HidesNot
    <2> HIDE DEF q
    <2> QED
      BY <1>3, <1>4, <2>1, <2>2, <2>3 DEF q
  <1> QED
    BY <1>1, <1>2, <1>5, GapKept DEF Hides

LEMMA GapStep == Core /\ GapInv /\ [Next]_accountVars => GapInv'
  <1> SUFFICES ASSUME Core, GapInv, [Next]_accountVars
               PROVE  GapInv'
    OBVIOUS
  <1>1. CASE MeterOrder \/ Age
    BY <1>1 DEF MeterOrder, Age, GapInv, Told
  <1>2. CASE ImportEnds
    <2>1. gap' = FALSE \/ (shop' = [shop EXCEPT !.sync = "FAILED"])
      BY <1>2 DEF ImportEnds
    <2>2. shop' = [shop EXCEPT !.sync = "FAILED"] => ~Hides(shop')
      BY CoreFields, HidesNot
    <2> QED
      BY <2>1, <2>2 DEF GapInv, Hides
  <1>3. CASE ImportAsks \/ ImportStoresType
    <2>1. \/ shop' = [shop EXCEPT !.told = TypeName(store.dev)]
          \/ shop' = [shop EXCEPT !.type = shop.told, !.told = "stored"]
      BY <1>3 DEF ImportAsks, ImportStoresType
    <2>2. Hides(shop') => Hides(shop)
      <3>1. /\ Hides([shop EXCEPT !.told = TypeName(store.dev)]) => Hides(shop)
            /\ Hides([shop EXCEPT !.type = shop.told, !.told = "stored"]) => Hides(shop)
        BY CoreFields, HidesNot
      <3> QED
        BY <2>1, <3>1, Zenon
    <2>3. UNCHANGED <<gap, deliveries, handler>>
      BY <1>3 DEF ImportAsks, ImportStoresType, Elsewhere
    <2> QED
      BY <2>2, <2>3, GapKept DEF Hides, Told
  <1>4. CASE UNCHANGED accountVars
    BY <1>4 DEF accountVars, GapInv, Told
  <1>5. ASSUME NEW r \in Requests,
               \/ \E kind \in Kinds : Open(r, kind)
               \/ RequestStep(r) \/ TypeFails(r) \/ CheckFails(r)
        PROVE  GapInv'
    BY <1>5, GapOfRequests
  <1> QED
    BY <1>1, <1>2, <1>3, <1>4, <1>5, GapOfDeliveries, GapOfHappens
       DEF Next, Steps, ImportStep, Kinds, Names

(* No import is called complete while the sales of a time without the app  *)
(* are missing, once the uninstallation was processed and the shop is      *)
(* back: whenever the delivery came, however often it was taken again, and *)
(* however many removals and installations came before.                    *)
THEOREM GapIsShown == Spec => []GapIsNotHidden
  <1>1. (\E s \in Stories : AccountInit(s)) => GapInv
    BY DEF AccountInit, GapInv
  <1>2. GapInv => GapIsNotHidden
    BY DEF GapInv, GapIsNotHidden, Told, Removed
  <1> QED
    BY <1>1, <1>2, CoreAlways, GapStep, PTL DEF Spec

-----------------------------------------------------------------------------
(* Part 2: the meter.  The inductive invariant                             *)

(* The handlers that have read the meter, and those that have also seen    *)
(* the cap.                                                                *)
Active    == {"query", "charge", "claim"}
Committed == {"charge", "claim"}

(* What holds for any charge: keys and the values that are read lag behind *)
(* what Shopify holds, and who claims has a record under his key.          *)
CallKeyInv(d) ==
    /\ call[d].pc \in Active => call[d].billed <= billed
    /\ call[d].pc \in Committed => call[d].counts <= call[d].units
    /\ call[d].pc = "claim" => Key(d) \in keys

KeyInv == /\ billed <= balance
          /\ \A k \in keys : k <= balance
          /\ \A d \in Deliveries : CallKeyInv(d)

Whole(n) == \E m \in 0..Cap : n = m * Batch

(* Before the warning charges come in batches: the balance is what is      *)
(* billed, or one batch ahead under the key the next claim will find.      *)
Ahead == balance = billed + Batch /\ billed + Batch \in keys

CallBatchInv(d) ==
    /\ call[d].pc \in Active =>
          /\ call[d].units = Batch
          /\ SoftLimit + call[d].billed + Batch <= used
          /\ call[d].billed = billed \/ call[d].billed + Batch \in keys
    /\ call[d].pc \in Committed => call[d].counts = Batch

BatchInv == /\ Whole(Cap - balance)
            /\ balance = billed \/ Ahead
            /\ balance = 0 \/ SoftLimit + balance <= used
            /\ \A d \in Deliveries : CallBatchInv(d)

(* Without a fault, the handler that claims the batch ahead is still there.*)
ClaimInv ==
    faults = 0 /\ balance # billed =>
        \E d \in Deliveries : call[d].pc = "claim" /\ call[d].billed = billed

MeterInv == /\ MeterTypeOK
            /\ used = Cardinality(counted)
            /\ KeyInv
            /\ ~warned => BatchInv /\ ClaimInv

-----------------------------------------------------------------------------
(* What a step leaves in a handler                                         *)

(* The parts of a handler's record have their types.                       *)
LEMMA CallTypes ==
    ASSUME NEW q \in Call
    PROVE  q.pc \in PC /\ q.billed \in Nat /\ q.units \in 0..Batch
           /\ q.counts \in 0..Batch
  BY DEF Call

(* A handler that is reset to a step carries nothing.                      *)
LEMMA CallAt ==
    ASSUME call \in [Deliveries -> Call], NEW d \in Deliveries, NEW p \in PC,
           call' = [call EXCEPT ![d] = Handling(p)]
    PROVE  /\ call' \in [Deliveries -> Call]
           /\ call'[d].pc = p
           /\ \A e \in Deliveries \ {d} : call'[e] = call[e]
  <1>1. Handling(p) \in Call
    BY BatchAssumption DEF Handling, Call
  <1>2. Handling(p).pc = p
    BY Zenon DEF Handling
  <1> QED
    BY <1>1, <1>2

(* ReadMeter and QueryCap write a whole record.                            *)
LEMMA CallWritten ==
    ASSUME call \in [Deliveries -> Call], NEW d \in Deliveries,
           NEW p \in PC, NEW b \in Nat,
           NEW u \in 0..Batch, NEW c \in 0..Batch,
           call' = [call EXCEPT ![d] = [pc |-> p, billed |-> b, units |-> u,
                                        counts |-> c]]
    PROVE  /\ call' \in [Deliveries -> Call]
           /\ call'[d].pc = p /\ call'[d].billed = b
           /\ call'[d].units = u /\ call'[d].counts = c
           /\ \A e \in Deliveries \ {d} : call'[e] = call[e]
  <1> DEFINE q == [pc |-> p, billed |-> b, units |-> u, counts |-> c]
  <1>1. q \in Call
    BY DEF Call
  <1>2. q.pc = p /\ q.billed = b /\ q.units = u /\ q.counts = c
    OBVIOUS
  <1>3. call' = [call EXCEPT ![d] = q]
    OBVIOUS
  <1> HIDE DEF q
  <1> QED
    BY <1>1, <1>2, <1>3

(* Charge moves on with what it has.                                       *)
LEMMA CallCharged ==
    ASSUME call \in [Deliveries -> Call], NEW d \in Deliveries,
           call' = [call EXCEPT ![d] = [@ EXCEPT !.pc = "claim"]]
    PROVE  /\ call' \in [Deliveries -> Call]
           /\ call'[d].pc = "claim" /\ call'[d].billed = call[d].billed
           /\ call'[d].units = call[d].units
           /\ call'[d].counts = call[d].counts
           /\ \A e \in Deliveries \ {d} : call'[e] = call[e]
  <1> DEFINE q == [call[d] EXCEPT !.pc = "claim"]
  <1>1. call[d] \in Call /\ "claim" \in PC
    BY DEF PC
  <1>2. q \in Call /\ q.pc = "claim" /\ q.billed = call[d].billed
        /\ q.units = call[d].units /\ q.counts = call[d].counts
    BY <1>1, Zenon DEF Call
  <1>3. call' = [call EXCEPT ![d] = q]
    OBVIOUS
  <1> HIDE DEF q
  <1> QED
    BY <1>2, <1>3

-----------------------------------------------------------------------------
(* Arithmetic of batches                                                   *)

(* The cap is a whole number of batches.                                   *)
LEMMA CapIsWhole == Whole(Cap)
  <1> DEFINE m == Cap \div Batch
  <1>1. Cap = m * Batch /\ m \in Nat
    BY BatchAssumption
  <1>2. m <= Cap
    BY <1>1, BatchAssumption
  <1> HIDE DEF m
  <1>3. m \in 0..Cap
    BY <1>1, <1>2, BatchAssumption
  <1> QED
    BY <1>1, <1>3 DEF Whole

(* What is left under the cap is nothing or at least a batch, and after a  *)
(* batch it is still whole.                                                *)
LEMMA WholeBatches ==
    ASSUME NEW n \in 0..Cap, Whole(n)
    PROVE  n = 0 \/ (n >= Batch /\ Whole(n - Batch))
  <1>1. PICK m \in 0..Cap : n = m * Batch
    BY DEF Whole
  <1>2. CASE m = 0
    BY <1>1, <1>2, BatchAssumption
  <1>3. CASE m > 0
    <2>1. n = (m - 1) * Batch + Batch
      BY <1>1, BatchAssumption
    <2>2. n - Batch = (m - 1) * Batch /\ m - 1 \in 0..Cap
      BY <1>3, <2>1, BatchAssumption
    <2>3. (m - 1) * Batch >= 0
      BY <1>3, BatchAssumption
    <2> QED
      BY <2>1, <2>2, <2>3, BatchAssumption DEF Whole
  <1> QED
    BY <1>2, <1>3

(* What QueryCap counts is no more than the price, and a batch counts      *)
(* whole.                                                                  *)
LEMMA CountedBounds ==
    /\ \A n \in 0..Batch : Counted(n) \in 0..Batch /\ Counted(n) <= n
    /\ Counted(Batch) = Batch
    /\ Counted(0) = 0
  BY BatchAssumption DEF Counted

-----------------------------------------------------------------------------
(* Type correctness                                                        *)

LEMMA NumbersTyped ==
    ASSUME MeterTypeOK
    PROVE  /\ Pending \in Nat /\ Chargeable \in 0..Batch
           /\ \A d \in Deliveries : /\ Price(d) \in 0..Batch
                                     /\ Price(d) <= Cap - balance
                                     /\ Counted(Price(d)) \in 0..Batch
                                     /\ Key(d) \in Nat
  <1>1. Pending \in Nat
    BY LimitsAssumption DEF MeterTypeOK, Pending, Overage
  <1>2. Chargeable \in 0..Batch
    BY <1>1, BatchAssumption DEF Chargeable, Smaller
  <1>3. ASSUME NEW d \in Deliveries
        PROVE  Price(d) \in 0..Batch /\ Price(d) <= Cap - balance
               /\ Key(d) \in Nat
    <2>1. call[d].units \in 0..Batch /\ call[d].billed \in Nat
          /\ call[d].counts \in 0..Batch
      BY CallTypes DEF MeterTypeOK
    <2> QED
      BY <2>1, BatchAssumption DEF MeterTypeOK, Price, Smaller, Key
  <1> QED
    BY <1>1, <1>2, <1>3, CountedBounds

(* The step of every handler keeps the types.                              *)
LEMMA HandleTyped ==
    ASSUME MeterTypeOK, NEW d \in Deliveries, Handle(d)
    PROVE  MeterTypeOK'
  <1> USE DEF MeterTypeOK
  <1>1. call \in [Deliveries -> Call] /\ 0 \in 0..Batch
    BY BatchAssumption
  <1>2. "unsent" \in PC /\ "read" \in PC /\ "query" \in PC
        /\ "charge" \in PC /\ "claim" \in PC /\ "done" \in PC
    BY DEF PC
  <1>3. CASE CountOrder(d)
    <2>1. call' \in [Deliveries -> Call]
      BY <1>1, <1>2, <1>3, CallAt DEF CountOrder, GoesOn
    <2>2. StatusAt(used') \in Statuses
      BY DEF StatusAt, Statuses
    <2> QED
      BY <1>3, <2>1, <2>2, OrdersAssumption DEF CountOrder, shopify
  <1>4. CASE CountReplay(d)
    <2>1. call' \in [Deliveries -> Call]
      BY <1>1, <1>2, <1>4, CallAt DEF CountReplay, GoesOn
    <2> QED
      BY <1>4, <2>1 DEF CountReplay, meter, shopify
  <1>5. CASE ReadMeter(d)
    <2>1. call' \in [Deliveries -> Call]
      <3>1. CASE Chargeable = 0
        BY <1>1, <1>2, <1>5, <3>1, CallAt DEF ReadMeter
      <3>2. CASE Chargeable # 0
        BY <1>1, <1>2, <1>5, <3>2, CallWritten, NumbersTyped DEF ReadMeter
      <3> QED
        BY <3>1, <3>2
    <2> QED
      BY <1>5, <2>1 DEF ReadMeter, meter, shopify
  <1>6. CASE QueryCap(d)
    <2>1. call' \in [Deliveries -> Call]
      BY <1>1, <1>2, <1>6, CallWritten, CallTypes, NumbersTyped DEF QueryCap
    <2> QED
      BY <1>6, <2>1 DEF QueryCap, meter, shopify
  <1>7. CASE QueryCapReached(d)
    <2>1. call' \in [Deliveries -> Call]
      BY <1>1, <1>2, <1>7, CallAt DEF QueryCapReached
    <2> QED
      BY <1>7, <2>1 DEF QueryCapReached, shopify, Statuses
  <1>8. CASE QueryNoLine(d) \/ ChargeRefused(d) \/ Crash(d)
    <2>1. call' \in [Deliveries -> Call]
      BY <1>1, <1>2, <1>8, CallAt DEF QueryNoLine, ChargeRefused, Crash
    <2>2. faults' \in Nat
      BY <1>8 DEF QueryNoLine, ChargeRefused, Crash
    <2> QED
      BY <1>8, <2>1, <2>2 DEF QueryNoLine, ChargeRefused, Crash, meter, shopify
  <1>9. CASE Charge(d) \/ ChargeLost(d)
    <2>1. call' \in [Deliveries -> Call]
      BY <1>1, <1>2, <1>9, CallAt, CallCharged DEF Charge, ChargeLost
    <2>2. Key(d) \in Nat /\ call[d].units \in 0..Batch
      BY <1>1, NumbersTyped, CallTypes
    <2>3. balance' \in 0..Cap /\ keys' \subseteq Nat
      BY <1>9, <2>2, BatchAssumption
      DEF Charge, ChargeLost, Create, Accepts, shopify
    <2>4. faults' \in Nat
      BY <1>9 DEF Charge, ChargeLost
    <2> QED
      BY <1>9, <2>1, <2>3, <2>4 DEF Charge, ChargeLost, meter
  <1>10. CASE ClaimBilled(d)
    <2>1. call' \in [Deliveries -> Call]
      BY <1>1, <1>2, <1>10, CallAt DEF ClaimBilled
    <2>2. billed' \in Nat
      <3>1. call[d].counts \in Nat
        BY <1>1, CallTypes, BatchAssumption
      <3> QED
        BY <1>10, <3>1 DEF ClaimBilled
    <2> QED
      BY <1>10, <2>1, <2>2 DEF ClaimBilled, shopify
  <1> QED
    BY <1>3, <1>4, <1>5, <1>6, <1>7, <1>8, <1>9, <1>10 DEF Handle

LEMMA InitTyped == MeterInit => MeterTypeOK
  <1> SUFFICES ASSUME MeterInit PROVE MeterTypeOK
    OBVIOUS
  <1>1. Handling("unsent") \in Call
    BY BatchAssumption DEF Handling, Call, PC
  <1>2. call \in [Deliveries -> Call]
    BY <1>1 DEF MeterInit
  <1>3. /\ used = 0 /\ billed = 0 /\ faults = 0
        /\ warned \in BOOLEAN /\ status \in Statuses
        /\ counted = {} /\ keys = {} /\ balance = 0
    BY DEF MeterInit, Statuses
  <1> QED
    BY <1>2, <1>3, BatchAssumption DEF MeterTypeOK

LEMMA StepTyped == MeterTypeOK /\ [MeterNext]_meterVars => MeterTypeOK'
  <1> SUFFICES ASSUME MeterTypeOK, [MeterNext]_meterVars PROVE MeterTypeOK'
    OBVIOUS
  <1>1. CASE ApproachingCap
    BY <1>1 DEF ApproachingCap, MeterTypeOK, shopify, Statuses
  <1>2. ASSUME NEW d \in Deliveries, Handle(d) PROVE MeterTypeOK'
    BY <1>2, HandleTyped
  <1>3. CASE UNCHANGED meterVars
    BY <1>3 DEF meterVars, MeterTypeOK
  <1> QED
    BY <1>1, <1>2, <1>3 DEF MeterNext

(* MeterTypeOK, for every number of orders, deliveries and faults.              *)
THEOREM MeterTypeCorrect == MeterSpec => []MeterTypeOK
  BY InitTyped, StepTyped, PTL DEF MeterSpec

-----------------------------------------------------------------------------
(* The invariant is kept                                                   *)

LEMMA InitMeter == MeterInit => MeterInv
  <1> SUFFICES ASSUME MeterInit PROVE MeterInv
    OBVIOUS
  <1>1. MeterTypeOK
    BY InitTyped
  <1>2. used = Cardinality(counted)
    BY FS_EmptySet DEF MeterInit
  <1>3. \A d \in Deliveries : call[d].pc = "unsent"
    <2>1. Handling("unsent").pc = "unsent"
      BY Zenon DEF Handling
    <2> QED
      BY <2>1 DEF MeterInit
  <1>4. KeyInv
    BY <1>3 DEF MeterInit, KeyInv, CallKeyInv, Active, Committed
  <1>5. BatchInv
    BY <1>3, CapIsWhole, BatchAssumption
    DEF MeterInit, BatchInv, CallBatchInv, Active, Committed
  <1>6. ClaimInv
    BY DEF MeterInit, ClaimInv
  <1> QED
    BY <1>1, <1>2, <1>4, <1>5, <1>6 DEF MeterInv

(* A step that leaves the books and other handlers alone, and the handler  *)
(* itself, if anywhere, where it has read nothing.                         *)
LEMMA IdleStep ==
    ASSUME MeterInv, MeterTypeOK', NEW d \in Deliveries,
           call'[d].pc \notin Active,
           \A e \in Deliveries \ {d} : call'[e] = call[e],
           billed' = billed, balance' = balance, keys' = keys,
           used' >= used, used' = Cardinality(counted'),
           warned => warned',
           \/ faults' = faults /\ call[d].pc # "claim"
           \/ faults' > faults
    PROVE  MeterInv'
  <1>1. KeyInv'
    <2>1. ASSUME NEW e \in Deliveries PROVE CallKeyInv(e)'
      BY <2>1 DEF MeterInv, KeyInv, CallKeyInv, Key, Active, Committed
    <2> QED
      BY <2>1 DEF MeterInv, KeyInv
  <1>2. ASSUME ~warned' PROVE BatchInv'
    <2>1. BatchInv
      BY <1>2 DEF MeterInv
    <2>2. ASSUME NEW e \in Deliveries PROVE CallBatchInv(e)'
      <3>1. CASE e = d
        BY <3>1 DEF CallBatchInv, Active, Committed
      <3>2. CASE e # d
        <4>1. CallBatchInv(e) /\ call[e] \in Call /\ call'[e] = call[e]
          BY <2>1, <3>2 DEF BatchInv, MeterInv, MeterTypeOK
        <4>2. call[e].billed \in Nat
          BY <4>1, CallTypes
        <4> QED
          BY <4>1, <4>2, BatchAssumption, LimitsAssumption
          DEF CallBatchInv, MeterInv, MeterTypeOK
      <3> QED
        BY <3>1, <3>2
    <2>3. Whole(Cap - balance)' /\ (balance = billed \/ Ahead)'
      BY <2>1 DEF BatchInv, Ahead, Whole
    <2>4. balance' = 0 \/ SoftLimit + balance' <= used'
      BY <2>1, BatchAssumption, LimitsAssumption DEF BatchInv, MeterInv, MeterTypeOK
    <2> QED
      BY <2>2, <2>3, <2>4 DEF BatchInv
  <1>3. ASSUME ~warned' PROVE ClaimInv'
    <2>1. ClaimInv
      BY <1>3 DEF MeterInv
    <2>2. SUFFICES ASSUME faults' = 0, balance' # billed'
                   PROVE  \E e \in Deliveries : /\ call'[e].pc = "claim"
                                                /\ call'[e].billed = billed'
      BY DEF ClaimInv
    <2>3. faults = 0 /\ call[d].pc # "claim"
      BY <2>2 DEF MeterInv, MeterTypeOK
    <2>4. PICK e \in Deliveries : call[e].pc = "claim" /\ call[e].billed = billed
      BY <2>1, <2>2, <2>3 DEF ClaimInv
    <2> QED
      BY <2>3, <2>4
  <1> QED
    BY <1>1, <1>2, <1>3 DEF MeterInv

(* ReadMeter: before the warning a whole batch is pending.                 *)
LEMMA ReadStep ==
    ASSUME MeterInv, MeterTypeOK', NEW d \in Deliveries, ReadMeter(d)
    PROVE  MeterInv'
  <1>1. MeterTypeOK /\ call \in [Deliveries -> Call]
    BY DEF MeterInv, MeterTypeOK
  <1>2. UNCHANGED <<used, billed, warned, counted, balance, keys, faults>>
    BY DEF ReadMeter, meter, shopify
  <1>3. CASE Chargeable = 0
    <2>1. /\ call'[d].pc = "done"
          /\ \A e \in Deliveries \ {d} : call'[e] = call[e]
      BY <1>1, <1>3, CallAt DEF ReadMeter, PC
    <2> QED
      BY <1>1, <1>2, <2>1, IdleStep
      DEF ReadMeter, Active, MeterInv, MeterTypeOK
  <1>4. CASE Chargeable # 0
    <2>1. /\ call'[d].pc = "query" /\ call'[d].billed = billed
          /\ call'[d].units = Chargeable
          /\ \A e \in Deliveries \ {d} : call'[e] = call[e]
      <3>1. "query" \in PC /\ 0 \in 0..Batch /\ Chargeable \in 0..Batch
            /\ billed \in Nat
        BY <1>1, NumbersTyped, BatchAssumption DEF PC, MeterTypeOK
      <3> QED
        BY <1>1, <1>4, <3>1, CallWritten DEF ReadMeter
    <2>2. ASSUME ~warned
          PROVE  Chargeable = Batch /\ SoftLimit + billed + Batch <= used
      BY <1>1, <1>4, <2>2, NumbersTyped, BatchAssumption, LimitsAssumption
      DEF MeterTypeOK, Chargeable, Smaller, Pending, Overage
    <2>3. KeyInv'
      <3>1. ASSUME NEW e \in Deliveries PROVE CallKeyInv(e)'
        <4>1. CASE e = d
          BY <1>1, <1>2, <2>1, <4>1 DEF CallKeyInv, Active, Committed, MeterTypeOK
        <4>2. CASE e # d
          BY <1>2, <2>1, <4>2
          DEF MeterInv, KeyInv, CallKeyInv, Key, Active, Committed
        <4> QED
          BY <4>1, <4>2
      <3> QED
        BY <1>2, <3>1 DEF MeterInv, KeyInv
    <2>4. ASSUME ~warned' PROVE BatchInv'
      <3>1. BatchInv /\ ~warned
        BY <1>2, <2>4 DEF MeterInv
      <3>2. ASSUME NEW e \in Deliveries PROVE CallBatchInv(e)'
        <4>1. CASE e = d
          BY <1>2, <2>1, <2>2, <3>1, <4>1 DEF CallBatchInv, Active, Committed
        <4>2. CASE e # d
          BY <1>2, <2>1, <3>1, <4>2
          DEF BatchInv, CallBatchInv, Active, Committed
        <4> QED
          BY <4>1, <4>2
      <3> QED
        BY <1>2, <3>1, <3>2 DEF BatchInv, Ahead, Whole
    <2>5. ASSUME ~warned' PROVE ClaimInv'
      <3>1. ClaimInv
        BY <1>2, <2>5 DEF MeterInv
      <3>2. call[d].pc # "claim"
        BY DEF ReadMeter
      <3> QED
        BY <1>2, <2>1, <3>1, <3>2 DEF ClaimInv
    <2> QED
      BY <1>2, <2>3, <2>4, <2>5 DEF MeterInv
  <1> QED
    BY <1>3, <1>4

(* QueryCap: before the warning the price is a whole batch.                *)
LEMMA QueryStep ==
    ASSUME MeterInv, MeterTypeOK', NEW d \in Deliveries, QueryCap(d)
    PROVE  MeterInv'
  <1>1. MeterTypeOK /\ call \in [Deliveries -> Call] /\ call[d] \in Call
    BY DEF MeterInv, MeterTypeOK
  <1>2. UNCHANGED <<used, billed, warned, counted, balance, keys, faults>>
    BY DEF QueryCap, meter, shopify
  <1>3. /\ call'[d].pc = "charge" /\ call'[d].billed = call[d].billed
        /\ call'[d].units = Price(d) /\ call'[d].counts = Counted(Price(d))
        /\ \A e \in Deliveries \ {d} : call'[e] = call[e]
    <2>1. "charge" \in PC /\ call[d].billed \in Nat
      BY <1>1, CallTypes DEF PC
    <2> QED
      BY <1>1, <2>1, NumbersTyped, CallWritten DEF QueryCap
  <1>4. call[d].pc = "query" /\ Counted(Price(d)) > 0
    BY DEF QueryCap
  <1>5. Price(d) \in 0..Batch /\ Counted(Price(d)) \in 0..Batch
        /\ Counted(Price(d)) <= Price(d)
    BY <1>1, NumbersTyped, CountedBounds
  <1>6. KeyInv'
    <2>1. ASSUME NEW e \in Deliveries PROVE CallKeyInv(e)'
      <3>1. CASE e = d
        BY <1>2, <1>3, <1>4, <1>5, <3>1
        DEF MeterInv, KeyInv, CallKeyInv, Active, Committed
      <3>2. CASE e # d
        BY <1>2, <1>3, <3>2
        DEF MeterInv, KeyInv, CallKeyInv, Key, Active, Committed
      <3> QED
        BY <3>1, <3>2
    <2> QED
      BY <1>2, <2>1 DEF MeterInv, KeyInv
  <1>7. ASSUME ~warned' PROVE BatchInv'
    <2>1. BatchInv /\ CallBatchInv(d)
      BY <1>2, <1>7 DEF MeterInv, BatchInv
    <2>2. call[d].units = Batch
      BY <1>4, <2>1 DEF CallBatchInv, Active
    <2>3. Price(d) = Batch
      <3>1. Cap - balance \in 0..Cap /\ Whole(Cap - balance)
        BY <1>1, <2>1, BatchAssumption DEF MeterTypeOK, BatchInv
      <3>2. Cap - balance = 0 \/ Cap - balance >= Batch
        BY <3>1, WholeBatches
      <3>3. Cap - balance # 0
        BY <1>4, <2>2, CountedBounds, BatchAssumption DEF Price, Smaller
      <3> QED
        BY <1>1, <2>2, <3>1, <3>2, <3>3, BatchAssumption DEF Price, Smaller
    <2>4. ASSUME NEW e \in Deliveries PROVE CallBatchInv(e)'
      <3>1. CASE e = d
        BY <1>2, <1>3, <1>4, <2>1, <2>3, <3>1, CountedBounds
        DEF CallBatchInv, Active, Committed
      <3>2. CASE e # d
        BY <1>2, <1>3, <2>1, <3>2
        DEF BatchInv, CallBatchInv, Active, Committed
      <3> QED
        BY <3>1, <3>2
    <2> QED
      BY <1>2, <2>1, <2>4 DEF BatchInv, Ahead, Whole
  <1>8. ASSUME ~warned' PROVE ClaimInv'
    BY <1>2, <1>3, <1>4, <1>8 DEF MeterInv, ClaimInv
  <1> QED
    BY <1>2, <1>6, <1>7, <1>8 DEF MeterInv

(* Charge and ChargeLost: Shopify makes a new record, or knows the key.    *)
(* The key is the value that the claim is to lead to, and before the       *)
(* warning a new one means that nothing was ahead.                         *)
LEMMA KnownStep ==
    ASSUME MeterInv, MeterTypeOK', NEW d \in Deliveries, Charge(d), Known(d)
    PROVE  MeterInv'
  <1>1. MeterTypeOK /\ call \in [Deliveries -> Call]
    BY DEF MeterInv, MeterTypeOK
  <1>2. UNCHANGED <<used, billed, warned, counted, balance, keys, faults>>
    BY DEF Charge, meter, shopify
  <1>3. /\ call'[d].pc = "claim" /\ call'[d].billed = call[d].billed
        /\ call'[d].units = call[d].units /\ call'[d].counts = call[d].counts
        /\ \A e \in Deliveries \ {d} : call'[e] = call[e]
    BY <1>1, CallCharged DEF Charge
  <1>4. call[d].pc = "charge" /\ Key(d)' = Key(d) /\ Key(d) \in keys
    BY <1>3 DEF Charge, Known, Key
  <1>5. KeyInv'
    <2>1. ASSUME NEW e \in Deliveries PROVE CallKeyInv(e)'
      <3>1. CASE e = d
        BY <1>2, <1>3, <1>4, <3>1
        DEF MeterInv, KeyInv, CallKeyInv, Active, Committed
      <3>2. CASE e # d
        BY <1>2, <1>3, <3>2
        DEF MeterInv, KeyInv, CallKeyInv, Key, Active, Committed
      <3> QED
        BY <3>1, <3>2
    <2> QED
      BY <1>2, <2>1 DEF MeterInv, KeyInv
  <1>6. ASSUME ~warned' PROVE BatchInv'
    <2>1. BatchInv
      BY <1>2, <1>6 DEF MeterInv
    <2>2. ASSUME NEW e \in Deliveries PROVE CallBatchInv(e)'
      <3>1. CASE e = d
        BY <1>2, <1>3, <1>4, <2>1, <3>1
        DEF BatchInv, CallBatchInv, Active, Committed
      <3>2. CASE e # d
        BY <1>2, <1>3, <2>1, <3>2
        DEF BatchInv, CallBatchInv, Active, Committed
      <3> QED
        BY <3>1, <3>2
    <2> QED
      BY <1>2, <2>1, <2>2 DEF BatchInv, Ahead, Whole
  <1>7. ASSUME ~warned' PROVE ClaimInv'
    <2>1. SUFFICES ASSUME faults' = 0, balance' # billed'
                   PROVE  \E e \in Deliveries : /\ call'[e].pc = "claim"
                                                /\ call'[e].billed = billed'
      BY DEF ClaimInv
    <2>2. PICK e \in Deliveries : call[e].pc = "claim" /\ call[e].billed = billed
      BY <1>2, <1>7, <2>1 DEF MeterInv, ClaimInv
    <2>3. e # d
      BY <1>4, <2>2
    <2> QED
      BY <1>2, <1>3, <2>2, <2>3
  <1> QED
    BY <1>2, <1>5, <1>6, <1>7 DEF MeterInv

LEMMA CreateStep ==
    ASSUME MeterInv, MeterTypeOK', NEW d \in Deliveries,
           Charge(d) \/ ChargeLost(d), Create(d), Accepts(d), ~Known(d)
    PROVE  MeterInv'
  <1>1. MeterTypeOK /\ call \in [Deliveries -> Call] /\ call[d] \in Call
    BY DEF MeterInv, MeterTypeOK
  <1>2. UNCHANGED <<used, billed, warned, counted>>
    BY DEF Charge, ChargeLost, meter
  <1>3. /\ keys' = keys \cup {Key(d)} /\ Key(d) \notin keys
        /\ balance' = balance + call[d].units
        /\ balance + call[d].units <= Cap
    BY DEF Create, Known, Accepts
  <1>4. call[d].pc = "charge"
    BY DEF Charge, ChargeLost
  <1>5. \/ /\ call'[d].pc = "claim" /\ call'[d].billed = call[d].billed
           /\ call'[d].units = call[d].units
           /\ call'[d].counts = call[d].counts
           /\ faults' = faults
        \/ call'[d].pc = "done" /\ faults' # 0
    <2>1. CASE Charge(d)
      BY <1>1, <2>1, CallCharged DEF Charge
    <2>2. CASE ChargeLost(d)
      <3>1. faults' = faults + 1 /\ faults \in Nat
        BY <2>2 DEF ChargeLost, MeterInv, MeterTypeOK
      <3>2. call'[d].pc = "done"
        BY <1>1, <2>2, CallAt DEF ChargeLost, PC
      <3> QED
        BY <3>1, <3>2
    <2> QED
      BY <2>1, <2>2
  <1>6. \A e \in Deliveries \ {d} : call'[e] = call[e]
    <2>1. CASE Charge(d)
      BY <1>1, <2>1, CallCharged DEF Charge
    <2>2. CASE ChargeLost(d)
      BY <1>1, <2>2, CallAt DEF ChargeLost, PC
    <2> QED
      BY <2>1, <2>2
  <1>7. /\ call[d].billed \in Nat /\ call[d].units \in 0..Batch
        /\ call[d].counts \in 0..Batch
        /\ Key(d) = call[d].billed + call[d].counts
    BY <1>1, CallTypes DEF Key
  <1>8. call[d].billed <= billed /\ call[d].counts <= call[d].units
    BY <1>4 DEF MeterInv, KeyInv, CallKeyInv, Active, Committed
  <1>9. balance' >= balance /\ Key(d) <= balance'
    BY <1>1, <1>3, <1>7, <1>8, BatchAssumption DEF MeterInv, KeyInv, MeterTypeOK
  <1>10. KeyInv'
    <2>1. ASSUME NEW e \in Deliveries PROVE CallKeyInv(e)'
      <3>1. CASE e = d
        BY <1>2, <1>3, <1>5, <1>8, <3>1
        DEF CallKeyInv, Active, Committed, Key
      <3>2. CASE e # d
        BY <1>2, <1>3, <1>6, <3>2
        DEF MeterInv, KeyInv, CallKeyInv, Key, Active, Committed
      <3> QED
        BY <3>1, <3>2
    <2>2. \A k \in keys' : k <= balance'
      <3>1. \A k \in keys : k \in Nat /\ k <= balance
        BY <1>1 DEF MeterInv, KeyInv, MeterTypeOK
      <3>2. balance \in Nat /\ balance' \in Nat
        BY <1>1, BatchAssumption DEF MeterTypeOK
      <3> QED
        BY <1>3, <1>9, <3>1, <3>2
    <2>3. billed' <= balance'
      BY <1>1, <1>2, <1>9, BatchAssumption DEF MeterInv, KeyInv, MeterTypeOK
    <2> QED
      BY <2>1, <2>2, <2>3 DEF KeyInv
  <1>11. ASSUME ~warned
         PROVE  /\ BatchInv
                /\ call[d].units = Batch /\ call[d].billed = billed
                /\ Key(d) = billed + Batch /\ balance = billed
                /\ SoftLimit + billed + Batch <= used
    <2>1. BatchInv /\ CallBatchInv(d)
      BY <1>11 DEF MeterInv, BatchInv
    <2>2. call[d].units = Batch /\ call[d].counts = Batch
      BY <1>4, <2>1 DEF CallBatchInv, Active, Committed
    <2>3. call[d].billed = billed /\ SoftLimit + billed + Batch <= used
      BY <1>3, <1>4, <1>7, <2>1, <2>2 DEF CallBatchInv, Active
    <2>4. balance = billed
      BY <1>3, <1>7, <2>1, <2>2, <2>3 DEF BatchInv, Ahead
    <2> QED
      BY <1>7, <2>1, <2>2, <2>3, <2>4
  <1>12. ASSUME ~warned' PROVE BatchInv'
    <2>1. ~warned
      BY <1>2, <1>12
    <2>2. ASSUME NEW e \in Deliveries PROVE CallBatchInv(e)'
      <3>1. CallBatchInv(e)
        BY <1>11, <2>1 DEF BatchInv
      <3>2. CASE e = d
        BY <1>2, <1>3, <1>4, <1>5, <3>1, <3>2
        DEF CallBatchInv, Active, Committed
      <3>3. CASE e # d
        BY <1>2, <1>3, <1>6, <3>1, <3>3 DEF CallBatchInv, Active, Committed
      <3> QED
        BY <3>2, <3>3
    <2>3. Whole(Cap - balance')
      <3>1. Cap - balance \in 0..Cap /\ Whole(Cap - balance)
        BY <1>1, <1>11, <2>1, BatchAssumption DEF MeterTypeOK, BatchInv
      <3>2. Whole(Cap - balance - Batch)
        BY <1>1, <1>3, <1>11, <2>1, <3>1, WholeBatches, BatchAssumption
        DEF MeterTypeOK
      <3>3. Cap - balance' = Cap - balance - Batch
        BY <1>1, <1>3, <1>11, <2>1, BatchAssumption DEF MeterTypeOK
      <3> QED
        BY <3>2, <3>3
    <2>4. balance' = billed' + Batch /\ billed' + Batch \in keys'
      BY <1>2, <1>3, <1>11, <2>1
    <2>5. SoftLimit + balance' <= used'
      BY <1>1, <1>2, <1>3, <1>11, <2>1, <2>4, BatchAssumption, LimitsAssumption
      DEF MeterTypeOK
    <2> QED
      BY <2>2, <2>3, <2>4, <2>5 DEF BatchInv, Ahead, Whole
  <1>13. ASSUME ~warned' PROVE ClaimInv'
    BY <1>2, <1>5, <1>11, <1>13 DEF ClaimInv
  <1> QED
    BY <1>2, <1>10, <1>12, <1>13 DEF MeterInv

(* ClaimBilled: a successful claim closes the batch that was ahead; those  *)
(* who read the same value find that it has moved.                         *)
LEMMA ClaimStep ==
    ASSUME MeterInv, MeterTypeOK', NEW d \in Deliveries, ClaimBilled(d)
    PROVE  MeterInv'
  <1>1. MeterTypeOK /\ call \in [Deliveries -> Call] /\ call[d] \in Call
    BY DEF MeterInv, MeterTypeOK
  <1>2. UNCHANGED <<used, warned, counted, balance, keys, faults>>
    BY DEF ClaimBilled, shopify
  <1>3. /\ call'[d].pc = "done"
        /\ \A e \in Deliveries \ {d} : call'[e] = call[e]
    BY <1>1, CallAt DEF ClaimBilled, PC
  <1>4. /\ call[d].pc = "claim" /\ call[d].counts \in Nat
        /\ Key(d) = call[d].billed + call[d].counts /\ Key(d) \in keys
    BY <1>1, CallTypes, BatchAssumption
    DEF ClaimBilled, Key, MeterInv, KeyInv, CallKeyInv
  <1>5. billed' >= billed /\ (billed' = billed \/ billed' = Key(d))
    BY <1>1, <1>4 DEF ClaimBilled, Claims, MeterTypeOK
  <1>6. KeyInv'
    <2>1. ASSUME NEW e \in Deliveries PROVE CallKeyInv(e)'
      <3>1. CASE e = d
        BY <1>3, <3>1 DEF CallKeyInv, Active, Committed
      <3>2. CASE e # d
        <4>1. call[e].billed \in Nat
          BY <1>1, CallTypes
        <4> QED
          BY <1>1, <1>2, <1>3, <1>5, <3>2, <4>1
          DEF MeterInv, KeyInv, CallKeyInv, Key, Active, Committed, MeterTypeOK
      <3> QED
        BY <3>1, <3>2
    <2>2. billed' <= balance'
      BY <1>2, <1>4, <1>5 DEF MeterInv, KeyInv
    <2> QED
      BY <1>2, <2>1, <2>2 DEF MeterInv, KeyInv
  <1>7. ASSUME ~warned' PROVE BatchInv'
    <2>1. BatchInv /\ CallBatchInv(d)
      BY <1>2, <1>7 DEF MeterInv, BatchInv
    <2>2. Key(d) = call[d].billed + Batch
      BY <1>4, <2>1 DEF CallBatchInv, Committed
    <2>3. CASE Claims(d)
      <3>1. call[d].billed = billed /\ billed' = billed + Batch
        BY <1>4, <2>2, <2>3, <1>1, BatchAssumption
        DEF Claims, ClaimBilled, MeterTypeOK
      <3>2. balance = billed + Batch
        <4>1. billed + Batch <= balance
          BY <1>4, <2>2, <3>1 DEF MeterInv, KeyInv
        <4> QED
          BY <1>1, <2>1, <4>1, BatchAssumption DEF BatchInv, Ahead, MeterTypeOK
      <3>3. ASSUME NEW e \in Deliveries PROVE CallBatchInv(e)'
        <4>1. CASE e = d
          BY <1>3, <4>1 DEF CallBatchInv, Active, Committed
        <4>2. CASE e # d
          BY <1>2, <1>3, <1>4, <2>1, <2>2, <3>1, <4>2
          DEF BatchInv, CallBatchInv, Active, Committed
        <4> QED
          BY <4>1, <4>2
      <3> QED
        BY <1>2, <2>1, <3>1, <3>2, <3>3 DEF BatchInv, Whole
    <2>4. CASE ~Claims(d)
      <3>1. billed' = billed
        BY <2>4 DEF ClaimBilled
      <3>2. ASSUME NEW e \in Deliveries PROVE CallBatchInv(e)'
        <4>1. CASE e = d
          BY <1>3, <4>1 DEF CallBatchInv, Active, Committed
        <4>2. CASE e # d
          BY <1>2, <1>3, <2>1, <3>1, <4>2
          DEF BatchInv, CallBatchInv, Active, Committed
        <4> QED
          BY <4>1, <4>2
      <3> QED
        BY <1>2, <2>1, <3>1, <3>2 DEF BatchInv, Ahead, Whole
    <2> QED
      BY <2>3, <2>4
  <1>8. ASSUME ~warned' PROVE ClaimInv'
    <2>1. SUFFICES ASSUME faults' = 0, balance' # billed'
                   PROVE  \E e \in Deliveries : /\ call'[e].pc = "claim"
                                                /\ call'[e].billed = billed'
      BY DEF ClaimInv
    <2>2. BatchInv /\ CallBatchInv(d)
      BY <1>2, <1>8 DEF MeterInv, BatchInv
    <2>3. CASE Claims(d)
      <3>1. call[d].counts = Batch
        BY <1>4, <2>2 DEF CallBatchInv, Committed
      <3>2. billed' = billed + Batch /\ billed + Batch \in keys
        BY <1>4, <2>3, <3>1 DEF Claims, ClaimBilled
      <3>3. billed + Batch <= balance
        BY <3>2 DEF MeterInv, KeyInv
      <3>4. balance = billed + Batch
        BY <1>1, <2>2, <3>3, BatchAssumption DEF BatchInv, Ahead, MeterTypeOK
      <3> QED
        BY <1>2, <2>1, <3>2, <3>4
    <2>4. CASE ~Claims(d)
      <3>1. billed' = billed /\ call[d].billed # billed
        BY <2>4 DEF Claims, ClaimBilled
      <3>2. PICK e \in Deliveries : /\ call[e].pc = "claim"
                                    /\ call[e].billed = billed
        BY <1>2, <1>8, <2>1, <3>1 DEF MeterInv, ClaimInv
      <3>3. e # d
        BY <3>1, <3>2
      <3> QED
        BY <1>3, <3>1, <3>2, <3>3
    <2> QED
      BY <2>3, <2>4
  <1> QED
    BY <1>2, <1>6, <1>7, <1>8 DEF MeterInv

(* The steps that count an order or give up leave the books alone.         *)
LEMMA CountStep ==
    ASSUME MeterInv, MeterTypeOK', NEW d \in Deliveries,
           CountOrder(d) \/ CountReplay(d)
    PROVE  MeterInv'
  <1>1. MeterTypeOK /\ call \in [Deliveries -> Call]
    BY DEF MeterInv, MeterTypeOK
  <1>2. /\ call'[d].pc \notin Active
        /\ \A e \in Deliveries \ {d} : call'[e] = call[e]
    BY <1>1, CallAt DEF CountOrder, CountReplay, GoesOn, PC, Active
  <1>3. used' >= used /\ used' = Cardinality(counted')
    <2>1. CASE CountOrder(d)
      <3>1. IsFiniteSet(counted)
        BY <1>1, OrdersAssumption, FS_Subset DEF MeterTypeOK
      <3>2. OrderOf[d] \notin counted /\ counted' = counted \cup {OrderOf[d]}
            /\ used' = used + 1
        BY <2>1 DEF CountOrder
      <3>3. Cardinality(counted') = Cardinality(counted) + 1
        BY <3>1, <3>2, FS_AddElement
      <3> QED
        BY <1>1, <3>2, <3>3 DEF MeterInv, MeterTypeOK
    <2>2. CASE CountReplay(d)
      BY <1>1, <2>2 DEF CountReplay, meter, MeterInv, MeterTypeOK
    <2> QED
      BY <2>1, <2>2
  <1>4. /\ billed' = billed /\ balance' = balance /\ keys' = keys
        /\ faults' = faults /\ call[d].pc = "unsent"
    BY DEF CountOrder, CountReplay, meter, shopify
  <1>5. warned => warned'
    BY Zenon DEF CountOrder, CountReplay, meter
  <1> QED
    BY <1>2, <1>3, <1>4, <1>5, IdleStep

LEMMA GiveUpStep ==
    ASSUME MeterInv, MeterTypeOK', NEW d \in Deliveries,
           \/ QueryCapReached(d) \/ QueryNoLine(d) \/ ChargeRefused(d)
           \/ Crash(d) \/ (ChargeLost(d) /\ UNCHANGED shopify)
    PROVE  MeterInv'
  <1>1. MeterTypeOK /\ call \in [Deliveries -> Call]
    BY DEF MeterInv, MeterTypeOK
  <1>2. /\ call'[d].pc \notin Active
        /\ \A e \in Deliveries \ {d} : call'[e] = call[e]
    <2>1. call' = [call EXCEPT ![d] = Handling("done")]
          \/ call' = [call EXCEPT ![d] = Handling("unsent")]
      BY DEF QueryCapReached, QueryNoLine, ChargeRefused, Crash, ChargeLost
    <2> QED
      BY <1>1, <2>1, CallAt DEF PC, Active
  <1>3. UNCHANGED <<used, billed, warned, counted, balance, keys>>
    BY DEF QueryCapReached, QueryNoLine, ChargeRefused, Crash, ChargeLost,
           meter, shopify
  <1>4. \/ faults' = faults /\ call[d].pc # "claim"
        \/ faults' > faults
    BY <1>1 DEF QueryCapReached, QueryNoLine, ChargeRefused, Crash,
                ChargeLost, MeterTypeOK
  <1>5. used' >= used /\ used' = Cardinality(counted')
    BY <1>1, <1>3 DEF MeterInv, MeterTypeOK
  <1> QED
    BY <1>2, <1>3, <1>4, <1>5, IdleStep

(* What Shopify says, and steps of nobody.                                 *)
LEMMA BooksUntouched ==
    ASSUME MeterInv, MeterTypeOK', warned => warned',
           UNCHANGED <<used, billed, counted, balance, keys, call, faults>>
    PROVE  MeterInv'
  <1>1. KeyInv'
    BY DEF MeterInv, KeyInv, CallKeyInv, Key
  <1>2. ASSUME ~warned' PROVE BatchInv' /\ ClaimInv'
    BY <1>2 DEF MeterInv, BatchInv, CallBatchInv, ClaimInv, Ahead, Whole
  <1> QED
    BY <1>1, <1>2 DEF MeterInv

LEMMA StepMeter == MeterInv /\ [MeterNext]_meterVars => MeterInv'
  <1> SUFFICES ASSUME MeterInv, [MeterNext]_meterVars PROVE MeterInv'
    OBVIOUS
  <1>1. MeterTypeOK'
    BY StepTyped DEF MeterInv
  <1>2. CASE ApproachingCap
    BY <1>1, <1>2, BooksUntouched DEF ApproachingCap, shopify
  <1>3. ASSUME NEW d \in Deliveries, Handle(d) PROVE MeterInv'
    <2>1. CASE CountOrder(d) \/ CountReplay(d)
      BY <1>1, <2>1, CountStep
    <2>2. CASE ReadMeter(d)
      BY <1>1, <2>2, ReadStep
    <2>3. CASE QueryCap(d)
      BY <1>1, <2>3, QueryStep
    <2>4. CASE Charge(d)
      <3>1. CASE Known(d)
        BY <1>1, <2>4, <3>1, KnownStep
      <3>2. CASE ~Known(d)
        <4>1. Create(d) /\ Accepts(d)
          BY <2>4, <3>2 DEF Charge
        <4> QED
          BY <1>1, <2>4, <3>2, <4>1, CreateStep
      <3> QED
        BY <3>1, <3>2
    <2>5. CASE ChargeLost(d)
      <3>1. \/ Accepts(d) /\ ~Known(d) /\ Create(d)
            \/ UNCHANGED shopify
        BY <2>5 DEF ChargeLost
      <3>2. CASE Accepts(d) /\ ~Known(d) /\ Create(d)
        BY <1>1, <2>5, <3>2, CreateStep
      <3>3. CASE UNCHANGED shopify
        BY <1>1, <2>5, <3>3, GiveUpStep
      <3> QED
        BY <3>1, <3>2, <3>3
    <2>6. CASE ClaimBilled(d)
      BY <1>1, <2>6, ClaimStep
    <2>7. CASE \/ QueryCapReached(d) \/ QueryNoLine(d) \/ ChargeRefused(d)
               \/ Crash(d)
      BY <1>1, <2>7, GiveUpStep
    <2> QED
      BY <1>3, <2>1, <2>2, <2>3, <2>4, <2>5, <2>6, <2>7 DEF Handle
  <1>4. CASE UNCHANGED meterVars
    BY <1>1, <1>4, BooksUntouched DEF meterVars
  <1> QED
    BY <1>2, <1>3, <1>4 DEF MeterNext

(* The inductive invariant holds in every state.                           *)
THEOREM MeterInvariant == MeterSpec => []MeterInv
  BY InitMeter, StepMeter, PTL DEF MeterSpec

-----------------------------------------------------------------------------
(* What follows from it                                                    *)

(* billSoftOrderOverage never moves billedUnits past what Shopify holds,   *)
(* with partial charges, slips of the division, lost answers and crashes.  *)
THEOREM NothingClaimedUncharged == MeterSpec => []BilledIsCharged
  <1>1. MeterInv => BilledIsCharged
    BY DEF MeterInv, KeyInv, BilledIsCharged
  <1> QED
    BY <1>1, MeterInvariant, PTL

(* Until the cap warning Shopify's balance is what billedUnits says or one *)
(* batch more, and within the number of orders above the soft limit.       *)
THEOREM ExactBeforeWarning == MeterSpec => []ChargesAreExactBeforeWarning
  <1>1. MeterInv => ChargesAreExactBeforeWarning
    <2> SUFFICES ASSUME MeterInv, ~warned
                 PROVE  /\ balance \in {billed, billed + Batch}
                        /\ \/ balance <= Cardinality(counted) - SoftLimit
                           \/ balance = 0
      BY DEF ChargesAreExactBeforeWarning
    <2>1. BatchInv /\ MeterTypeOK /\ used = Cardinality(counted)
      BY DEF MeterInv
    <2> QED
      BY <2>1, BatchAssumption, LimitsAssumption DEF BatchInv, Ahead, MeterTypeOK
  <1> QED
    BY <1>1, MeterInvariant, PTL

(* Without faults one of the handlers that charged a batch under one key   *)
(* claims it, so at rest the books agree.                                  *)
THEOREM BooksAgree == MeterSpec => []HealthyBooksAgree
  <1>1. MeterInv => HealthyBooksAgree
    BY DEF MeterInv, ClaimInv, HealthyBooksAgree
  <1> QED
    BY <1>1, MeterInvariant, PTL
=============================================================================
