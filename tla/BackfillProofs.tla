--------------------------- MODULE BackfillProofs ---------------------------
(***************************************************************************)
(* Machine-checked theorems about Backfill, for every set of requests,     *)
(* processes and scopes, every length of the walk, every diagnostic        *)
(* ceiling and every number of uninstallations, grants and faults.         *)
(***************************************************************************)
EXTENDS Backfill, FiniteSetTheorems, TLAPS

-----------------------------------------------------------------------------
(* What each write leaves in the columns                                   *)

Unfresh(q) == [q EXCEPT !.fresh = FALSE]

(* All that a run knows but its place and its snapshot's freshness.        *)
SameRun(q, o) == /\ q.home = o.home /\ q.scopes = o.scopes /\ q.page = o.page
                 /\ q.end = o.end /\ q.count = o.count
                 /\ q.resuming = o.resuming /\ q.lost = o.lost
                 /\ q.rows = o.rows

RunPC == {"idle"} \cup Waiting \cup Working \cup Ended

LEMMA RunWrites ==
    ASSUME NEW q \in Run
    PROVE  /\ Unfresh(q) \in Run /\ Unfresh(q).pc = q.pc
           /\ Unfresh(q).fresh = FALSE /\ SameRun(Unfresh(q), q)
           /\ \A c \in RunPC : /\ [q EXCEPT !.pc = c] \in Run
                               /\ [q EXCEPT !.pc = c].pc = c
                               /\ [q EXCEPT !.pc = c].fresh = q.fresh
                               /\ SameRun([q EXCEPT !.pc = c], q)
           /\ \A c \in RunPC : Unfresh([q EXCEPT !.pc = c])
                                 = [q EXCEPT !.pc = c, !.fresh = FALSE]
           /\ q.pc \in RunPC
  BY DEF Run, RunPC, Unfresh, SameRun

LEMMA RunTyped ==
    ASSUME TypeOK, NEW r \in Runs
    PROVE  /\ run[r] \in Run /\ r # None
           /\ run[r].page \in 0..LastPage /\ run[r].count \in 0..LastPage
           /\ run[r].end \in 0..LastPage /\ run[r].rows \subseteq Pages
           /\ run[r].fresh \in BOOLEAN /\ run[r].pc \in RunPC
  <1>1. run[r] \in Run
    BY DEF TypeOK
  <1> QED
    BY <1>1, NamesAssumption DEF Run, RunPC

LEMMA IdleTyped ==
    ASSUME NEW p \in Processes, NEW c \in RunPC
    PROVE  /\ [Idle EXCEPT !.pc = c, !.home = p] \in Run
           /\ [Idle EXCEPT !.home = p, !.pc = c] \in Run
           /\ [Idle EXCEPT !.pc = c, !.home = p].pc = c
           /\ [Idle EXCEPT !.home = p, !.pc = c].pc = c
           /\ [Idle EXCEPT !.pc = c, !.home = p].lost = FALSE
           /\ [Idle EXCEPT !.home = p, !.pc = c].lost = FALSE
  <1>1. 0 \in 0..LastPage
    BY BoundsAssumption
  <1> QED
    BY <1>1 DEF Idle, Run, RunPC

(* One run moves and the others stay, with or without their snapshots.     *)
Stay(r)   == \A x \in Runs \ {r} : run'[x] = run[x]
Unsettle(r) == \A x \in Runs \ {r} : run'[x] = Unfresh(run[x])

LEMMA OneMoves ==
    ASSUME TypeOK, NEW r \in Runs, NEW q \in Run,
           run' = [run EXCEPT ![r] = q]
    PROVE  run' \in [Runs -> Run] /\ run'[r] = q /\ Stay(r)
  BY DEF TypeOK, Stay

LEMMA TouchedTyped ==
    ASSUME TypeOK
    PROVE  /\ Touched(run) \in [Runs -> Run]
           /\ \A x \in Runs : Touched(run)[x] = Unfresh(run[x])
  BY RunTyped, RunWrites DEF Touched, Unfresh

LEMMA OneMovesTouched ==
    ASSUME TypeOK, NEW r \in Runs, NEW q \in Run,
           run' = [Touched(run) EXCEPT ![r] = q]
    PROVE  run' \in [Runs -> Run] /\ run'[r] = q /\ Unsettle(r)
  BY TouchedTyped DEF Unsettle

LEMMA PcMoves ==
    ASSUME TypeOK, NEW r \in Runs, NEW c \in RunPC,
           run' = [run EXCEPT ![r].pc = c]
    PROVE  /\ run' \in [Runs -> Run] /\ Stay(r)
           /\ run'[r].pc = c /\ run'[r].fresh = run[r].fresh
           /\ SameRun(run'[r], run[r])
  <1> DEFINE q == [run[r] EXCEPT !.pc = c]
  <1>1. q \in Run /\ q.pc = c /\ q.fresh = run[r].fresh /\ SameRun(q, run[r])
    <2>1. run[r] \in Run
      BY RunTyped
    <2> QED
      BY <2>1 DEF Run, RunPC, SameRun
  <1>2. run' = [run EXCEPT ![r] = q]
    OBVIOUS
  <1> HIDE DEF q
  <1> QED
    BY <1>1, <1>2, OneMoves

LEMMA PcMovesTouched ==
    ASSUME TypeOK, NEW r \in Runs, NEW c \in RunPC,
           run' = [Touched(run) EXCEPT ![r].pc = c]
    PROVE  /\ run' \in [Runs -> Run] /\ Unsettle(r)
           /\ run'[r].pc = c /\ run'[r].fresh = FALSE
           /\ SameRun(run'[r], run[r])
  <1> DEFINE q == [run[r] EXCEPT !.pc = c, !.fresh = FALSE]
  <1>1. /\ q \in Run /\ q.pc = c /\ q.fresh = FALSE /\ SameRun(q, run[r])
        /\ [Touched(run)[r] EXCEPT !.pc = c] = q
    <2>1. run[r] \in Run /\ Touched(run)[r] = Unfresh(run[r])
      BY RunTyped, TouchedTyped
    <2> QED
      BY <2>1 DEF Unfresh, Run, RunPC, SameRun
  <1>2. run' = [Touched(run) EXCEPT ![r] = q]
    BY <1>1
  <1> HIDE DEF q
  <1> QED
    BY <1>1, <1>2, OneMovesTouched

LEMMA ShopWrites ==
    ASSUME NEW s \in Shop
    PROVE  /\ \A b \in BOOLEAN :
                /\ [s EXCEPT !.live = b] \in Shop
                /\ [s EXCEPT !.live = b].status = s.status
                /\ [s EXCEPT !.live = b].token = s.token
                /\ [s EXCEPT !.live = b].live = b
                /\ [s EXCEPT !.live = b].cursor = s.cursor
                /\ [s EXCEPT !.live = b].count = s.count
                /\ [s EXCEPT !.live = b].uninstalled = s.uninstalled
  BY DEF Shop

(* A fenced write: the owner's, which renews the lease, or none at all.    *)
LEMMA ProgressMoves ==
    ASSUME TypeOK, NEW r \in Runs, NEW row \in Shop, NEW next \in Run,
           Progress(r, row, next)
    PROVE  /\ run' \in [Runs -> Run] /\ shop' \in Shop
           /\ \/ /\ Owns(r) /\ run'[r] = next /\ Unsettle(r)
                 /\ shop'.status = row.status /\ shop'.token = row.token
                 /\ shop'.live = TRUE /\ shop'.cursor = row.cursor
                 /\ shop'.count = row.count
                 /\ shop'.uninstalled = row.uninstalled
              \/ /\ ~Owns(r) /\ shop' = shop /\ Stay(r)
                 /\ run'[r].pc = "fail" /\ run'[r].fresh = run[r].fresh
                 /\ SameRun(run'[r], run[r])
  <1>s. shop \in Shop
    BY DEF TypeOK
  <1>1. CASE Owns(r)
    <2>1. shop' = [row EXCEPT !.live = TRUE]
          /\ run' = [Touched(run) EXCEPT ![r] = next]
      BY <1>1 DEF Progress
    <2> QED
      BY <1>1, <2>1, OneMovesTouched, ShopWrites
  <1>2. CASE ~Owns(r)
    <2>1. shop' = shop /\ run' = [run EXCEPT ![r].pc = "fail"]
      BY <1>2 DEF Progress
    <2>2. "fail" \in RunPC
      BY DEF RunPC, Working
    <2> QED
      BY <1>2, <1>s, <2>1, <2>2, PcMoves
  <1> QED
    BY <1>1, <1>2

-----------------------------------------------------------------------------
(* What each step does                                                     *)

(* All runs stay where they are; their snapshots may have gone stale.      *)
Stand(x) == /\ run'[x].pc = run[x].pc /\ SameRun(run'[x], run[x])
            /\ run'[x].fresh => run[x].fresh

LEMMA Standing ==
    ASSUME TypeOK, NEW r \in Runs, Stay(r) \/ Unsettle(r)
    PROVE  \A x \in Runs \ {r} : Stand(x)
  <1> SUFFICES ASSUME NEW x \in Runs \ {r}
               PROVE  Stand(x)
    OBVIOUS
  <1>1. run[x] \in Run
    BY RunTyped
  <1>2. CASE run'[x] = run[x]
    BY <1>2 DEF Stand, SameRun
  <1>3. CASE run'[x] = Unfresh(run[x])
    BY <1>1, <1>3 DEF Unfresh, Run, Stand, SameRun
  <1> QED
    BY <1>2, <1>3 DEF Stay, Unsettle

(* The steps of a request before it owns the row: the row is left alone,   *)
(* but for a shop that comes back.                                         *)
LEMMA AuthMoves ==
    ASSUME TypeOK, NEW r \in Runs, NEW p \in Processes,
           AfterAuth(r, p) \/ Resync(r, p)
    PROVE  /\ run' \in [Runs -> Run] /\ run'[r].pc \in {"ask", "refused"}
           /\ run[r].pc = "idle" /\ run'[r].lost = FALSE
           /\ shop' \in Shop /\ UNCHANGED <<imported, capacity, active, bounds>>
           /\ \/ Stay(r) /\ shop' = shop
              \/ /\ Unsettle(r) /\ shop.uninstalled
                 /\ shop'.status = "PENDING" /\ shop'.cursor = shop.cursor
                 /\ shop'.count = shop.count
  <1>s. shop \in Shop
    BY DEF TypeOK
  <1>p. "ask" \in RunPC /\ "refused" \in RunPC
    BY DEF RunPC, Waiting, Ended
  <1>1. CASE AfterAuth(r, p) /\ Returning(r, p)
    <2>1. run' = [Touched(run) EXCEPT ![r] =
                    [Idle EXCEPT !.pc = "ask", !.home = p]]
      BY <1>1 DEF Returning
    <2>2. /\ shop' \in Shop /\ shop.uninstalled
          /\ shop'.status = "PENDING" /\ shop'.cursor = shop.cursor
          /\ shop'.count = shop.count
      BY <1>1, <1>s DEF Returning, Shop, Status
    <2> QED
      BY <1>1, <1>p, <2>1, <2>2, IdleTyped, OneMovesTouched DEF AfterAuth
  <1>2. ASSUME NEW c \in {"ask", "refused"}, UNCHANGED shop,
               run' = [run EXCEPT ![r] = [Idle EXCEPT !.home = p, !.pc = c]]
        PROVE  /\ run' \in [Runs -> Run] /\ run'[r].pc \in {"ask", "refused"}
               /\ run'[r].lost = FALSE
               /\ shop' \in Shop /\ Stay(r) /\ shop' = shop
    <2>1. c \in RunPC
      BY <1>2, <1>p
    <2> QED
      <3> DEFINE q == [Idle EXCEPT !.home = p, !.pc = c]
      <3>1. q \in Run /\ q.pc = c /\ q.lost = FALSE
        BY <2>1, IdleTyped
      <3>2. run' = [run EXCEPT ![r] = q]
        BY <1>2
      <3> HIDE DEF q
      <3>3. run' \in [Runs -> Run] /\ run'[r] = q /\ Stay(r)
        BY <3>1, <3>2, OneMoves
      <3> QED
        BY <1>s, <1>2, <3>1, <3>3
  <1>3. CASE AfterAuth(r, p) /\ Reauthorised(r, p)
    BY <1>2, <1>3 DEF AfterAuth, Reauthorised
  <1>4. CASE Resync(r, p)
    <2>1. run' = [run EXCEPT ![r] = [Idle EXCEPT !.pc = "ask", !.home = p]]
          /\ UNCHANGED shop
      BY <1>4 DEF Resync
    <2>2. /\ [Idle EXCEPT !.pc = "ask", !.home = p] \in Run
          /\ [Idle EXCEPT !.pc = "ask", !.home = p].pc = "ask"
          /\ [Idle EXCEPT !.pc = "ask", !.home = p].lost = FALSE
      BY <1>p, IdleTyped
    <2>3. /\ run' \in [Runs -> Run] /\ Stay(r)
          /\ run'[r] = [Idle EXCEPT !.pc = "ask", !.home = p]
      BY <2>1, <2>2, OneMoves
    <2> QED
      BY <1>s, <1>4, <2>1, <2>2, <2>3 DEF Resync
  <1> QED
    BY <1>1, <1>3, <1>4 DEF AfterAuth

LEMMA AskMoves ==
    ASSUME TypeOK, NEW r \in Runs, Ask(r) \/ ClaimLost(r)
    PROVE  /\ run' \in [Runs -> Run] /\ run'[r].pc \in {"read", "refused"}
           /\ Stay(r) /\ SameRun(run'[r], run[r])
           /\ run[r].pc \in {"ask", "claim"}
           /\ UNCHANGED <<shop, imported, capacity, active, bounds>>
  <1>p. "read" \in RunPC /\ "refused" \in RunPC
    BY DEF RunPC, Waiting, Ended
  <1>1. \E c \in {"read", "refused"} : run' = [run EXCEPT ![r].pc = c]
    BY DEF Ask, ClaimLost
  <1> QED
    BY <1>p, <1>1, PcMoves DEF Ask, ClaimLost

LEMMA ReadMoves ==
    ASSUME TypeOK, NEW r \in Runs, ReadShop(r)
    PROVE  /\ run' \in [Runs -> Run] /\ Stay(r)
           /\ UNCHANGED <<shop, imported, capacity, active, bounds>>
           /\ run'[r].lost = run[r].lost
           /\ \/ run'[r].pc = "refused"
              \/ /\ Claimable
                 /\ run'[r].pc = "claim" /\ run'[r].fresh
                 /\ run'[r].scopes = shop.scopes
                 /\ run'[r].page = ResumePoint
                 /\ run'[r].count = IF ResumePoint > 0 THEN shop.count ELSE 0
  <1>q. run[r] \in Run /\ shop \in Shop
    BY RunTyped DEF TypeOK
  <1>z. ResumePoint \in 0..LastPage /\ 0 \in 0..LastPage
    BY <1>q, BoundsAssumption DEF ResumePoint, Shop
  <1>1. CASE Claimable
    <2> DEFINE q == [run[r] EXCEPT !.pc = "claim", !.fresh = TRUE,
                                   !.scopes = shop.scopes,
                                   !.page = ResumePoint,
                                   !.count = IF ResumePoint > 0
                                             THEN shop.count ELSE 0,
                                   !.resuming = ResumePoint > 0]
    <2>1. /\ shop.count \in 0..LastPage
          /\ shop.scopes \in Scopes \cup {None}
          /\ "claim" \in RunPC /\ (ResumePoint > 0) \in BOOLEAN
      BY <1>q DEF Shop, RunPC, Waiting
    <2>2. (IF ResumePoint > 0 THEN shop.count ELSE 0) \in 0..LastPage
      BY <1>z, <2>1
    <2>3. q \in Run
      BY <1>q, <1>z, <2>1, <2>2, Zenon DEF Run, RunPC
    <2>4. /\ q.pc = "claim" /\ q.fresh /\ q.scopes = shop.scopes
          /\ q.page = ResumePoint
          /\ q.count = IF ResumePoint > 0 THEN shop.count ELSE 0
          /\ q.lost = run[r].lost
      BY <1>q DEF Run
    <2>5. run' = [run EXCEPT ![r] = q]
      BY <1>1 DEF ReadShop
    <2> HIDE DEF q
    <2> QED
      BY <1>1, <2>3, <2>4, <2>5, OneMoves DEF ReadShop
  <1>2. CASE ~Claimable
    <2>1. run' = [run EXCEPT ![r].pc = "refused"] /\ "refused" \in RunPC
      BY <1>2 DEF ReadShop, RunPC, Ended
    <2> QED
      BY <2>1, PcMoves DEF ReadShop, SameRun
  <1> QED
    BY <1>1, <1>2

LEMMA ClaimMoves ==
    ASSUME TypeOK, NEW r \in Runs, Claim(r)
    PROVE  /\ run' \in [Runs -> Run] /\ Unsettle(r) /\ run'[r].pc = "setup"
           /\ SameRun(run'[r], run[r])
           /\ shop' \in Shop
           /\ shop'.status = "RUNNING" /\ shop'.token = r /\ shop'.live = TRUE
           /\ shop'.cursor = run[r].page /\ shop'.count = run[r].count
           /\ shop'.uninstalled = shop.uninstalled
           /\ active' \in [Processes -> Runs \cup {None}]
           /\ UNCHANGED <<imported, capacity, bounds>>
  <1>s. shop \in Shop /\ active \in [Processes -> Runs \cup {None}]
    BY DEF TypeOK
  <1>1. run' = [Touched(run) EXCEPT ![r].pc = "setup"] /\ "setup" \in RunPC
    BY DEF Claim, RunPC, Working, Walking
  <1>2. run[r].page \in 0..LastPage /\ run[r].count \in 0..LastPage
    BY RunTyped
  <1>3. /\ shop' \in Shop
        /\ shop'.status = "RUNNING" /\ shop'.token = r /\ shop'.live = TRUE
        /\ shop'.cursor = run[r].page /\ shop'.count = run[r].count
        /\ shop'.uninstalled = shop.uninstalled
    BY <1>s, <1>2 DEF Claim, Shop, Status
  <1> QED
    BY <1>s, <1>1, <1>3, PcMovesTouched DEF Claim

(* The steps of a working run.                                             *)
LEMMA SetupMoves ==
    ASSUME TypeOK, NEW r \in Runs, Setup(r)
    PROVE  /\ run' \in [Runs -> Run] /\ shop' \in Shop
           /\ run[r].pc = "setup" /\ SameRun(run'[r], run[r])
           /\ shop'.status = shop.status /\ shop'.token = shop.token
           /\ shop'.cursor = shop.cursor /\ shop'.count = shop.count
           /\ shop'.uninstalled = shop.uninstalled
           /\ \/ Owns(r) /\ run'[r].pc = "fetch" /\ Unsettle(r) /\ shop'.live
              \/ ~Owns(r) /\ run'[r].pc = "fail" /\ Stay(r) /\ shop' = shop
           /\ UNCHANGED <<imported, capacity, active, bounds>>
  <1> DEFINE next == [run[r] EXCEPT !.pc = "fetch", !.fresh = FALSE]
  <1>1. /\ next \in Run /\ next.pc = "fetch" /\ SameRun(next, run[r])
        /\ Progress(r, shop, next)
    <2>1. run[r] \in Run
      BY RunTyped
    <2> QED
      BY <2>1 DEF Run, SameRun, Working, Walking, Setup
  <1>2. shop \in Shop
    BY DEF TypeOK
  <1> HIDE DEF next
  <1> QED
    BY <1>1, <1>2, ProgressMoves DEF Setup

LEMMA SaveMoves ==
    ASSUME TypeOK, NEW r \in Runs, SavePage(r)
    PROVE  /\ run' \in [Runs -> Run] /\ shop' \in Shop
           /\ run[r].pc = "save" /\ SameRun(run'[r], run[r])
           /\ shop'.status = shop.status /\ shop'.token = shop.token
           /\ shop'.uninstalled = shop.uninstalled
           /\ \/ /\ Owns(r) /\ run'[r].pc = AfterPage(r) /\ Unsettle(r)
                 /\ shop'.cursor = run[r].end /\ shop'.count = run[r].count
                 /\ shop'.live
              \/ ~Owns(r) /\ run'[r].pc = "fail" /\ Stay(r) /\ shop' = shop
           /\ UNCHANGED <<imported, capacity, active, bounds>>
  <1> DEFINE next == [run[r] EXCEPT !.pc = AfterPage(r), !.fresh = FALSE]
             row  == [shop EXCEPT !.cursor = run[r].end, !.count = run[r].count]
  <1>1. AfterPage(r) \in {"capacity", "fail", "fetch"}
    BY DEF AfterPage
  <1>2. /\ next \in Run /\ next.pc = AfterPage(r) /\ SameRun(next, run[r])
        /\ Progress(r, row, next)
    <2>1. run[r] \in Run
      BY RunTyped
    <2> HIDE DEF row
    <2>2. Progress(r, row, next)
      BY DEF SavePage, row
    <2> QED
      BY <1>1, <2>1, <2>2 DEF Run, SameRun, Working, Walking
  <1>3. /\ row \in Shop /\ row.status = shop.status /\ row.token = shop.token
        /\ row.cursor = run[r].end /\ row.count = run[r].count
        /\ row.uninstalled = shop.uninstalled
    BY RunTyped DEF TypeOK, Shop
  <1> HIDE DEF next, row
  <1> QED
    BY <1>2, <1>3, ProgressMoves DEF SavePage

LEMMA CapacityMoves ==
    ASSUME TypeOK, NEW r \in Runs, ReadCapacity(r)
    PROVE  /\ run' \in [Runs -> Run] /\ shop' \in Shop
           /\ run[r].pc = "capacity"
           /\ run'[r].scopes = run[r].scopes /\ run'[r].lost = run[r].lost
           /\ shop'.status = shop.status /\ shop'.token = shop.token
           /\ shop'.cursor = shop.cursor /\ shop'.count = shop.count
           /\ shop'.uninstalled = shop.uninstalled
           /\ \/ /\ Owns(r) /\ run'[r].pc = "delete" /\ Unsettle(r)
                 /\ run'[r].rows = Stored /\ shop'.live
              \/ ~Owns(r) /\ run'[r].pc = "fail" /\ Stay(r) /\ shop' = shop
           /\ UNCHANGED <<imported, capacity, active, bounds>>
  <1> DEFINE next == [run[r] EXCEPT !.pc = "delete", !.rows = Stored,
                                    !.fresh = FALSE]
  <1>1. /\ next \in Run /\ next.pc = "delete" /\ next.rows = Stored
        /\ next.scopes = run[r].scopes /\ next.lost = run[r].lost
        /\ Progress(r, shop, next)
    <2>1. run[r] \in Run
      BY RunTyped
    <2>2. Stored \in SUBSET Pages
      BY DEF Stored
    <2>3. Progress(r, shop, next)
      BY DEF ReadCapacity
    <2> QED
      BY <2>1, <2>2, <2>3 DEF Run, Working
  <1>2. shop \in Shop
    BY DEF TypeOK
  <1> HIDE DEF next
  <1> QED
    BY <1>1, <1>2, ProgressMoves DEF ReadCapacity, SameRun

LEMMA ComputeMoves ==
    ASSUME TypeOK, NEW r \in Runs, Compute(r)
    PROVE  /\ run' \in [Runs -> Run] /\ shop' \in Shop
           /\ run[r].pc = "compute" /\ SameRun(run'[r], run[r])
           /\ shop'.status = shop.status /\ shop'.token = shop.token
           /\ shop'.cursor = shop.cursor /\ shop'.count = shop.count
           /\ shop'.uninstalled = shop.uninstalled
           /\ \/ Owns(r) /\ run'[r].pc = "stop" /\ Unsettle(r) /\ shop'.live
              \/ ~Owns(r) /\ run'[r].pc = "fail" /\ Stay(r) /\ shop' = shop
           /\ UNCHANGED <<imported, capacity, active, bounds>>
  <1> DEFINE next == [run[r] EXCEPT !.pc = "stop", !.fresh = FALSE]
  <1>1. /\ next \in Run /\ next.pc = "stop" /\ SameRun(next, run[r])
        /\ Progress(r, shop, next)
    <2>1. run[r] \in Run
      BY RunTyped
    <2> QED
      BY <2>1 DEF Run, SameRun, Working, Compute
  <1>2. shop \in Shop
    BY DEF TypeOK
  <1> HIDE DEF next
  <1> QED
    BY <1>1, <1>2, ProgressMoves DEF Compute

LEMMA FetchMoves ==
    ASSUME TypeOK, NEW r \in Runs, FetchPage(r),
           run[r].count = run[r].page, run[r].scopes \in Scopes
    PROVE  /\ run' \in [Runs -> Run] /\ Stay(r)
           /\ run[r].pc = "fetch" /\ run'[r].pc = "save" /\ ~shop.uninstalled
           /\ run'[r].scopes = run[r].scopes /\ run'[r].lost = run[r].lost
           /\ imported' \in [Pages -> SUBSET Scopes]
           /\ \/ /\ run[r].page < LastPage
                 /\ run'[r].page = run[r].page + 1
                 /\ run'[r].end = run[r].page + 1
                 /\ run'[r].count = run[r].page + 1
                 /\ imported' = [imported EXCEPT ![run[r].page + 1] =
                                   {run[r].scopes}]
              \/ /\ run'[r].page = run[r].page /\ run'[r].end = 0
                 /\ run'[r].count = run[r].count /\ imported' = imported
           /\ UNCHANGED <<shop, capacity, active, bounds>>
  <1>q. /\ run[r] \in Run /\ run[r].page \in 0..LastPage
        /\ LastPage \in Nat /\ 0 \in 0..LastPage
    BY RunTyped, BoundsAssumption
  <1>i. imported \in [Pages -> SUBSET Scopes]
    BY DEF TypeOK
  <1>1. CASE run[r].page < LastPage
    <2> DEFINE p == run[r].page + 1
               q == [run[r] EXCEPT !.pc = "save", !.resuming = FALSE,
                       !.page = p, !.end = p, !.count = run[r].count + 1]
    <2>1. p \in 0..LastPage /\ p \in Pages /\ run[r].count + 1 = p
      BY <1>q, <1>1 DEF Pages
    <2>2. /\ run' = [run EXCEPT ![r] = q]
          /\ imported' = [imported EXCEPT ![p] = {run[r].scopes}]
      BY <1>1, Zenon DEF FetchPage
    <2> HIDE DEF p
    <2>3. /\ q \in Run /\ q.pc = "save" /\ q.page = p /\ q.end = p
          /\ q.count = p /\ q.scopes = run[r].scopes /\ q.lost = run[r].lost
      BY <1>q, <2>1 DEF Run, Working, Walking
    <2> HIDE DEF q
    <2>4. run' \in [Runs -> Run] /\ Stay(r) /\ run'[r] = q
      BY <2>2, <2>3, OneMoves
    <2>5. imported' \in [Pages -> SUBSET Scopes]
      BY <1>i, <2>1, <2>2
    <2>6. /\ UNCHANGED <<shop, capacity, active, bounds>>
          /\ run[r].pc = "fetch" /\ ~shop.uninstalled
      BY DEF FetchPage
    <2> QED
      BY <1>1, <2>2, <2>3, <2>4, <2>5, <2>6 DEF p
  <1>2. CASE ~(run[r].page < LastPage)
    <2> DEFINE q == [run[r] EXCEPT !.pc = "save", !.resuming = FALSE,
                       !.end = 0]
    <2>1. run' = [run EXCEPT ![r] = q] /\ imported' = imported
      BY <1>2 DEF FetchPage
    <2>2. /\ q \in Run /\ q.pc = "save" /\ q.page = run[r].page /\ q.end = 0
          /\ q.count = run[r].count /\ q.scopes = run[r].scopes
          /\ q.lost = run[r].lost
      BY <1>q DEF Run, Working, Walking
    <2> HIDE DEF q
    <2>3. run' \in [Runs -> Run] /\ Stay(r) /\ run'[r] = q
      BY <2>1, <2>2, OneMoves
    <2>4. /\ UNCHANGED <<shop, capacity, active, bounds>>
          /\ run[r].pc = "fetch" /\ ~shop.uninstalled
      BY DEF FetchPage
    <2> QED
      BY <1>i, <2>1, <2>2, <2>3, <2>4
  <1> QED
    BY <1>1, <1>2

LEMMA InvalidMoves ==
    ASSUME TypeOK, NEW r \in Runs, InvalidCursor(r)
    PROVE  /\ run' \in [Runs -> Run] /\ Stay(r)
           /\ run[r].pc = "fetch" /\ run'[r].pc = "fetch"
           /\ run'[r].page = 0 /\ run'[r].count = 0
           /\ run'[r].scopes = run[r].scopes /\ run'[r].lost = run[r].lost
           /\ Fault
           /\ UNCHANGED <<shop, imported, capacity, active, uninstalls, grants>>
  <1> DEFINE q == [run[r] EXCEPT !.page = 0, !.count = 0, !.resuming = FALSE]
  <1>1. run[r] \in Run /\ 0 \in 0..LastPage /\ run[r].pc = "fetch"
    BY RunTyped, BoundsAssumption DEF InvalidCursor
  <1>2. run' = [run EXCEPT ![r] = q]
    BY DEF InvalidCursor
  <1>3. /\ q \in Run /\ q.page = 0 /\ q.count = 0 /\ q.pc = "fetch"
        /\ q.scopes = run[r].scopes /\ q.lost = run[r].lost
    BY <1>1 DEF Run
  <1> HIDE DEF q
  <1> QED
    BY <1>1, <1>2, <1>3, OneMoves DEF InvalidCursor

(* Steps that only take a run to its next statement.                       *)
LEMMA PlainMoves ==
    ASSUME TypeOK, NEW r \in Runs,
           \/ FetchFails(r) \/ ClearCapacity(r) \/ DeleteRows(r)
           \/ CreateRows(r) \/ StopHeartbeat(r)
    PROVE  /\ run' \in [Runs -> Run] /\ Stay(r) /\ SameRun(run'[r], run[r])
           /\ run'[r].fresh = run[r].fresh
           /\ UNCHANGED <<shop, imported, active, uninstalls, grants>>
           /\ \/ FetchFails(r) /\ run'[r].pc = "fail"
              \/ ClearCapacity(r) /\ run'[r].pc = "compute"
              \/ DeleteRows(r) /\ run'[r].pc = IF run[r].rows = {}
                                               THEN "compute" ELSE "create"
              \/ CreateRows(r) /\ run'[r].pc = IF capacity = {}
                                               THEN "compute" ELSE "fail"
              \/ StopHeartbeat(r) /\ run'[r].pc = IF run[r].lost
                                                  THEN "fail" ELSE "complete"
  <1>p. {"fail", "compute", "create", "complete"} \subseteq RunPC
    BY DEF RunPC, Working
  <1>1. CASE FetchFails(r)
    BY <1>1, <1>p, PcMoves DEF FetchFails
  <1>2. CASE ClearCapacity(r)
    BY <1>2, <1>p, PcMoves DEF ClearCapacity, bounds
  <1>3. CASE DeleteRows(r)
    BY <1>3, <1>p, PcMoves DEF DeleteRows, bounds
  <1>4. CASE CreateRows(r)
    BY <1>4, <1>p, PcMoves DEF CreateRows, bounds
  <1>5. CASE StopHeartbeat(r)
    BY <1>5, <1>p, PcMoves DEF StopHeartbeat, bounds
  <1> QED
    BY <1>1, <1>2, <1>3, <1>4, <1>5

LEMMA EndMoves ==
    ASSUME TypeOK, NEW r \in Runs, Complete(r) \/ Fail(r)
    PROVE  /\ run' \in [Runs -> Run] /\ SameRun(run'[r], run[r])
           /\ run'[r].pc \in {"done", "fail"}
           /\ shop' \in Shop /\ active' \in [Processes -> Runs \cup {None}]
           /\ shop'.uninstalled = shop.uninstalled
           /\ \/ ~Owns(r) /\ Stay(r) /\ shop' = shop
              \/ /\ Owns(r) /\ Unsettle(r) /\ run'[r].pc = "done"
                 /\ shop'.status \in {"COMPLETE", "FAILED"}
                 /\ shop'.count = shop.count
                 /\ shop'.status = "COMPLETE" =>
                      run[r].pc = "complete" /\ shop'.cursor = 0
                 /\ shop'.status = "FAILED" =>
                      run[r].pc = "fail" /\ shop'.cursor = shop.cursor
           /\ UNCHANGED <<imported, capacity, bounds>>
  <1>s. shop \in Shop /\ active \in [Processes -> Runs \cup {None}]
    BY DEF TypeOK
  <1>z. 0 \in 0..LastPage
    BY BoundsAssumption
  <1>a. active' \in [Processes -> Runs \cup {None}]
    BY <1>s DEF Complete, Fail, Forgotten
  <1>p. "done" \in RunPC /\ "fail" \in RunPC
    BY DEF RunPC, Working, Ended
  <1>1. CASE Complete(r) /\ Owns(r)
    <2>1. /\ shop' = [Settled("COMPLETE") EXCEPT !.cursor = 0]
          /\ run' = [Touched(run) EXCEPT ![r].pc = "done"]
          /\ run[r].pc = "complete"
          /\ UNCHANGED <<imported, capacity, bounds>>
      BY <1>1 DEF Complete
    <2>2. /\ shop' \in Shop /\ shop'.uninstalled = shop.uninstalled
          /\ shop'.status = "COMPLETE" /\ shop'.cursor = 0
          /\ shop'.count = shop.count
      BY <1>s, <1>z, <2>1 DEF Settled, Shop, Status
    <2> QED
      BY <1>1, <1>a, <1>p, <2>1, <2>2, PcMovesTouched
  <1>2. CASE Fail(r) /\ Owns(r)
    <2>1. /\ shop' = Settled("FAILED")
          /\ run' = [Touched(run) EXCEPT ![r].pc = "done"]
          /\ run[r].pc = "fail"
          /\ UNCHANGED <<imported, capacity, bounds>>
      BY <1>2 DEF Fail
    <2>2. /\ shop' \in Shop /\ shop'.uninstalled = shop.uninstalled
          /\ shop'.status = "FAILED" /\ shop'.cursor = shop.cursor
          /\ shop'.count = shop.count
      BY <1>s, <2>1 DEF Settled, Shop, Status
    <2> QED
      BY <1>2, <1>a, <1>p, <2>1, <2>2, PcMovesTouched
  <1>3. CASE ~Owns(r)
    <2>1. /\ \E c \in {"done", "fail"} : run' = [run EXCEPT ![r].pc = c]
          /\ UNCHANGED <<shop, imported, capacity, bounds>>
      BY <1>3 DEF Complete, Fail
    <2> QED
      BY <1>3, <1>s, <1>a, <1>p, <2>1, PcMoves
  <1> QED
    BY <1>1, <1>2, <1>3

LEMMA BeatMoves ==
    ASSUME TypeOK, NEW r \in Runs, Beat(r)
    PROVE  /\ run' \in [Runs -> Run] /\ shop' \in Shop
           /\ shop'.status = shop.status /\ shop'.token = shop.token
           /\ shop'.cursor = shop.cursor /\ shop'.count = shop.count
           /\ shop'.uninstalled = shop.uninstalled
           /\ \/ /\ Owns(r) /\ shop'.live
                 /\ \A x \in Runs : run'[x] = Unfresh(run[x])
              \/ /\ ~Owns(r) /\ shop' = shop /\ Stay(r)
                 /\ run'[r].pc = run[r].pc /\ run'[r].fresh = run[r].fresh
                 /\ run'[r].page = run[r].page /\ run'[r].end = run[r].end
                 /\ run'[r].count = run[r].count
                 /\ run'[r].scopes = run[r].scopes
                 /\ run'[r].rows = run[r].rows
           /\ run[r].pc \in Working
           /\ UNCHANGED <<imported, capacity, active, bounds>>
  <1>s. shop \in Shop
    BY DEF TypeOK
  <1>1. CASE Owns(r)
    <2>1. shop' = [shop EXCEPT !.live = TRUE] /\ run' = Touched(run)
      BY <1>1 DEF Beat
    <2>2. run' \in [Runs -> Run] /\ \A x \in Runs : run'[x] = Unfresh(run[x])
      BY <2>1, TouchedTyped
    <2> QED
      BY <1>1, <1>s, <2>1, <2>2, ShopWrites DEF Beat
  <1>2. CASE ~Owns(r)
    <2> DEFINE q == [run[r] EXCEPT !.lost = TRUE]
    <2>1. /\ q \in Run /\ q.pc = run[r].pc /\ q.fresh = run[r].fresh
          /\ q.page = run[r].page /\ q.end = run[r].end
          /\ q.count = run[r].count /\ q.scopes = run[r].scopes
          /\ q.rows = run[r].rows
      <3>1. run[r] \in Run
        BY RunTyped
      <3> QED
        BY <3>1 DEF Run
    <2>2. shop' = shop /\ run' = [run EXCEPT ![r] = q]
      BY <1>2 DEF Beat
    <2> HIDE DEF q
    <2> QED
      BY <1>2, <1>s, <2>1, <2>2, OneMoves DEF Beat
  <1> QED
    BY <1>1, <1>2

LEMMA CrashMoves ==
    ASSUME TypeOK, NEW p \in Processes, Crash(p)
    PROVE  /\ run' \in [Runs -> Run]
           /\ active' \in [Processes -> Runs \cup {None}]
           /\ \A x \in Runs : run'[x] = run[x] \/ run'[x].pc = "dead"
           /\ Fault
           /\ UNCHANGED <<shop, imported, capacity, uninstalls, grants>>
  <1>1. \A x \in Runs : /\ [run[x] EXCEPT !.pc = "dead"] \in Run
                        /\ [run[x] EXCEPT !.pc = "dead"].pc = "dead"
                        /\ run[x] \in Run
    <2> SUFFICES ASSUME NEW x \in Runs
                 PROVE  /\ [run[x] EXCEPT !.pc = "dead"] \in Run
                        /\ [run[x] EXCEPT !.pc = "dead"].pc = "dead"
                        /\ run[x] \in Run
      OBVIOUS
    <2>1. run[x] \in Run
      BY RunTyped
    <2> QED
      BY <2>1 DEF Run, Ended
  <1>2. run' = [x \in Runs |-> IF run[x].home = p /\ run[x].pc \notin Ended
                               THEN [run[x] EXCEPT !.pc = "dead"] ELSE run[x]]
    BY DEF Crash
  <1>3. active' \in [Processes -> Runs \cup {None}]
    BY DEF Crash, TypeOK
  <1> QED
    BY <1>1, <1>2, <1>3 DEF Crash

(* Time, the platform and the merchant write columns of their own.         *)
LEMMA OutsideMoves ==
    ASSUME TypeOK, LeaseExpires \/ LeaseLapses \/ Uninstall \/ ScopesUpdate
    PROVE  /\ shop' \in Shop /\ UNCHANGED <<run, active, capacity>>
           /\ shop'.status = shop.status /\ shop'.token = shop.token
           /\ shop'.cursor = shop.cursor /\ shop'.count = shop.count
           /\ \/ /\ ~Uninstall /\ shop'.uninstalled = shop.uninstalled
                 /\ UNCHANGED <<imported, uninstalls>>
              \/ /\ Uninstall /\ shop'.uninstalled
                 /\ imported' = [p \in Pages |-> {}]
                 /\ uninstalls' = uninstalls + 1 /\ UNCHANGED faults
           /\ \/ shop'.live = shop.live
              \/ LeaseExpires \/ LeaseLapses
  <1>s. shop \in Shop
    BY DEF TypeOK
  <1>1. CASE LeaseExpires \/ LeaseLapses
    BY <1>s, <1>1 DEF LeaseExpires, LeaseLapses, Shop, bounds, Uninstall
  <1>2. CASE Uninstall
    BY <1>s, <1>2 DEF Uninstall, Shop
  <1>3. CASE ScopesUpdate
    BY <1>s, <1>3 DEF ScopesUpdate, Shop, Uninstall
  <1> QED
    BY <1>1, <1>2, <1>3

-----------------------------------------------------------------------------
(* The state and its counts                                                *)

(* What a run counts is what it has walked; the cursor it is about to save *)
(* is that of its last page, or none.                                      *)
CountedRun(q) ==
    /\ q.pc \in {"claim"} \cup Walking => q.count = q.page
    /\ q.pc = "save" => q.end \in {0, q.page}
    /\ q.pc \in {"claim"} \cup Working => q.scopes \in Scopes

CountInv == /\ shop.cursor > 0 => shop.count = shop.cursor
            /\ \A r \in Runs : CountedRun(run[r])

TypeInv == TypeOK /\ CountInv

LEMMA CountedStays ==
    ASSUME NEW q, NEW o, q.pc = o.pc, SameRun(q, o), CountedRun(o)
    PROVE  CountedRun(q)
  BY DEF CountedRun, SameRun

LEMMA TypeStep ==
    ASSUME TypeInv, [Next]_vars
    PROVE  TypeInv'
  <1>t. TypeOK /\ CountInv /\ \A x \in Runs : CountedRun(run[x])
    BY DEF TypeInv, CountInv
  <1>b. /\ uninstalls \in 0..MaxUninstalls /\ grants \in 0..MaxGrants
        /\ faults \in 0..MaxFaults /\ shop \in Shop
        /\ imported \in [Pages -> SUBSET Scopes] /\ capacity \subseteq Pages
        /\ active \in [Processes -> Runs \cup {None}] /\ run \in [Runs -> Run]
    BY <1>t DEF TypeOK
  <1>n. LastPage \in Nat /\ MaxUninstalls \in Nat /\ MaxGrants \in Nat
        /\ MaxFaults \in Nat
    BY BoundsAssumption
  <1>f. Fault => faults' \in 0..MaxFaults
    BY <1>b, <1>n DEF Fault
  <1>s. /\ shop.cursor \in 0..LastPage /\ shop.count \in 0..LastPage
        /\ shop.scopes \in Scopes
        /\ shop.cursor > 0 => shop.count = shop.cursor
    BY <1>b, <1>t DEF Shop, CountInv
  <1>o. ASSUME NEW r \in Runs, Stay(r) \/ Unsettle(r), CountedRun(run'[r])
        PROVE  \A x \in Runs : CountedRun(run'[x])
    <2>1. \A x \in Runs \ {r} : Stand(x)
      BY <1>o, <1>t, Standing
    <2> QED
      BY <1>o, <1>t, <2>1, CountedStays DEF Stand
  <1>p. /\ {"ask", "read", "refused", "done", "dead"}
             \cap ({"claim"} \cup Working) = {}
        /\ {"capacity", "delete", "create", "compute", "stop", "complete",
            "fail"} \cap ({"claim"} \cup Walking) = {}
        /\ {"capacity", "delete", "create", "compute", "stop", "complete",
            "fail", "setup", "fetch", "save"} \subseteq Working
        /\ Walking = {"setup", "fetch", "save"} /\ "save" \notin {"fetch"}
        /\ "claim" \notin Working
    BY DEF Working, Walking
  <1> SUFFICES ASSUME Next
               PROVE  /\ shop' \in Shop /\ run' \in [Runs -> Run]
                      /\ imported' \in [Pages -> SUBSET Scopes]
                      /\ capacity' \subseteq Pages
                      /\ active' \in [Processes -> Runs \cup {None}]
                      /\ uninstalls' \in 0..MaxUninstalls
                      /\ grants' \in 0..MaxGrants /\ faults' \in 0..MaxFaults
                      /\ shop'.cursor > 0 => shop'.count = shop'.cursor
                      /\ \A x \in Runs : CountedRun(run'[x])
    <2>1. CASE UNCHANGED vars
      BY <1>b, <1>t, <2>1 DEF TypeInv, TypeOK, CountInv, vars
    <2> QED
      BY <2>1, Zenon DEF TypeInv, TypeOK, CountInv
  <1>1. ASSUME NEW r \in Runs, NEW p \in Processes,
               AfterAuth(r, p) \/ Resync(r, p)
        PROVE  /\ shop'.cursor > 0 => shop'.count = shop'.cursor
               /\ \A x \in Runs : CountedRun(run'[x])
    <2>1. run'[r].pc \in {"ask", "refused"} /\ (Stay(r) \/ Unsettle(r))
          /\ shop'.cursor = shop.cursor /\ shop'.count = shop.count
      BY <1>1, <1>t, AuthMoves
    <2>2. CountedRun(run'[r])
      BY <1>p, <2>1 DEF CountedRun
    <2> QED
      BY <1>o, <1>s, <2>1, <2>2
  <1>2. ASSUME NEW r \in Runs, Ask(r) \/ ClaimLost(r)
        PROVE  \A x \in Runs : CountedRun(run'[x])
    <2>1. run'[r].pc \in {"read", "refused"} /\ Stay(r)
      BY <1>2, <1>t, AskMoves
    <2>2. CountedRun(run'[r])
      BY <1>p, <2>1 DEF CountedRun
    <2> QED
      BY <1>o, <2>1, <2>2
  <1>3. ASSUME NEW r \in Runs, ReadShop(r)
        PROVE  \A x \in Runs : CountedRun(run'[x])
    <2>1. Stay(r) /\ (\/ run'[r].pc = "refused"
                      \/ /\ run'[r].pc = "claim"
                         /\ run'[r].scopes = shop.scopes
                         /\ run'[r].page = ResumePoint
                         /\ run'[r].count = IF ResumePoint > 0
                                            THEN shop.count ELSE 0)
      BY <1>3, <1>t, ReadMoves
    <2>2. ResumePoint \in {0, shop.cursor}
      BY DEF ResumePoint
    <2>3. CountedRun(run'[r])
      BY <1>s, <1>n, <1>p, <2>1, <2>2 DEF CountedRun
    <2> QED
      BY <1>o, <2>1, <2>3
  <1>4. ASSUME NEW r \in Runs, Claim(r)
        PROVE  /\ shop'.cursor > 0 => shop'.count = shop'.cursor
               /\ \A x \in Runs : CountedRun(run'[x])
    <2>1. /\ Unsettle(r) /\ run'[r].pc = "setup" /\ SameRun(run'[r], run[r])
          /\ shop'.cursor = run[r].page /\ shop'.count = run[r].count
      BY <1>4, <1>t, ClaimMoves
    <2>2. run[r].pc = "claim" /\ CountedRun(run[r])
      BY <1>4, <1>t DEF Claim
    <2>3. CountedRun(run'[r]) /\ shop'.count = shop'.cursor
      BY <1>p, <2>1, <2>2 DEF CountedRun, SameRun
    <2> QED
      BY <1>o, <2>1, <2>3
  <1>5. ASSUME NEW r \in Runs, Setup(r)
        PROVE  /\ shop'.cursor > 0 => shop'.count = shop'.cursor
               /\ \A x \in Runs : CountedRun(run'[x])
    <2>1. /\ run[r].pc = "setup" /\ SameRun(run'[r], run[r])
          /\ run'[r].pc \in {"fetch", "fail"} /\ (Stay(r) \/ Unsettle(r))
          /\ shop'.cursor = shop.cursor /\ shop'.count = shop.count
      BY <1>5, <1>t, SetupMoves
    <2>2. CountedRun(run'[r])
      BY <1>p, <1>t, <2>1 DEF CountedRun, SameRun
    <2> QED
      BY <1>o, <1>s, <2>1, <2>2
  <1>6. ASSUME NEW r \in Runs, SavePage(r)
        PROVE  /\ shop'.cursor > 0 => shop'.count = shop'.cursor
               /\ \A x \in Runs : CountedRun(run'[x])
    <2>1. /\ run[r].pc = "save" /\ SameRun(run'[r], run[r])
          /\ run'[r].pc \in {AfterPage(r), "fail"} /\ (Stay(r) \/ Unsettle(r))
          /\ \/ shop'.cursor = run[r].end /\ shop'.count = run[r].count
             \/ shop' = shop
      BY <1>6, <1>t, SaveMoves
    <2>2. AfterPage(r) \in {"capacity", "fail", "fetch"}
      BY DEF AfterPage
    <2>3. CountedRun(run'[r])
      BY <1>p, <1>t, <2>1, <2>2 DEF CountedRun, SameRun
    <2>4. run[r].end \in {0, run[r].page} /\ run[r].count = run[r].page
      BY <1>p, <1>t, <2>1 DEF CountedRun
    <2> QED
      BY <1>n, <1>o, <1>s, <2>1, <2>3, <2>4
  <1>7. ASSUME NEW r \in Runs, ReadCapacity(r) \/ Compute(r)
        PROVE  /\ shop'.cursor > 0 => shop'.count = shop'.cursor
               /\ \A x \in Runs : CountedRun(run'[x])
    <2>1. /\ run[r].pc \in {"capacity", "compute"}
          /\ run'[r].scopes = run[r].scopes
          /\ run'[r].pc \in {"delete", "stop", "fail"}
          /\ Stay(r) \/ Unsettle(r)
          /\ shop'.cursor = shop.cursor /\ shop'.count = shop.count
      BY <1>7, <1>t, CapacityMoves, ComputeMoves DEF SameRun
    <2>2. CountedRun(run'[r])
      BY <1>p, <1>t, <2>1 DEF CountedRun
    <2> QED
      BY <1>o, <1>s, <2>1, <2>2
  <1>8. ASSUME NEW r \in Runs, FetchPage(r)
        PROVE  /\ run' \in [Runs -> Run]
               /\ imported' \in [Pages -> SUBSET Scopes]
               /\ UNCHANGED <<shop, capacity, active, bounds>>
               /\ \A x \in Runs : CountedRun(run'[x])
    <2>1. run[r].pc = "fetch"
      BY <1>8 DEF FetchPage
    <2>2. run[r].count = run[r].page /\ run[r].scopes \in Scopes
      BY <1>p, <1>t, <2>1 DEF CountedRun
    <2>3. /\ run' \in [Runs -> Run] /\ Stay(r) /\ run'[r].pc = "save"
          /\ imported' \in [Pages -> SUBSET Scopes]
          /\ UNCHANGED <<shop, capacity, active, bounds>>
          /\ run'[r].scopes = run[r].scopes
          /\ \/ run'[r].page = run[r].page + 1 /\ run'[r].end = run[r].page + 1
                /\ run'[r].count = run[r].page + 1
             \/ run'[r].page = run[r].page /\ run'[r].end = 0
                /\ run'[r].count = run[r].count
      BY <1>8, <1>t, <2>2, FetchMoves
    <2>4. CountedRun(run'[r])
      BY <1>p, <2>2, <2>3 DEF CountedRun
    <2> QED
      BY <1>o, <2>3, <2>4
  <1>9. ASSUME NEW r \in Runs, InvalidCursor(r)
        PROVE  \A x \in Runs : CountedRun(run'[x])
    <2>1. /\ Stay(r) /\ run[r].pc = "fetch" /\ run'[r].pc = "fetch"
          /\ run'[r].page = 0 /\ run'[r].count = 0
          /\ run'[r].scopes = run[r].scopes
      BY <1>9, <1>t, InvalidMoves
    <2>2. CountedRun(run'[r])
      BY <1>p, <1>t, <2>1 DEF CountedRun
    <2> QED
      BY <1>o, <2>1, <2>2
  <1>10. ASSUME NEW r \in Runs,
                \/ FetchFails(r) \/ ClearCapacity(r) \/ DeleteRows(r)
                \/ CreateRows(r) \/ StopHeartbeat(r)
         PROVE  /\ capacity' \subseteq Pages /\ faults' \in 0..MaxFaults
                /\ \A x \in Runs : CountedRun(run'[x])
    <2>1. /\ Stay(r) /\ SameRun(run'[r], run[r])
          /\ run'[r].pc \in {"fail", "compute", "create", "complete"}
      BY <1>10, <1>t, PlainMoves
    <2>2. run[r].pc \in Working /\ run[r].rows \subseteq Pages
      BY <1>10, <1>t, RunTyped DEF FetchFails, ClearCapacity, DeleteRows,
         CreateRows, StopHeartbeat, Working, Walking
    <2>3. CountedRun(run'[r])
      BY <1>p, <1>t, <2>1, <2>2 DEF CountedRun, SameRun
    <2>4. capacity' \subseteq Pages /\ faults' \in 0..MaxFaults
      BY <1>10, <1>b, <1>f, <2>2 DEF FetchFails, ClearCapacity, DeleteRows,
         CreateRows, StopHeartbeat, bounds
    <2> QED
      BY <1>o, <2>1, <2>3, <2>4
  <1>11. ASSUME NEW r \in Runs, Complete(r) \/ Fail(r)
         PROVE  /\ shop'.cursor > 0 => shop'.count = shop'.cursor
                /\ \A x \in Runs : CountedRun(run'[x])
    <2>1. /\ SameRun(run'[r], run[r]) /\ run'[r].pc \in {"done", "fail"}
          /\ Stay(r) \/ Unsettle(r)
          /\ \/ shop' = shop
             \/ shop'.cursor \in {0, shop.cursor} /\ shop'.count = shop.count
      BY <1>11, <1>t, EndMoves
    <2>2. run[r].pc \in {"complete", "fail"}
      BY <1>11 DEF Complete, Fail
    <2>3. CountedRun(run'[r])
      BY <1>p, <1>t, <2>1, <2>2 DEF CountedRun, SameRun
    <2> QED
      BY <1>n, <1>o, <1>s, <2>1, <2>3
  <1>12. ASSUME NEW r \in Runs, Beat(r)
         PROVE  /\ shop'.cursor > 0 => shop'.count = shop'.cursor
                /\ \A x \in Runs : CountedRun(run'[x])
    <2>1. shop'.cursor = shop.cursor /\ shop'.count = shop.count
      BY <1>12, <1>t, BeatMoves
    <2>2. CASE \A x \in Runs : run'[x] = Unfresh(run[x])
      <3>1. \A x \in Runs : run'[x].pc = run[x].pc /\ SameRun(run'[x], run[x])
        <4> SUFFICES ASSUME NEW x \in Runs
                     PROVE  run'[x].pc = run[x].pc /\ SameRun(run'[x], run[x])
          OBVIOUS
        <4>1. run[x] \in Run /\ run'[x] = Unfresh(run[x])
          BY <1>t, <2>2, RunTyped
        <4> QED
          BY <4>1 DEF Run, Unfresh, SameRun
      <3> QED
        BY <1>s, <1>t, <2>1, <3>1, CountedStays
    <2>3. CASE Stay(r) /\ run'[r].pc = run[r].pc /\ run'[r].page = run[r].page
               /\ run'[r].end = run[r].end /\ run'[r].count = run[r].count
               /\ run'[r].scopes = run[r].scopes
      <3>1. CountedRun(run'[r])
        BY <1>t, <2>3 DEF CountedRun
      <3> QED
        BY <1>o, <1>s, <2>1, <2>3, <3>1
    <2> QED
      BY <1>12, <1>t, <2>2, <2>3, BeatMoves
  <1>13. ASSUME NEW p \in Processes, Crash(p)
         PROVE  \A x \in Runs : CountedRun(run'[x])
    <2>1. \A x \in Runs : run'[x] = run[x] \/ run'[x].pc = "dead"
      BY <1>13, <1>t, CrashMoves
    <2>2. \A x \in Runs : run'[x].pc = "dead" => CountedRun(run'[x])
      BY <1>p DEF CountedRun
    <2> QED
      BY <1>t, <2>1, <2>2
  <1>14. ASSUME LeaseExpires \/ LeaseLapses \/ Uninstall \/ ScopesUpdate
         PROVE  /\ imported' \in [Pages -> SUBSET Scopes]
                /\ uninstalls' \in 0..MaxUninstalls
                /\ grants' \in 0..MaxGrants /\ faults' \in 0..MaxFaults
    BY <1>14, <1>b, <1>n, <1>f
       DEF LeaseExpires, LeaseLapses, Uninstall, ScopesUpdate, bounds
  <1> QED
    <2>1. ASSUME NEW r \in Runs, NEW p \in Processes,
                 AfterAuth(r, p) \/ Resync(r, p)
          PROVE  run' \in [Runs -> Run] /\ shop' \in Shop
                 /\ UNCHANGED <<imported, capacity, active, bounds>>
      BY <1>t, <2>1, AuthMoves
    <2>2. ASSUME NEW r \in Runs, Ask(r) \/ ClaimLost(r) \/ ReadShop(r)
          PROVE  run' \in [Runs -> Run]
                 /\ UNCHANGED <<shop, imported, capacity, active, bounds>>
      BY <1>t, <2>2, AskMoves, ReadMoves
    <2>3. ASSUME NEW r \in Runs,
                 \/ Claim(r) \/ Setup(r) \/ SavePage(r) \/ ReadCapacity(r)
                 \/ Compute(r) \/ Complete(r) \/ Fail(r) \/ Beat(r)
          PROVE  /\ run' \in [Runs -> Run] /\ shop' \in Shop
                 /\ active' \in [Processes -> Runs \cup {None}]
                 /\ UNCHANGED <<imported, capacity, bounds>>
      BY <1>b, <1>t, <2>3, ClaimMoves, SetupMoves, SaveMoves, CapacityMoves,
         ComputeMoves, EndMoves, BeatMoves
    <2>4. ASSUME NEW r \in Runs,
                 \/ FetchFails(r) \/ ClearCapacity(r) \/ DeleteRows(r)
                 \/ CreateRows(r) \/ StopHeartbeat(r)
          PROVE  run' \in [Runs -> Run]
                 /\ UNCHANGED <<shop, imported, active, uninstalls, grants>>
      BY <1>t, <2>4, PlainMoves
    <2>5. ASSUME NEW r \in Runs, InvalidCursor(r)
          PROVE  /\ run' \in [Runs -> Run] /\ faults' \in 0..MaxFaults
                 /\ UNCHANGED <<shop, imported, capacity, active, uninstalls,
                                grants>>
      BY <1>t, <1>f, <2>5, InvalidMoves
    <2>6. ASSUME NEW p \in Processes, Crash(p)
          PROVE  /\ run' \in [Runs -> Run] /\ faults' \in 0..MaxFaults
                 /\ active' \in [Processes -> Runs \cup {None}]
                 /\ UNCHANGED <<shop, imported, capacity, uninstalls, grants>>
      BY <1>t, <1>f, <2>6, CrashMoves
    <2>7. ASSUME LeaseExpires \/ LeaseLapses \/ Uninstall \/ ScopesUpdate
          PROVE  /\ shop' \in Shop /\ UNCHANGED <<run, active, capacity>>
                 /\ shop'.cursor = shop.cursor /\ shop'.count = shop.count
      BY <1>t, <2>7, OutsideMoves
    <2>a. CASE \E r \in Runs : \E p \in Processes :
                 AfterAuth(r, p) \/ Resync(r, p)
      BY <1>b, <1>1, <2>1, <2>a DEF bounds
    <2>b. CASE \E r \in Runs : Ask(r) \/ ClaimLost(r) \/ ReadShop(r)
      BY <1>b, <1>s, <1>2, <1>3, <2>2, <2>b DEF bounds
    <2>c. CASE \E r \in Runs : \/ Claim(r) \/ Setup(r) \/ SavePage(r)
                               \/ ReadCapacity(r) \/ Compute(r)
                               \/ Complete(r) \/ Fail(r) \/ Beat(r)
      BY <1>b, <1>4, <1>5, <1>6, <1>7, <1>11, <1>12, <2>3, <2>c DEF bounds
    <2>d. CASE \E r \in Runs : FetchPage(r)
      BY <1>b, <1>s, <1>8, <2>d DEF bounds
    <2>e. CASE \E r \in Runs : \/ FetchFails(r) \/ ClearCapacity(r)
                               \/ DeleteRows(r) \/ CreateRows(r)
                               \/ StopHeartbeat(r)
      BY <1>b, <1>s, <1>10, <2>4, <2>e
    <2>f. CASE \E r \in Runs : InvalidCursor(r)
      BY <1>b, <1>s, <1>9, <2>5, <2>f
    <2>g. CASE \E p \in Processes : Crash(p)
      BY <1>b, <1>s, <1>13, <2>6, <2>g
    <2>h. CASE LeaseExpires \/ LeaseLapses \/ Uninstall \/ ScopesUpdate
      BY <1>b, <1>s, <1>t, <1>14, <2>7, <2>h
    <2> QED
      BY <2>a, <2>b, <2>c, <2>d, <2>e, <2>f, <2>g, <2>h, Zenon DEF Next, Step

LEMMA TypeInvariant == Spec => []TypeInv
  <1>1. Init => TypeInv
    <2> SUFFICES ASSUME Init
                 PROVE  TypeInv
      OBVIOUS
    <2>1. 0 \in 0..LastPage /\ MaxUninstalls \in Nat /\ MaxGrants \in Nat
          /\ MaxFaults \in Nat
      BY BoundsAssumption
    <2>2. shop \in Shop /\ shop.cursor = 0
      BY <2>1, ScopesAssumption DEF Init, Shop, Status
    <2>3. Idle \in Run /\ Idle.pc = "idle"
      BY <2>1 DEF Idle, Run
    <2>4. run \in [Runs -> Run] /\ \A r \in Runs : run[r] = Idle
      BY <2>3 DEF Init
    <2>5. CountedRun(Idle)
      BY <2>3 DEF CountedRun, Walking, Working
    <2>6. imported \in [Pages -> SUBSET Scopes] /\ capacity \subseteq Pages
          /\ active \in [Processes -> Runs \cup {None}]
      BY DEF Init
    <2>7. uninstalls \in 0..MaxUninstalls /\ grants \in 0..MaxGrants
          /\ faults \in 0..MaxFaults
      BY <2>1 DEF Init
    <2> QED
      BY <2>2, <2>4, <2>5, <2>6, <2>7 DEF TypeInv, TypeOK, CountInv
  <1> QED
    BY <1>1, TypeStep, PTL DEF Spec

(* Every state holds rows, runs and bounds of their types (Backfill's      *)
(* columns and all its actions).                                           *)
THEOREM TypeCorrect == Spec => []TypeOK
  <1>1. TypeInv => TypeOK
    BY DEF TypeInv
  <1> QED
    BY <1>1, TypeInvariant, PTL

-----------------------------------------------------------------------------
(* What is stored                                                          *)

(* The stages behind the walk, which only a run that has walked the whole  *)
(* store may reach as the owner.                                           *)
Trusted == {"capacity", "delete", "create", "compute", "stop", "complete"}

Held(stored, n) == \A p \in 1..n : stored[p] # {}

(* What a run has walked is stored: before its claim, as long as the row   *)
(* is the one it read; afterwards, as long as it owns the row.             *)
SoundRun(q, own, stored) ==
    /\ (q.pc = "claim" /\ q.fresh) \/ (q.pc \in Walking /\ own)
         => Held(stored, q.page)
    /\ q.pc \in Trusted /\ own => Held(stored, LastPage)

SoundShop(row, stored) ==
    /\ row.status \in {"RUNNING", "FAILED"} => Held(stored, row.cursor)
    /\ row.status = "COMPLETE" => Held(stored, LastPage)

ImportInv ==
    ~shop.uninstalled
    => /\ SoundShop(shop, imported)
       /\ \A r \in Runs : SoundRun(run[r], Owns(r), imported)

LEMMA AllHeld ==
    ASSUME TypeOK
    PROVE  Held(imported, LastPage) <=> Stored = Pages
  BY DEF Held, Stored, Pages

LEMMA SoundStays ==
    ASSUME NEW q, NEW o, NEW own \in BOOLEAN, NEW was \in BOOLEAN, NEW stored,
           q.pc = o.pc, q.page = o.page, q.fresh => o.fresh, own => was,
           SoundRun(o, was, stored)
    PROVE  SoundRun(q, own, stored)
  BY DEF SoundRun

(* Who owns the row after a step that moves run r.                         *)
LEMMA OthersKeep ==
    ASSUME TypeOK, NEW r \in Runs, Stay(r) \/ Unsettle(r),
           \/ shop'.status = shop.status /\ shop'.token = shop.token
           \/ shop'.status # "RUNNING"
           \/ shop'.token = r
    PROVE  \A x \in Runs \ {r} : Stand(x) /\ (Owns(x)' => Owns(x))
  BY Standing DEF Owns

(* A step that writes no order page leaves every other run sound.          *)
LEMMA SoundOthers ==
    ASSUME TypeOK, NEW r \in Runs, Stay(r) \/ Unsettle(r),
           \/ shop'.status = shop.status /\ shop'.token = shop.token
           \/ shop'.status # "RUNNING"
           \/ shop'.token = r,
           \A x \in Runs : SoundRun(run[x], Owns(x), imported),
           SoundRun(run'[r], Owns(r)', imported)
    PROVE  \A x \in Runs : SoundRun(run'[x], Owns(x)', imported)
  <1> SUFFICES ASSUME NEW x \in Runs, x # r
               PROVE  SoundRun(run'[x], Owns(x)', imported)
    OBVIOUS
  <1>1. Stand(x) /\ (Owns(x)' => Owns(x))
    BY OthersKeep
  <1>2. run'[x].pc = run[x].pc /\ run'[x].page = run[x].page
        /\ (run'[x].fresh => run[x].fresh)
    BY <1>1 DEF Stand, SameRun
  <1>3. Owns(x)' \in BOOLEAN /\ Owns(x) \in BOOLEAN
    BY DEF Owns
  <1> QED
    BY <1>1, <1>2, <1>3, SoundStays

LEMMA ImportStep ==
    ASSUME TypeInv, ImportInv, [Next]_vars
    PROVE  ImportInv'
  <1>t. TypeOK /\ CountInv /\ shop \in Shop /\ shop' \in Shop
        /\ imported \in [Pages -> SUBSET Scopes]
        /\ LastPage \in Nat \ {0}
    BY TypeStep, BoundsAssumption DEF TypeInv, TypeOK
  <1>p. /\ {"idle", "ask", "read", "refused", "done", "dead", "fail", "claim"}
             \cap (Walking \cup Trusted) = {}
        /\ Walking = {"setup", "fetch", "save"}
        /\ Trusted \cap Walking = {}
        /\ "claim" \notin {"ask", "read", "refused", "done", "dead", "fail"}
    BY DEF Walking, Trusted
  <1>o. \A x \in Runs : Owns(x) \in BOOLEAN /\ Owns(x)' \in BOOLEAN
    BY DEF Owns
  <1> SUFFICES ASSUME Next, ~shop'.uninstalled
               PROVE  /\ SoundShop(shop', imported')
                      /\ \A x \in Runs : SoundRun(run'[x], Owns(x)', imported')
    <2>1. CASE UNCHANGED vars
      BY <2>1 DEF ImportInv, vars, Owns, SoundShop, SoundRun
    <2> QED
      BY <2>1, Zenon DEF ImportInv
  <1> DEFINE Goal == /\ SoundShop(shop', imported')
                     /\ \A x \in Runs : SoundRun(run'[x], Owns(x)', imported')
  <1>i. ~shop.uninstalled
        => /\ SoundShop(shop, imported)
           /\ \A x \in Runs : SoundRun(run[x], Owns(x), imported)
    BY DEF ImportInv
  <1>k. ASSUME shop'.status = shop.status, shop'.cursor = shop.cursor,
               imported' = imported, SoundShop(shop, imported)
        PROVE  SoundShop(shop', imported')
    BY <1>k DEF SoundShop
  <1>d. \A q, own, stored : q.pc \in {"ask", "read", "refused", "done", "dead",
                                      "fail"} => SoundRun(q, own, stored)
    BY <1>p DEF SoundRun
  <1>1. ASSUME NEW r \in Runs, NEW p \in Processes,
               AfterAuth(r, p) \/ Resync(r, p)
        PROVE  Goal
    <2>1. /\ run'[r].pc \in {"ask", "refused"} /\ imported' = imported
          /\ \/ Stay(r) /\ shop' = shop
             \/ Unsettle(r) /\ shop'.status = "PENDING"
      BY <1>1, <1>t, AuthMoves
    <2>2. SoundRun(run'[r], Owns(r)', imported)
      BY <1>d, <2>1
    <2>3. CASE Stay(r) /\ shop' = shop
      <3>1. \A x \in Runs : SoundRun(run[x], Owns(x), imported)
        BY <1>i, <2>3
      <3> QED
        BY <1>i, <1>k, <1>t, <2>1, <2>2, <2>3, <3>1, SoundOthers
    <2>4. CASE Unsettle(r) /\ shop'.status = "PENDING"
      <3>1. SoundShop(shop', imported')
        BY <2>4 DEF SoundShop
      <3>2. ASSUME NEW x \in Runs, x # r
            PROVE  SoundRun(run'[x], Owns(x)', imported')
        <4>1. run'[x] = Unfresh(run[x]) /\ run[x] \in Run
          BY <1>t, <2>4, <3>2, RunTyped DEF Unsettle
        <4>2. run'[x].fresh = FALSE
          BY <4>1 DEF Unfresh, Run
        <4>3. ~Owns(x)'
          BY <2>4 DEF Owns
        <4> QED
          BY <4>2, <4>3 DEF SoundRun
      <3> QED
        BY <2>1, <2>2, <3>1, <3>2
    <2> QED
      BY <2>1, <2>3, <2>4
  <1>u. ASSUME NEW r \in Runs, shop'.uninstalled = shop.uninstalled,
               imported' = imported, Stay(r) \/ Unsettle(r),
               \/ shop'.status = shop.status /\ shop'.token = shop.token
               \/ shop'.status # "RUNNING"
               \/ shop'.token = r,
               SoundShop(shop', imported'),
               SoundRun(run'[r], Owns(r)', imported)
        PROVE  Goal
    <2>1. \A x \in Runs : SoundRun(run[x], Owns(x), imported)
      BY <1>i, <1>u
    <2>2. \A x \in Runs : SoundRun(run'[x], Owns(x)', imported)
      BY <1>t, <1>u, <2>1, SoundOthers
    <2> QED
      BY <1>u, <2>2
  <1>2. ASSUME NEW r \in Runs, Ask(r) \/ ClaimLost(r)
        PROVE  Goal
    <2>1. /\ Stay(r) /\ run'[r].pc \in {"read", "refused"}
          /\ shop' = shop /\ imported' = imported
      BY <1>2, <1>t, AskMoves
    <2>2. SoundRun(run'[r], Owns(r)', imported)
      BY <1>d, <2>1
    <2> QED
      BY <1>i, <1>k, <1>u, <2>1, <2>2
  <1>3. ASSUME NEW r \in Runs, ReadShop(r)
        PROVE  Goal
    <2>1. /\ Stay(r) /\ shop' = shop /\ imported' = imported
          /\ \/ run'[r].pc = "refused"
             \/ run'[r].pc = "claim" /\ run'[r].page = ResumePoint
      BY <1>3, <1>t, ReadMoves
    <2>2. SoundRun(run'[r], Owns(r)', imported)
      <3>1. SoundShop(shop, imported)
        BY <1>i, <2>1
      <3>2. Held(imported, ResumePoint)
        BY <3>1, <1>t DEF ResumePoint, SoundShop, Held
      <3> QED
        BY <1>d, <1>p, <2>1, <3>2 DEF SoundRun
    <2> QED
      BY <1>i, <1>k, <1>u, <2>1, <2>2
  <1>4. ASSUME NEW r \in Runs, Claim(r)
        PROVE  Goal
    <2>1. /\ Unsettle(r) /\ run'[r].pc = "setup"
          /\ run'[r].page = run[r].page
          /\ shop'.status = "RUNNING" /\ shop'.token = r
          /\ shop'.cursor = run[r].page
          /\ shop'.uninstalled = shop.uninstalled /\ imported' = imported
      BY <1>4, <1>t, ClaimMoves DEF SameRun
    <2>2. run[r].pc = "claim" /\ run[r].fresh
      BY <1>4 DEF Claim
    <2>3. Held(imported, run[r].page)
      BY <1>i, <2>1, <2>2 DEF SoundRun
    <2>4. SoundRun(run'[r], Owns(r)', imported)
      BY <1>p, <2>1, <2>3 DEF SoundRun
    <2>5. SoundShop(shop', imported')
      BY <2>1, <2>3 DEF SoundShop
    <2> QED
      BY <1>u, <2>1, <2>4, <2>5
  <1>5. ASSUME NEW r \in Runs, Setup(r)
        PROVE  Goal
    <2>1. /\ run[r].pc = "setup" /\ run'[r].page = run[r].page
          /\ shop'.status = shop.status /\ shop'.token = shop.token
          /\ shop'.cursor = shop.cursor /\ imported' = imported
          /\ shop'.uninstalled = shop.uninstalled
          /\ Stay(r) \/ Unsettle(r)
          /\ \/ run'[r].pc = "fetch"
             \/ run'[r].pc = "fail"
      BY <1>5, <1>t, SetupMoves DEF SameRun
    <2>2. SoundRun(run[r], Owns(r), imported) /\ (Owns(r)' <=> Owns(r))
      BY <1>i, <2>1 DEF Owns
    <2>3. SoundRun(run'[r], Owns(r)', imported)
      BY <1>d, <1>p, <2>1, <2>2 DEF SoundRun
    <2> QED
      BY <1>i, <1>k, <1>u, <2>1, <2>3
  <1>6. ASSUME NEW r \in Runs, SavePage(r)
        PROVE  Goal
    <2>1. /\ run[r].pc = "save" /\ run'[r].page = run[r].page
          /\ shop'.status = shop.status /\ shop'.token = shop.token
          /\ imported' = imported /\ shop'.uninstalled = shop.uninstalled
          /\ Stay(r) \/ Unsettle(r)
          /\ \/ /\ Owns(r) /\ run'[r].pc = AfterPage(r)
                /\ shop'.cursor = run[r].end
             \/ ~Owns(r) /\ run'[r].pc = "fail" /\ shop' = shop
      BY <1>6, <1>t, SaveMoves DEF SameRun
    <2>2. SoundRun(run[r], Owns(r), imported) /\ (Owns(r)' <=> Owns(r))
      BY <1>i, <2>1 DEF Owns
    <2>3. CASE ~Owns(r)
      BY <1>d, <1>i, <1>k, <1>u, <2>1, <2>3
    <2>4. CASE Owns(r)
      <3>1. Held(imported, run[r].page)
        BY <1>p, <2>1, <2>2, <2>4 DEF SoundRun
      <3>2. run[r].end \in {0, run[r].page}
        BY <1>t, <2>1 DEF CountInv, CountedRun
      <3>3. Held(imported, run[r].end)
        BY <3>1, <3>2 DEF Held
      <3>4. run'[r].pc = "capacity" => run[r].page = LastPage
        BY <2>1, <2>4 DEF AfterPage
      <3>5. run'[r].pc \in {"capacity", "fail", "fetch"}
        BY <2>1, <2>4 DEF AfterPage
      <3>6. SoundRun(run'[r], Owns(r)', imported)
        BY <1>d, <1>p, <2>1, <3>1, <3>4, <3>5 DEF SoundRun
      <3>7. SoundShop(shop', imported')
        BY <2>1, <2>4, <3>3 DEF SoundShop, Owns
      <3> QED
        BY <1>u, <2>1, <3>6, <3>7
    <2> QED
      BY <2>3, <2>4
  <1>7. ASSUME NEW r \in Runs, ReadCapacity(r) \/ Compute(r)
        PROVE  Goal
    <2>1. /\ run[r].pc \in {"capacity", "compute"}
          /\ shop'.status = shop.status /\ shop'.token = shop.token
          /\ shop'.cursor = shop.cursor /\ imported' = imported
          /\ shop'.uninstalled = shop.uninstalled
          /\ Stay(r) \/ Unsettle(r)
          /\ run'[r].pc \in {"delete", "stop", "fail"}
      BY <1>7, <1>t, CapacityMoves, ComputeMoves
    <2>2. SoundRun(run[r], Owns(r), imported) /\ (Owns(r)' <=> Owns(r))
      BY <1>i, <2>1 DEF Owns
    <2>3. SoundRun(run'[r], Owns(r)', imported)
      BY <1>d, <1>p, <2>1, <2>2 DEF SoundRun, Trusted
    <2> QED
      BY <1>i, <1>k, <1>u, <2>1, <2>3
  <1>8. ASSUME NEW r \in Runs, FetchPage(r)
        PROVE  Goal
    <2>1. run[r].pc = "fetch" /\ run[r].page \in 0..LastPage
      BY <1>8, <1>t, RunTyped DEF FetchPage
    <2>2. run[r].count = run[r].page /\ run[r].scopes \in Scopes
      BY <1>p, <1>t, <2>1 DEF CountInv, CountedRun, Working
    <2>3. /\ Stay(r) /\ run'[r].pc = "save" /\ shop' = shop
          /\ \/ /\ run[r].page < LastPage
                /\ run'[r].page = run[r].page + 1
                /\ imported' = [imported EXCEPT ![run[r].page + 1] =
                                  {run[r].scopes}]
             \/ run'[r].page = run[r].page /\ imported' = imported
      BY <1>8, <1>t, <2>2, FetchMoves
    <2>4. SoundRun(run[r], Owns(r), imported) /\ (Owns(r)' <=> Owns(r))
          /\ SoundShop(shop, imported)
      BY <1>i, <2>3 DEF Owns
    <2>5. CASE imported' = imported /\ run'[r].page = run[r].page
      <3>1. SoundRun(run'[r], Owns(r)', imported)
        BY <1>p, <2>1, <2>3, <2>4, <2>5 DEF SoundRun
      <3> QED
        BY <1>k, <1>u, <2>3, <2>4, <2>5, <3>1
    <2>6. CASE /\ run[r].page < LastPage /\ run'[r].page = run[r].page + 1
               /\ imported' = [imported EXCEPT ![run[r].page + 1] =
                                 {run[r].scopes}]
      <3>1. /\ imported'[run[r].page + 1] # {}
            /\ \A p \in Pages : imported[p] # {} => imported'[p] # {}
        <4> DEFINE n == run[r].page + 1
        <4>1. n \in Pages
          BY <1>t, <2>1, <2>6 DEF Pages
        <4>2. imported' = [imported EXCEPT ![n] = {run[r].scopes}]
          BY <2>6
        <4>3. {run[r].scopes} # {}
          OBVIOUS
        <4> HIDE DEF n
        <4>4. \A p \in Pages : imported'[p] = IF p = n THEN {run[r].scopes}
                                              ELSE imported[p]
          BY <1>t, <4>2
        <4>5. /\ imported'[n] # {}
              /\ \A p \in Pages : imported[p] # {} => imported'[p] # {}
          BY <4>1, <4>3, <4>4
        <4> QED
          BY <4>5 DEF n
      <3>2. \A n \in 0..LastPage : Held(imported, n) => Held(imported', n)
        BY <1>t, <3>1 DEF Held, Pages
      <3>3. Held(imported, run[r].page) => Held(imported', run[r].page + 1)
        <4>1. \A p \in 1..(run[r].page + 1) :
                p \in Pages /\ (p = run[r].page + 1 \/ p \in 1..run[r].page)
          BY <1>t, <2>1, <2>6 DEF Pages
        <4> QED
          BY <3>1, <4>1 DEF Held
      <3>4. SoundRun(run'[r], Owns(r)', imported')
        BY <1>p, <2>1, <2>3, <2>4, <2>6, <3>3 DEF SoundRun
      <3>5. shop.cursor \in 0..LastPage /\ LastPage \in 0..LastPage
        BY <1>t DEF Shop
      <3>6. SoundShop(shop', imported')
        BY <2>3, <2>4, <3>2, <3>5 DEF SoundShop
      <3>7. ASSUME NEW x \in Runs, x # r
            PROVE  SoundRun(run'[x], Owns(x)', imported')
        <4>1. run'[x] = run[x] /\ (Owns(x)' <=> Owns(x))
              /\ run[x].page \in 0..LastPage
              /\ SoundRun(run[x], Owns(x), imported)
          BY <1>i, <1>t, <2>3, <3>7, RunTyped DEF Stay, Owns
        <4> QED
          BY <3>2, <3>5, <4>1 DEF SoundRun
      <3> QED
        BY <3>4, <3>6, <3>7
    <2> QED
      BY <2>3, <2>5, <2>6
  <1>9. ASSUME NEW r \in Runs, InvalidCursor(r)
        PROVE  Goal
    <2>1. /\ Stay(r) /\ run'[r].pc = "fetch" /\ run'[r].page = 0
          /\ shop' = shop /\ imported' = imported
      BY <1>9, <1>t, InvalidMoves
    <2>2. SoundRun(run'[r], Owns(r)', imported)
      BY <1>p, <2>1 DEF SoundRun, Held
    <2> QED
      BY <1>i, <1>k, <1>u, <2>1, <2>2
  <1>10. ASSUME NEW r \in Runs,
                \/ FetchFails(r) \/ ClearCapacity(r) \/ DeleteRows(r)
                \/ CreateRows(r) \/ StopHeartbeat(r)
         PROVE  Goal
    <2>1. /\ Stay(r) /\ shop' = shop /\ imported' = imported
          /\ run'[r].pc \in {"fail", "compute", "create", "complete"}
      BY <1>10, <1>t, PlainMoves
    <2>2. run[r].pc \in Trusted \/ run'[r].pc = "fail"
      BY <1>10, <1>t, <2>1, PlainMoves
         DEF ClearCapacity, DeleteRows, CreateRows, StopHeartbeat, Trusted
    <2>3. SoundRun(run[r], Owns(r), imported) /\ (Owns(r)' <=> Owns(r))
      BY <1>i, <2>1 DEF Owns
    <2>4. SoundRun(run'[r], Owns(r)', imported)
      BY <1>d, <1>p, <2>1, <2>2, <2>3 DEF SoundRun, Trusted
    <2> QED
      BY <1>i, <1>k, <1>u, <2>1, <2>4
  <1>11. ASSUME NEW r \in Runs, Complete(r) \/ Fail(r)
         PROVE  Goal
    <2>1. /\ run'[r].pc \in {"done", "fail"} /\ imported' = imported
          /\ shop'.uninstalled = shop.uninstalled
          /\ \/ Stay(r) /\ shop' = shop
             \/ /\ Owns(r) /\ Unsettle(r)
                /\ shop'.status \in {"COMPLETE", "FAILED"}
                /\ shop'.status = "COMPLETE" => run[r].pc = "complete"
                /\ shop'.status = "FAILED" => shop'.cursor = shop.cursor
      BY <1>11, <1>t, EndMoves
    <2>2. SoundRun(run'[r], Owns(r)', imported)
      BY <1>d, <2>1
    <2>3. SoundRun(run[r], Owns(r), imported) /\ SoundShop(shop, imported)
      BY <1>i, <2>1
    <2>4. CASE Stay(r) /\ shop' = shop
      BY <1>k, <1>u, <2>1, <2>2, <2>3, <2>4
    <2>5. CASE /\ Owns(r) /\ Unsettle(r)
               /\ shop'.status \in {"COMPLETE", "FAILED"}
               /\ shop'.status = "COMPLETE" => run[r].pc = "complete"
               /\ shop'.status = "FAILED" => shop'.cursor = shop.cursor
      <3>1. SoundShop(shop', imported')
        BY <2>1, <2>3, <2>5 DEF SoundShop, SoundRun, Trusted, Owns
      <3> QED
        BY <1>u, <2>1, <2>2, <2>5, <3>1
    <2> QED
      BY <2>1, <2>4, <2>5
  <1>12. ASSUME NEW r \in Runs, Beat(r)
         PROVE  Goal
    <2>1. /\ shop'.status = shop.status /\ shop'.token = shop.token
          /\ shop'.cursor = shop.cursor /\ imported' = imported
          /\ shop'.uninstalled = shop.uninstalled
          /\ \/ \A x \in Runs : run'[x] = Unfresh(run[x])
             \/ /\ Stay(r) /\ run'[r].pc = run[r].pc
                /\ run'[r].fresh = run[r].fresh
                /\ run'[r].page = run[r].page
      BY <1>12, <1>t, BeatMoves
    <2>2. ASSUME NEW x \in Runs
          PROVE  /\ run'[x].pc = run[x].pc /\ run'[x].page = run[x].page
                 /\ run'[x].fresh => run[x].fresh
      <3>1. CASE run'[x] = Unfresh(run[x])
        <4>1. run[x] \in Run
          BY <1>t, RunTyped
        <4> QED
          BY <3>1, <4>1 DEF Unfresh, Run
      <3> QED
        BY <2>1, <3>1 DEF Stay
    <2>3. ASSUME NEW x \in Runs
          PROVE  SoundRun(run'[x], Owns(x)', imported')
      <3>1. SoundRun(run[x], Owns(x), imported) /\ (Owns(x)' => Owns(x))
        BY <1>i, <2>1 DEF Owns
      <3> QED
        BY <1>o, <2>1, <2>2, <3>1, SoundStays
    <2> QED
      BY <1>i, <1>k, <2>1, <2>3
  <1>13. ASSUME NEW p \in Processes, Crash(p)
         PROVE  Goal
    <2>1. /\ \A x \in Runs : run'[x] = run[x] \/ run'[x].pc = "dead"
          /\ shop' = shop /\ imported' = imported
      BY <1>13, <1>t, CrashMoves
    <2>2. \A x \in Runs : Owns(x)' <=> Owns(x)
      BY <2>1 DEF Owns
    <2>3. ASSUME NEW x \in Runs
          PROVE  SoundRun(run'[x], Owns(x)', imported')
      <3>1. SoundRun(run[x], Owns(x), imported)
        BY <1>i, <2>1
      <3>2. CASE run'[x] = run[x]
        BY <2>1, <2>2, <3>1, <3>2 DEF SoundRun
      <3>3. CASE run'[x].pc = "dead"
        BY <1>d, <3>3
      <3> QED
        BY <2>1, <3>2, <3>3
    <2> QED
      BY <1>i, <1>k, <2>1, <2>3
  <1>14. ASSUME LeaseExpires \/ LeaseLapses \/ Uninstall \/ ScopesUpdate
         PROVE  Goal
    <2>1. /\ run' = run /\ shop'.status = shop.status
          /\ shop'.token = shop.token /\ shop'.cursor = shop.cursor
          /\ shop'.uninstalled = shop.uninstalled /\ imported' = imported
      BY <1>14, <1>t, OutsideMoves
    <2>2. \A x \in Runs : Owns(x)' <=> Owns(x)
      BY <2>1 DEF Owns
    <2>3. \A x \in Runs : SoundRun(run'[x], Owns(x)', imported')
      BY <1>i, <2>1, <2>2 DEF SoundRun
    <2> QED
      BY <1>i, <1>k, <2>1, <2>3
  <1> HIDE DEF Goal
  <1>15. Goal
    BY <1>1, <1>2, <1>3, <1>4, <1>5, <1>6, <1>7, <1>8, <1>9, <1>10, <1>11,
       <1>12, <1>13, <1>14, Zenon DEF Next, Step
  <1> QED
    BY <1>15 DEF Goal

LEMMA ImportInvariant == Spec => []ImportInv
  <1>1. Init => ImportInv
    <2> SUFFICES ASSUME Init
                 PROVE  ImportInv
      OBVIOUS
    <2>1. shop.status = "PENDING" /\ \A r \in Runs : run[r].pc = "idle"
      BY DEF Init, Idle
    <2> QED
      BY <2>1 DEF ImportInv, SoundShop, SoundRun, Owns
  <1> QED
    BY <1>1, ImportStep, TypeInvariant, PTL DEF Spec

(* A stored cursor can be resumed from: whatever crashes, takeovers and    *)
(* rejected cursors went before, all pages up to it are stored, and the    *)
(* count written with it is theirs (writePageProgress and resumePointFor). *)
THEOREM ResumeIsSound == Spec => []ResumePointIsSound
  <1>1. TypeInv /\ ImportInv => ResumePointIsSound
    BY DEF TypeInv, CountInv, ImportInv, SoundShop, Held, ResumePointIsSound
  <1> QED
    BY <1>1, TypeInvariant, ImportInvariant, PTL

(* An import reported complete has stored every page in the state it has   *)
(* since the shop last came back (completeBackfill, which is fenced, after *)
(* page writes that are not).                                              *)
THEOREM CompleteIsImported == Spec => []CompleteMeansImported
  <1>1. TypeInv /\ ImportInv => CompleteMeansImported
    BY AllHeld DEF TypeInv, ImportInv, SoundShop, CompleteMeansImported
  <1> QED
    BY <1>1, TypeInvariant, ImportInvariant, PTL

-----------------------------------------------------------------------------
(* Without a fault or an uninstallation                                    *)

Healthy == faults = 0 /\ uninstalls = 0

(* The one run that works owns the row, its lease is live, and no request  *)
(* holds a snapshot with which it could become a second one.               *)
AloneRun(q, own, status) ==
    /\ q.pc \in Working => own
    /\ ~q.lost
    /\ q.pc = "claim" /\ q.fresh => status # "RUNNING"

OwnedShop == shop.status = "RUNNING"
             => /\ shop.live /\ shop.token \in Runs
                /\ run[shop.token].pc \in Working

AloneInv ==
    Healthy => /\ ~shop.uninstalled /\ OwnedShop
               /\ \A r \in Runs : AloneRun(run[r], Owns(r), shop.status)

LEMMA HealthyBefore ==
    ASSUME TypeOK, Next, Healthy'
    PROVE  Healthy /\ ~Fault /\ ~Uninstall
  <1>1. faults \in Nat /\ uninstalls \in Nat
    BY BoundsAssumption DEF TypeOK
  <1>2. ~Fault /\ ~Uninstall
    BY <1>1 DEF Healthy, Fault, Uninstall
  <1>3. ASSUME NEW r \in Runs, Step(r)
        PROVE  UNCHANGED <<faults, uninstalls>> \/ Fault
    BY <1>3 DEF Step, Ask, ReadShop, Claim, ClaimLost, Setup, FetchPage,
       FetchFails, SavePage, ReadCapacity, ClearCapacity, DeleteRows,
       CreateRows, Compute, StopHeartbeat, Complete, Fail, bounds
  <1>4. ASSUME NEW r \in Runs, NEW p \in Processes,
               AfterAuth(r, p) \/ Resync(r, p)
        PROVE  UNCHANGED <<faults, uninstalls>>
    BY <1>4 DEF AfterAuth, Resync, bounds
  <1>5. ASSUME NEW p \in Processes, Crash(p)
        PROVE  Fault
    BY <1>5 DEF Crash
  <1>6. ASSUME NEW r \in Runs, Beat(r) \/ InvalidCursor(r)
        PROVE  UNCHANGED <<faults, uninstalls>> \/ Fault
    BY <1>6 DEF Beat, InvalidCursor, bounds
  <1>7. ASSUME LeaseExpires \/ LeaseLapses \/ ScopesUpdate
        PROVE  UNCHANGED <<faults, uninstalls>> \/ Fault
    BY <1>7 DEF LeaseExpires, LeaseLapses, ScopesUpdate, bounds
  <1>8. UNCHANGED <<faults, uninstalls>>
    BY <1>2, <1>3, <1>4, <1>5, <1>6, <1>7 DEF Next
  <1> QED
    BY <1>2, <1>8 DEF Healthy

(* A request that waits, or a run that works on or has ended, leaves the   *)
(* others alone.                                                           *)
LEMMA AloneOthers ==
    ASSUME TypeOK, NEW r \in Runs, Stay(r) \/ Unsettle(r),
           \A x \in Runs : AloneRun(run[x], Owns(x), shop.status),
           shop'.status = shop.status, shop'.token = shop.token,
           AloneRun(run'[r], Owns(r)', shop'.status)
    PROVE  \A x \in Runs : AloneRun(run'[x], Owns(x)', shop'.status)
  <1> SUFFICES ASSUME NEW x \in Runs, x # r
               PROVE  AloneRun(run'[x], Owns(x)', shop'.status)
    OBVIOUS
  <1>1. run'[x].pc = run[x].pc /\ run'[x].lost = run[x].lost
        /\ (run'[x].fresh => run[x].fresh) /\ (Owns(x)' <=> Owns(x))
    BY Standing DEF Stand, SameRun, Owns
  <1> QED
    BY <1>1 DEF AloneRun

LEMMA AloneStep ==
    ASSUME TypeInv, AloneInv, [Next]_vars
    PROVE  AloneInv'
  <1>t. TypeOK /\ shop \in Shop
    BY DEF TypeInv, TypeOK
  <1>p. /\ {"idle", "ask", "read", "claim", "refused", "done", "dead"}
             \cap Working = {}
        /\ {"setup", "fetch", "save", "capacity", "delete", "create",
            "compute", "stop", "complete", "fail"} = Working
        /\ "claim" \notin {"ask", "read", "refused", "done"}
    BY DEF Working, Walking
  <1> SUFFICES ASSUME Next, Healthy'
               PROVE  /\ ~shop'.uninstalled /\ OwnedShop'
                      /\ \A x \in Runs :
                           AloneRun(run'[x], Owns(x)', shop'.status)
    <2>1. CASE UNCHANGED vars
      BY <2>1 DEF AloneInv, vars, Owns, AloneRun, OwnedShop, Healthy
    <2> QED
      BY <2>1, Zenon DEF AloneInv
  <1> DEFINE Goal == /\ ~shop'.uninstalled /\ OwnedShop'
                     /\ \A x \in Runs :
                          AloneRun(run'[x], Owns(x)', shop'.status)
  <1>h. Healthy /\ ~Fault /\ ~Uninstall
    BY <1>t, HealthyBefore
  <1>i. /\ ~shop.uninstalled /\ OwnedShop
        /\ \A x \in Runs : AloneRun(run[x], Owns(x), shop.status)
    BY <1>h DEF AloneInv
  (* A request moves that does not work: the row stays.                    *)
  <1>a. ASSUME NEW r \in Runs, Stay(r), shop' = shop,
               run[r].pc \notin Working, run'[r].pc \notin Working,
               ~run'[r].lost,
               run'[r].pc = "claim" => shop.status # "RUNNING"
        PROVE  Goal
    <2>1. AloneRun(run'[r], Owns(r)', shop'.status)
      BY <1>a DEF AloneRun
    <2>2. \A x \in Runs : AloneRun(run'[x], Owns(x)', shop'.status)
      BY <1>a, <1>i, <1>t, <2>1, AloneOthers
    <2>3. OwnedShop'
      BY <1>a, <1>i DEF OwnedShop, Stay
    <2> QED
      BY <1>a, <1>i, <2>2, <2>3
  (* The run that works moves on: the row stays its own.                   *)
  <1>w. ASSUME NEW r \in Runs, Stay(r) \/ Unsettle(r), Owns(r),
               run'[r].pc \in Working, ~run'[r].lost, shop'.live,
               shop'.status = shop.status, shop'.token = shop.token,
               shop'.uninstalled = shop.uninstalled
        PROVE  Goal
    <2>1. AloneRun(run'[r], Owns(r)', shop'.status)
      BY <1>w, <1>p DEF AloneRun, Owns
    <2>2. \A x \in Runs : AloneRun(run'[x], Owns(x)', shop'.status)
      BY <1>w, <1>i, <1>t, <2>1, AloneOthers
    <2>3. OwnedShop'
      BY <1>w DEF OwnedShop, Owns
    <2> QED
      BY <1>w, <1>i, <2>2, <2>3
  <1>l. ASSUME NEW r \in Runs, run[r].pc \in Working
        PROVE  Owns(r) /\ ~run[r].lost /\ shop.live
    BY <1>l, <1>i DEF AloneRun, OwnedShop, Owns
  <1>1. ASSUME NEW r \in Runs, NEW p \in Processes,
               AfterAuth(r, p) \/ Resync(r, p)
        PROVE  Goal
    <2>1. /\ run'[r].pc \in {"ask", "refused"} /\ run[r].pc = "idle"
          /\ run'[r].lost = FALSE /\ Stay(r) /\ shop' = shop
      BY <1>1, <1>i, <1>t, AuthMoves
    <2> QED
      BY <1>a, <1>p, <2>1
  <1>2. ASSUME NEW r \in Runs, Ask(r) \/ ClaimLost(r)
        PROVE  Goal
    <2>1. /\ run'[r].pc \in {"read", "refused"} /\ Stay(r) /\ shop' = shop
          /\ run[r].pc \in {"ask", "claim"} /\ run'[r].lost = run[r].lost
      BY <1>2, <1>t, AskMoves DEF SameRun
    <2>2. ~run[r].lost
      BY <1>i DEF AloneRun
    <2> QED
      BY <1>a, <1>p, <2>1, <2>2
  <1>3. ASSUME NEW r \in Runs, ReadShop(r)
        PROVE  Goal
    <2>1. run[r].pc = "read" /\ ~run[r].lost
      BY <1>3, <1>i DEF ReadShop, AloneRun
    <2>2. /\ Stay(r) /\ shop' = shop /\ run'[r].lost = run[r].lost
          /\ \/ run'[r].pc = "refused"
             \/ run'[r].pc = "claim" /\ Claimable
      BY <1>3, <1>t, ReadMoves
    <2>3. Claimable => shop.status # "RUNNING"
      BY <1>i DEF Claimable, Stale, OwnedShop
    <2> QED
      BY <1>a, <1>p, <2>1, <2>2, <2>3
  <1>4. ASSUME NEW r \in Runs, Claim(r)
        PROVE  Goal
    <2>1. /\ Unsettle(r) /\ run'[r].pc = "setup"
          /\ run'[r].lost = run[r].lost
          /\ shop'.status = "RUNNING" /\ shop'.token = r
          /\ shop'.live = TRUE /\ shop'.uninstalled = shop.uninstalled
      BY <1>4, <1>t, ClaimMoves DEF SameRun
    <2>2. shop.status # "RUNNING" /\ ~run[r].lost
      BY <1>4, <1>i DEF Claim, AloneRun
    <2>3. ASSUME NEW x \in Runs, x # r
          PROVE  AloneRun(run'[x], Owns(x)', shop'.status)
      <3>1. run[x] \in Run /\ run'[x] = Unfresh(run[x])
        BY <1>t, <2>1, <2>3, RunTyped DEF Unsettle
      <3>2. /\ run'[x].fresh = FALSE /\ run'[x].pc = run[x].pc
            /\ run'[x].lost = run[x].lost
        BY <3>1 DEF Unfresh, Run
      <3>3. AloneRun(run[x], Owns(x), shop.status) /\ ~Owns(x)
        BY <1>i, <2>2 DEF Owns
      <3> QED
        BY <3>2, <3>3 DEF AloneRun
    <2>4. AloneRun(run'[r], Owns(r)', shop'.status)
      BY <1>p, <2>1, <2>2 DEF AloneRun, Owns
    <2>5. OwnedShop'
      BY <1>p, <2>1 DEF OwnedShop
    <2> QED
      BY <1>i, <2>1, <2>3, <2>4, <2>5
  <1>5. ASSUME NEW r \in Runs,
               Setup(r) \/ SavePage(r) \/ ReadCapacity(r) \/ Compute(r)
        PROVE  Goal
    <2>1. run[r].pc \in Working
      BY <1>5, <1>p DEF Setup, SavePage, ReadCapacity, Compute
    <2>2. Owns(r) /\ ~run[r].lost
      BY <1>l, <2>1
    <2>3. AfterPage(r) \in Working
      BY <1>p DEF AfterPage
    <2>4. /\ run'[r].pc \in {"fetch", AfterPage(r), "delete", "stop"}
          /\ run'[r].lost = run[r].lost /\ shop'.live
          /\ Unsettle(r) /\ shop'.uninstalled = shop.uninstalled
          /\ shop'.status = shop.status /\ shop'.token = shop.token
      BY <1>5, <1>t, <2>2, SetupMoves, SaveMoves, CapacityMoves, ComputeMoves
         DEF SameRun
    <2> QED
      BY <1>w, <1>p, <2>2, <2>3, <2>4
  <1>6. ASSUME NEW r \in Runs, FetchPage(r)
        PROVE  Goal
    <2>1. run[r].pc = "fetch"
      BY <1>6 DEF FetchPage
    <2>2. run[r].pc \in Working /\ run[r].pc \in Walking
      BY <1>p, <2>1 DEF Walking
    <2>3. run[r].count = run[r].page /\ run[r].scopes \in Scopes
      BY <2>2 DEF TypeInv, CountInv, CountedRun
    <2>4. /\ Stay(r) /\ run'[r].pc = "save" /\ shop' = shop
          /\ run'[r].lost = run[r].lost
      BY <1>6, <1>t, <2>3, FetchMoves
    <2>5. Owns(r) /\ ~run[r].lost /\ shop.live
      BY <1>l, <2>2
    <2> QED
      BY <1>w, <1>p, <2>4, <2>5
  <1>7. ASSUME NEW r \in Runs,
               \/ FetchFails(r) \/ ClearCapacity(r) \/ DeleteRows(r)
               \/ CreateRows(r) \/ StopHeartbeat(r)
        PROVE  Goal
    <2>1. run[r].pc \in Working
      BY <1>7, <1>p DEF FetchFails, ClearCapacity, DeleteRows, CreateRows,
         StopHeartbeat
    <2>2. Owns(r) /\ ~run[r].lost /\ shop.live
      BY <1>l, <2>1
    <2>3. /\ run'[r].pc \in {"fail", "compute", "create", "complete"}
          /\ run'[r].lost = run[r].lost /\ Stay(r) /\ shop' = shop
      BY <1>7, <1>t, PlainMoves DEF SameRun
    <2> QED
      BY <1>w, <1>p, <2>2, <2>3
  <1>8. ASSUME NEW r \in Runs, Complete(r) \/ Fail(r)
        PROVE  Goal
    <2>1. run[r].pc \in Working
      BY <1>8, <1>p DEF Complete, Fail
    <2>2. Owns(r) /\ ~run[r].lost
      BY <1>l, <2>1
    <2>3. /\ Unsettle(r) /\ run'[r].pc = "done"
          /\ run'[r].lost = run[r].lost
          /\ shop'.uninstalled = shop.uninstalled
          /\ shop'.status \in {"COMPLETE", "FAILED"}
      BY <1>8, <1>t, <2>2, EndMoves DEF SameRun
    <2>4. ASSUME NEW x \in Runs, x # r
          PROVE  AloneRun(run'[x], Owns(x)', shop'.status)
      <3>1. Stand(x) /\ ~Owns(x)
        BY <1>t, <2>2, <2>3, <2>4, Standing DEF Owns
      <3>2. run'[x].pc = run[x].pc /\ run'[x].lost = run[x].lost
        BY <3>1 DEF Stand, SameRun
      <3>3. AloneRun(run[x], Owns(x), shop.status)
        BY <1>i
      <3> QED
        BY <2>3, <3>1, <3>2, <3>3 DEF AloneRun
    <2>5. AloneRun(run'[r], Owns(r)', shop'.status)
      BY <1>p, <2>2, <2>3 DEF AloneRun
    <2>6. OwnedShop'
      BY <2>3 DEF OwnedShop
    <2> QED
      BY <1>i, <2>3, <2>4, <2>5, <2>6
  <1>9. ASSUME NEW r \in Runs, Beat(r)
        PROVE  Goal
    <2>1. run[r].pc \in Working
      BY <1>9, <1>t, BeatMoves
    <2>2. Owns(r)
      BY <1>l, <2>1
    <2>3. /\ \A x \in Runs : run'[x] = Unfresh(run[x])
          /\ shop'.live /\ shop'.uninstalled = shop.uninstalled
          /\ shop'.status = shop.status /\ shop'.token = shop.token
      BY <1>9, <1>t, <2>2, BeatMoves
    <2>4. run'[r].pc = run[r].pc /\ run'[r].lost = run[r].lost
      <3>1. run[r] \in Run
        BY <1>t, RunTyped
      <3> QED
        BY <2>3, <3>1 DEF Unfresh, Run
    <2>5. Unsettle(r) /\ ~run[r].lost
      BY <1>l, <2>1, <2>3 DEF Unsettle
    <2> QED
      BY <1>w, <2>1, <2>2, <2>3, <2>4, <2>5
  <1>10. ASSUME LeaseExpires \/ LeaseLapses \/ ScopesUpdate
         PROVE  Goal
    <2>1. ~LeaseExpires /\ ~LeaseLapses
      BY <1>h, <1>i DEF LeaseExpires, LeaseLapses, OwnedShop
    <2>2. /\ run' = run /\ shop'.status = shop.status
          /\ shop'.token = shop.token /\ shop'.live = shop.live
          /\ shop'.uninstalled = shop.uninstalled
      BY <1>10, <1>h, <1>t, <2>1, OutsideMoves
    <2> QED
      BY <1>i, <2>2 DEF OwnedShop, Owns, AloneRun
  <1>11. ASSUME NEW r \in Runs
         PROVE  ~InvalidCursor(r)
    BY <1>h DEF InvalidCursor
  <1>12. ASSUME NEW p \in Processes
         PROVE  ~Crash(p)
    BY <1>h DEF Crash
  <1> HIDE DEF Goal
  <1>13. Goal
    BY <1>h, <1>1, <1>2, <1>3, <1>4, <1>5, <1>6, <1>7, <1>8, <1>9, <1>10,
       <1>11, <1>12, Zenon DEF Next, Step
  <1> QED
    BY <1>13 DEF Goal

LEMMA AloneInvariant == Spec => []AloneInv
  <1>1. Init => AloneInv
    <2> SUFFICES ASSUME Init
                 PROVE  AloneInv
      OBVIOUS
    <2>1. /\ shop.status = "PENDING" /\ ~shop.uninstalled
          /\ \A r \in Runs : run[r].pc = "idle" /\ ~run[r].lost
      BY DEF Init, Idle
    <2>2. "idle" \notin Working
      BY DEF Working, Walking
    <2> QED
      BY <2>1, <2>2 DEF AloneInv, OwnedShop, AloneRun, Owns
  <1> QED
    BY <1>1, AloneStep, TypeInvariant, PTL DEF Spec

(* Two runs never walk the store at the same time as long as nothing fails *)
(* and nobody uninstalls: whatever is asked for, in however many processes *)
(* (the compare-and-set of claimBackfill).                                 *)
THEOREM HealthyRunsAlone == Spec => []HealthyImportRunsAlone
  <1>1. AloneInv => HealthyImportRunsAlone
    <2> SUFFICES ASSUME AloneInv, Healthy
                 PROVE  Cardinality({r \in Runs : run[r].pc \in Working}) <= 1
      BY DEF HealthyImportRunsAlone, Healthy
    <2> DEFINE S == {r \in Runs : run[r].pc \in Working}
    <2>1. \A r \in S : r = shop.token
      BY DEF AloneInv, AloneRun, Owns
    <2>2. S = {} \/ S = {shop.token}
      BY <2>1
    <2>3. Cardinality({}) = 0 /\ Cardinality({shop.token}) = 1
      BY FS_EmptySet, FS_Singleton
    <2> HIDE DEF S
    <2>4. Cardinality(S) <= 1
      BY <2>2, <2>3
    <2> QED
      BY <2>4 DEF S
  <1> QED
    BY <1>1, AloneInvariant, PTL

-----------------------------------------------------------------------------
(* The capacity series without a fault or an uninstallation                *)

(* The series of a finished import: whole, or empty if the store may not   *)
(* have granted access to fulfilments.                                     *)
Series(days) == /\ days \in {Pages, {}}
                /\ Fulfillments = Scopes => days = Pages

SeriesRun(q, days) ==
    /\ q.pc = "delete" => q.rows = Pages
    /\ q.pc = "create" => q.rows = Pages /\ days = {}
    /\ q.pc \in {"compute", "stop", "complete"} => Series(days)

SeriesInv ==
    Healthy => /\ shop.status = "COMPLETE" => Series(capacity)
               /\ \A r \in Runs : SeriesRun(run[r], capacity)

LEMMA SeriesStep ==
    ASSUME TypeInv, ImportInv, AloneInv, SeriesInv, [Next]_vars
    PROVE  SeriesInv'
  <1>t. TypeOK /\ shop \in Shop /\ Pages # {}
    BY BoundsAssumption DEF TypeInv, TypeOK, Pages
  <1>p. /\ {"setup", "fetch", "save", "capacity", "delete", "create",
            "compute", "stop", "complete", "fail"} = Working
        /\ "capacity" \in Trusted
        /\ \A q, days : q.pc \notin {"delete", "create", "compute", "stop",
                                     "complete"} => SeriesRun(q, days)
        /\ \A q, days : q.pc \notin Working => SeriesRun(q, days)
    BY DEF Working, Walking, Trusted, SeriesRun
  <1> SUFFICES ASSUME Next, Healthy'
               PROVE  /\ shop'.status = "COMPLETE" => Series(capacity')
                      /\ \A x \in Runs : SeriesRun(run'[x], capacity')
    <2>1. CASE UNCHANGED vars
      BY <2>1 DEF SeriesInv, vars, SeriesRun, Healthy
    <2> QED
      BY <2>1, Zenon DEF SeriesInv
  <1> DEFINE Goal == /\ shop'.status = "COMPLETE" => Series(capacity')
                     /\ \A x \in Runs : SeriesRun(run'[x], capacity')
  <1>h. Healthy /\ ~Fault /\ ~Uninstall
    BY <1>t, HealthyBefore
  <1>i. /\ shop.status = "COMPLETE" => Series(capacity)
        /\ \A x \in Runs : SeriesRun(run[x], capacity)
        /\ ~shop.uninstalled
        /\ \A x \in Runs : AloneRun(run[x], Owns(x), shop.status)
        /\ \A x \in Runs : SoundRun(run[x], Owns(x), imported)
    BY <1>h DEF SeriesInv, AloneInv, ImportInv
  (* One run moves; if it writes the series, it is the one that works.     *)
  <1>o. ASSUME NEW r \in Runs, Stay(r) \/ Unsettle(r),
               capacity' = capacity \/ run[r].pc \in Working,
               SeriesRun(run'[r], capacity')
        PROVE  \A x \in Runs : SeriesRun(run'[x], capacity')
    <2> SUFFICES ASSUME NEW x \in Runs, x # r
                 PROVE  SeriesRun(run'[x], capacity')
      BY <1>o
    <2>1. run'[x].pc = run[x].pc /\ run'[x].rows = run[x].rows
      BY <1>o, <1>t, Standing DEF Stand, SameRun
    <2>2. CASE capacity' = capacity
      BY <1>i, <2>1, <2>2 DEF SeriesRun
    <2>3. CASE run[r].pc \in Working
      <3>1. run[x].pc \notin Working
        BY <1>i, <2>3 DEF AloneRun, Owns
      <3> QED
        BY <1>p, <2>1, <3>1
    <2> QED
      BY <1>o, <2>2, <2>3
  <1>l. ASSUME NEW r \in Runs, run[r].pc \in Working
        PROVE  Owns(r)
    BY <1>l, <1>i DEF AloneRun
  <1>1. ASSUME NEW r \in Runs, NEW p \in Processes,
               AfterAuth(r, p) \/ Resync(r, p)
        PROVE  Goal
    <2>1. /\ run'[r].pc \in {"ask", "refused"} /\ capacity' = capacity
          /\ Stay(r) /\ shop' = shop
      BY <1>1, <1>i, <1>t, AuthMoves
    <2>2. SeriesRun(run'[r], capacity')
      BY <1>p, <2>1
    <2> QED
      BY <1>i, <1>o, <2>1, <2>2
  <1>2. ASSUME NEW r \in Runs, Ask(r) \/ ClaimLost(r) \/ ReadShop(r)
        PROVE  Goal
    <2>1. /\ run'[r].pc \in {"read", "refused", "claim"} /\ Stay(r)
          /\ shop' = shop /\ capacity' = capacity
      BY <1>2, <1>t, AskMoves, ReadMoves
    <2>2. SeriesRun(run'[r], capacity')
      BY <1>p, <2>1
    <2> QED
      BY <1>i, <1>o, <2>1, <2>2
  <1>3. ASSUME NEW r \in Runs, Claim(r)
        PROVE  Goal
    <2>1. /\ Unsettle(r) /\ run'[r].pc = "setup"
          /\ shop'.status = "RUNNING" /\ capacity' = capacity
      BY <1>3, <1>t, ClaimMoves
    <2>2. SeriesRun(run'[r], capacity')
      BY <1>p, <2>1
    <2> QED
      BY <1>o, <2>1, <2>2
  <1>4. ASSUME NEW r \in Runs, Setup(r) \/ SavePage(r)
        PROVE  Goal
    <2>1. run[r].pc \in Working
      BY <1>4, <1>p DEF Setup, SavePage
    <2>2. Owns(r) /\ AfterPage(r) \in {"capacity", "fail", "fetch"}
      BY <1>l, <2>1 DEF AfterPage
    <2>3. /\ run'[r].pc \in {"fetch", AfterPage(r)} /\ Unsettle(r)
          /\ shop'.status = shop.status /\ capacity' = capacity
      BY <1>4, <1>t, <2>2, SetupMoves, SaveMoves
    <2>4. SeriesRun(run'[r], capacity')
      BY <1>p, <2>2, <2>3
    <2> QED
      BY <1>i, <1>o, <2>3, <2>4
  <1>5. ASSUME NEW r \in Runs, ReadCapacity(r)
        PROVE  Goal
    <2>1. run[r].pc = "capacity" /\ run[r].pc \in Working
      BY <1>5, <1>p DEF ReadCapacity
    <2>2. Owns(r)
      BY <1>l, <2>1
    <2>3. Stored = Pages
      BY <1>i, <1>p, <1>t, <2>1, <2>2, AllHeld DEF SoundRun
    <2>4. /\ run'[r].pc = "delete" /\ run'[r].rows = Stored /\ Unsettle(r)
          /\ shop'.status = shop.status /\ capacity' = capacity
      BY <1>5, <1>t, <2>2, CapacityMoves
    <2>5. SeriesRun(run'[r], capacity')
      BY <2>3, <2>4 DEF SeriesRun
    <2> QED
      BY <1>i, <1>o, <2>4, <2>5
  <1>6. ASSUME NEW r \in Runs,
               \/ ClearCapacity(r) \/ DeleteRows(r) \/ CreateRows(r)
               \/ StopHeartbeat(r) \/ FetchFails(r)
        PROVE  Goal
    <2>1. ~FetchFails(r)
      BY <1>h, <1>i DEF FetchFails
    <2>2. run[r].pc \in Working
      BY <1>6, <1>p, <2>1 DEF ClearCapacity, DeleteRows, CreateRows,
         StopHeartbeat
    <2>3. /\ Stay(r) /\ shop' = shop /\ shop.status # "COMPLETE"
          /\ run'[r].rows = run[r].rows
      BY <1>6, <1>l, <1>t, <2>2, PlainMoves DEF SameRun, Owns
    <2>4. SeriesRun(run[r], capacity)
      BY <1>i
    <2>5. SeriesRun(run'[r], capacity')
      <3>1. CASE ClearCapacity(r)
        <4>1. run[r].scopes \in Scopes /\ run[r].scopes \notin Fulfillments
              /\ capacity' = {} /\ run'[r].pc = "compute"
          <5>1. CountedRun(run[r])
            BY DEF TypeInv, CountInv
          <5>2. run[r].scopes \in Scopes
            BY <2>2, <5>1 DEF CountedRun
          <5>3. run' = [run EXCEPT ![r].pc = "compute"]
            BY <3>1 DEF ClearCapacity
          <5>4. run'[r].pc = "compute"
            BY <1>p, <1>t, <5>3, PcMoves DEF RunPC
          <5> QED
            BY <3>1, <5>2, <5>4 DEF ClearCapacity
        <4> QED
          BY <4>1 DEF SeriesRun, Series
      <3>2. CASE DeleteRows(r)
        <4>1. run[r].rows = Pages
          BY <2>4, <3>2 DEF DeleteRows, SeriesRun
        <4>2. run' = [run EXCEPT ![r].pc = "create"] /\ capacity' = {}
          BY <1>t, <3>2, <4>1 DEF DeleteRows
        <4>3. run'[r].pc = "create"
          BY <1>p, <1>t, <4>2, PcMoves DEF RunPC
        <4> QED
          BY <2>3, <4>1, <4>2, <4>3 DEF SeriesRun
      <3>3. CASE CreateRows(r)
        <4>1. run[r].rows = Pages /\ capacity = {}
          BY <2>4, <3>3 DEF CreateRows, SeriesRun
        <4>2. run' = [run EXCEPT ![r].pc = "compute"] /\ capacity' = Pages
          BY <3>3, <4>1 DEF CreateRows
        <4>3. run'[r].pc = "compute"
          BY <1>p, <1>t, <4>2, PcMoves DEF RunPC
        <4> QED
          BY <4>2, <4>3 DEF SeriesRun, Series
      <3>4. CASE StopHeartbeat(r)
        <4>1. /\ run[r].pc = "stop" /\ capacity' = capacity
              /\ \E c \in {"fail", "complete"} : run' = [run EXCEPT ![r].pc = c]
          BY <3>4 DEF StopHeartbeat
        <4>2. run'[r].pc \in {"fail", "complete"}
          BY <1>p, <1>t, <4>1, PcMoves DEF RunPC
        <4> QED
          BY <2>4, <4>1, <4>2 DEF SeriesRun
      <3> QED
        BY <1>6, <2>1, <3>1, <3>2, <3>3, <3>4
    <2> QED
      BY <1>o, <2>2, <2>3, <2>5
  <1>7. ASSUME NEW r \in Runs, Compute(r)
        PROVE  Goal
    <2>1. run[r].pc = "compute" /\ run[r].pc \in Working
      BY <1>7, <1>p DEF Compute
    <2>2. /\ run'[r].pc = "stop" /\ Unsettle(r)
          /\ shop'.status = shop.status /\ capacity' = capacity
      BY <1>7, <1>l, <1>t, <2>1, ComputeMoves
    <2>3. SeriesRun(run[r], capacity)
      BY <1>i
    <2>4. SeriesRun(run'[r], capacity')
      BY <2>1, <2>2, <2>3 DEF SeriesRun
    <2> QED
      BY <1>i, <1>o, <2>2, <2>4
  <1>8. ASSUME NEW r \in Runs, FetchPage(r)
        PROVE  Goal
    <2>1. run[r].pc \in Walking /\ run[r].pc \in Working
      BY <1>8, <1>p DEF FetchPage, Walking
    <2>2. run[r].count = run[r].page /\ run[r].scopes \in Scopes
      BY <2>1 DEF TypeInv, CountInv, CountedRun
    <2>3. Stay(r) /\ run'[r].pc = "save" /\ shop' = shop
          /\ capacity' = capacity
      BY <1>8, <1>t, <2>2, FetchMoves
    <2>4. SeriesRun(run'[r], capacity')
      BY <1>p, <2>3
    <2> QED
      BY <1>i, <1>o, <2>3, <2>4
  <1>9. ASSUME NEW r \in Runs, Complete(r) \/ Fail(r)
        PROVE  Goal
    <2>1. run[r].pc \in Working
      BY <1>9, <1>p DEF Complete, Fail
    <2>2. /\ Unsettle(r) /\ run'[r].pc = "done" /\ capacity' = capacity
          /\ shop'.status = "COMPLETE" => run[r].pc = "complete"
      BY <1>9, <1>l, <1>t, <2>1, EndMoves
    <2>3. SeriesRun(run'[r], capacity') /\ SeriesRun(run[r], capacity)
      BY <1>i, <1>p, <2>2
    <2>4. \A x \in Runs : SeriesRun(run'[x], capacity')
      BY <1>o, <2>2, <2>3
    <2> QED
      BY <2>2, <2>3, <2>4 DEF SeriesRun
  <1>10. ASSUME NEW r \in Runs, Beat(r)
         PROVE  Goal
    <2>1. run[r].pc \in Working
      BY <1>10, <1>t, BeatMoves
    <2>2. /\ \A x \in Runs : run'[x] = Unfresh(run[x])
          /\ shop'.status = shop.status /\ capacity' = capacity
      BY <1>10, <1>l, <1>t, <2>1, BeatMoves
    <2>3. run'[r].pc = run[r].pc /\ run'[r].rows = run[r].rows
      <3>1. run[r] \in Run
        BY <1>t, RunTyped
      <3> QED
        BY <2>2, <3>1 DEF Unfresh, Run
    <2>4. SeriesRun(run'[r], capacity') /\ Unsettle(r)
      BY <1>i, <2>2, <2>3 DEF SeriesRun, Unsettle
    <2> QED
      BY <1>i, <1>o, <2>2, <2>4
  <1>11. ASSUME LeaseExpires \/ LeaseLapses \/ ScopesUpdate
         PROVE  Goal
    <2>1. /\ run' = run /\ shop'.status = shop.status /\ capacity' = capacity
      BY <1>11, <1>t, OutsideMoves
    <2> QED
      BY <1>i, <2>1
  <1>12. ASSUME NEW r \in Runs
         PROVE  ~InvalidCursor(r)
    BY <1>h DEF InvalidCursor
  <1>13. ASSUME NEW p \in Processes
         PROVE  ~Crash(p)
    BY <1>h DEF Crash
  <1> HIDE DEF Goal
  <1>14. Goal
    BY <1>h, <1>1, <1>2, <1>3, <1>4, <1>5, <1>6, <1>7, <1>8, <1>9, <1>10,
       <1>11, <1>12, <1>13, Zenon DEF Next, Step
  <1> QED
    BY <1>14 DEF Goal

(* A complete import leaves the whole capacity series, or none where       *)
(* access to fulfilments may be missing, as long as nothing fails and      *)
(* nobody uninstalls (rebuildCapacityDays, whose writes are not fenced).   *)
THEOREM HealthyCapacity == Spec => []HealthyCapacityIsWhole
  <1>1. Init => SeriesInv
    <2> SUFFICES ASSUME Init
                 PROVE  SeriesInv
      OBVIOUS
    <2>1. shop.status = "PENDING" /\ \A r \in Runs : run[r].pc = "idle"
      BY DEF Init, Idle
    <2> QED
      BY <2>1 DEF SeriesInv, SeriesRun
  <1>2. SeriesInv => HealthyCapacityIsWhole
    BY DEF SeriesInv, Healthy, Series, HealthyCapacityIsWhole
  <1> QED
    BY <1>1, <1>2, SeriesStep, TypeInvariant, ImportInvariant, AloneInvariant,
       PTL DEF Spec
=============================================================================
