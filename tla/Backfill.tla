------------------------------ MODULE Backfill ------------------------------
(***************************************************************************)
(* The historical import of a shop: its claim, lease and heartbeat         *)
(* (app/lib/backfill-claim.server.ts), the stages of a run                 *)
(* (app/lib/backfill.server.ts) and what starts one (the OAuth callback in *)
(* app/shopify.server.ts, and the Settings screen).                        *)
(*                                                                         *)
(* A run walks the store's orders page by page, oldest first.  After every *)
(* page it writes its progress and Shopify's cursor to the Shop row, so    *)
(* that the next run can go on where this one stopped.  The row carries    *)
(* the owner's token and lease; progress and the end of a run are fenced   *)
(* by the token.  The orders and the daily capacity series are not.        *)
(*                                                                         *)
(* Abstractions.                                                           *)
(*  - One shop.  A page of orders is one unit: `count` counts pages, and a *)
(*    cursor is the number of the last page, 0 for null.                   *)
(*  - A run's token is its name: each run claims once.                     *)
(*  - The profile and the products, which each run imports again, are one  *)
(*    fenced step; so are the recompute and its stage.                     *)
(*  - `live` says that syncLeaseExpiresAt is in the future.  Rows from     *)
(*    before the lease existed are left out.                               *)
(*  - imported[p] is the set of scopes under which page p was read in its  *)
(*    current state; an uninstallation makes all of them out of date.      *)
(***************************************************************************)
EXTENDS Naturals, FiniteSets

CONSTANTS
    Runs,           \* requests for an import, each of which may become a run
    Processes,      \* server processes
    LastPage,       \* the number of order pages of the store
    Limited,        \* the processes started with MERIDIAN_MAX_BACKFILL_ORDERS
    MaxOrders,      \* what that says, in pages
    Scopes,         \* what the merchant may have granted
    InitialScopes,  \* what is granted at first
    Fulfillments,   \* the scopes with access to fulfilments
    MaxUninstalls,  \* bound: uninstallations
    MaxGrants,      \* bound: changes of the granted scopes
    MaxFaults,      \* bound: crashes, lost leases, errors of Shopify
    None            \* no run, no process, no scopes

Pages == 1..LastPage

ASSUME NamesAssumption == /\ None \notin Runs \cup Processes \cup Scopes
                          /\ Limited \subseteq Processes
ASSUME ScopesAssumption == /\ InitialScopes \in Scopes
                           /\ Fulfillments \subseteq Scopes
ASSUME BoundsAssumption == /\ LastPage \in Nat \ {0}
                           /\ MaxOrders \in Nat \ {0}
                           /\ MaxUninstalls \in Nat /\ MaxGrants \in Nat
                           /\ MaxFaults \in Nat

VARIABLES
    shop,        \* the sync columns of the Shop row
    imported,    \* the order pages stored in their current state
    capacity,    \* the pages that the CapacityDay rows were built from
    run,         \* the requests and the runs they become
    active,      \* activeBackfills of each process: its run
    uninstalls,  \* uninstallations so far (bound)
    grants,      \* scope changes so far (bound)
    faults       \* faults spent so far (bound)

vars == <<shop, imported, capacity, run, active, uninstalls, grants, faults>>

Status == {"PENDING", "RUNNING", "COMPLETE", "FAILED"}

Shop == [status : Status, token : Runs \cup {None}, live : BOOLEAN,
         cursor : 0..LastPage, count : 0..LastPage,
         scopes : Scopes, uninstalled : BOOLEAN]

Waiting == {"ask", "read", "claim"}
Walking == {"setup", "fetch", "save"}
Working == Walking \cup {"capacity", "delete", "create", "compute", "stop",
                         "complete", "fail"}
Ended   == {"refused", "done", "dead"}

(* A run: where it is, its process, the snapshot its claim rests on        *)
(* (`fresh` until the row's claim columns change), the scopes it reads     *)
(* with, the last page it has walked, the cursor to save, the pages        *)
(* counted, whether it carries the stored cursor, the lease loss its       *)
(* heartbeat has seen, and the rows it is about to write.                  *)
Run == [pc : {"idle"} \cup Waiting \cup Working \cup Ended,
        home : Processes \cup {None}, fresh : BOOLEAN,
        scopes : Scopes \cup {None}, page : 0..LastPage, end : 0..LastPage,
        count : 0..LastPage, resuming : BOOLEAN, lost : BOOLEAN,
        rows : SUBSET Pages]

TypeOK == /\ shop \in Shop
          /\ imported \in [Pages -> SUBSET Scopes]
          /\ capacity \subseteq Pages
          /\ run \in [Runs -> Run]
          /\ active \in [Processes -> Runs \cup {None}]
          /\ uninstalls \in 0..MaxUninstalls
          /\ grants \in 0..MaxGrants
          /\ faults \in 0..MaxFaults

Idle == [pc |-> "idle", home |-> None, fresh |-> FALSE, scopes |-> None,
         page |-> 0, end |-> 0, count |-> 0, resuming |-> FALSE,
         lost |-> FALSE, rows |-> {}]

Init == /\ shop = [status |-> "PENDING", token |-> None, live |-> FALSE,
                   cursor |-> 0, count |-> 0, scopes |-> InitialScopes,
                   uninstalled |-> FALSE]
        /\ imported = [p \in Pages |-> {}]
        /\ capacity = {}
        /\ run = [r \in Runs |-> Idle]
        /\ active = [p \in Processes |-> None]
        /\ uninstalls = 0 /\ grants = 0 /\ faults = 0

bounds == <<uninstalls, grants, faults>>
Fault  == faults < MaxFaults /\ faults' = faults + 1

-----------------------------------------------------------------------------
(* Starting                                                                *)

(* A write of the status, the token or the lease fails every              *)
(* compare-and-set that rests on an earlier read.                          *)
Touched(runs) == [r \in Runs |-> [runs[r] EXCEPT !.fresh = FALSE]]

Stale == shop.status = "RUNNING" /\ ~shop.live

(* afterAuth.  ensureShopProvisioned sends a shop that comes back to       *)
(* PENDING; otherwise a finished or a live import is left alone.           *)
Returning(r, p) ==
    /\ shop.uninstalled
    /\ shop' = [shop EXCEPT !.status = "PENDING", !.uninstalled = FALSE]
    /\ run' = [Touched(run) EXCEPT ![r] =
                 [Idle EXCEPT !.pc = "ask", !.home = p]]

Reauthorised(r, p) ==
    /\ ~shop.uninstalled
    /\ run' = [run EXCEPT ![r] =
                 [Idle EXCEPT !.home = p,
                     !.pc = IF shop.status \in {"PENDING", "FAILED"} \/ Stale
                            THEN "ask" ELSE "refused"]]
    /\ UNCHANGED shop

AfterAuth(r, p) ==
    /\ run[r].pc = "idle"
    /\ Returning(r, p) \/ Reauthorised(r, p)
    /\ UNCHANGED <<imported, capacity, active, bounds>>

(* The merchant asks for a new import on the Settings screen.              *)
Resync(r, p) ==
    /\ run[r].pc = "idle"
    /\ ~shop.uninstalled
    /\ run' = [run EXCEPT ![r] = [Idle EXCEPT !.pc = "ask", !.home = p]]
    /\ UNCHANGED <<shop, imported, capacity, active, bounds>>

(* beginBackfill: at most one run in a process.                            *)
Ask(r) ==
    /\ run[r].pc = "ask"
    /\ run' = [run EXCEPT ![r].pc =
                 IF active[run[r].home] = None THEN "read" ELSE "refused"]
    /\ UNCHANGED <<shop, imported, capacity, active, bounds>>

(* Mutant of ResumePoint: a shop that has come back resumes, too.          *)
ResumePointAny == IF shop.status = "COMPLETE" THEN 0 ELSE shop.cursor

(* resumePointFor: only an interrupted run is resumed.                     *)
ResumePoint == IF shop.status \in {"RUNNING", "FAILED"} THEN shop.cursor
               ELSE 0

(* Mutant of Claimable: whatever the lease says.                           *)
ClaimableAlways == TRUE

Claimable == shop.status # "RUNNING" \/ Stale

(* claimBackfill reads the row and decides where to resume ...             *)
ReadShop(r) ==
    /\ run[r].pc = "read"
    /\ run' = [run EXCEPT ![r] =
                 IF Claimable
                 THEN [@ EXCEPT !.pc = "claim", !.fresh = TRUE,
                                !.scopes = shop.scopes,
                                !.page = ResumePoint,
                                !.count = IF ResumePoint > 0
                                          THEN shop.count ELSE 0,
                                !.resuming = ResumePoint > 0]
                 ELSE [@ EXCEPT !.pc = "refused"]]
    /\ UNCHANGED <<shop, imported, capacity, active, bounds>>

(* ... and becomes the owner if the row is still the one it read.          *)
Claim(r) ==
    /\ run[r].pc = "claim"
    /\ run[r].fresh
    /\ shop' = [shop EXCEPT !.status = "RUNNING", !.token = r, !.live = TRUE,
                            !.cursor = run[r].page, !.count = run[r].count]
    /\ run' = [Touched(run) EXCEPT ![r].pc = "setup"]
    /\ active' = [active EXCEPT ![run[r].home] = r]
    /\ UNCHANGED <<imported, capacity, bounds>>

ClaimLost(r) ==
    /\ run[r].pc = "claim"
    /\ ~run[r].fresh
    /\ run' = [run EXCEPT ![r].pc = "refused"]
    /\ UNCHANGED <<shop, imported, capacity, active, bounds>>

-----------------------------------------------------------------------------
(* Ownership                                                               *)

(* Mutant of Owns: the token is not compared.                              *)
OwnsRunning(r) == shop.status = "RUNNING"

Owns(r) == shop.status = "RUNNING" /\ shop.token = r

(* writeForOwner: a progress write renews the lease; a run that no longer  *)
(* owns the row throws.                                                    *)
Progress(r, row, next) ==
    IF Owns(r)
    THEN /\ shop' = [row EXCEPT !.live = TRUE]
         /\ run' = [Touched(run) EXCEPT ![r] = next]
    ELSE /\ run' = [run EXCEPT ![r].pc = "fail"]
         /\ UNCHANGED shop

(* The heartbeat renews the lease, and stops for good when it is lost.     *)
Beat(r) ==
    /\ run[r].pc \in Working \ {"complete", "fail"}
    /\ ~run[r].lost
    /\ IF Owns(r)
       THEN /\ shop' = [shop EXCEPT !.live = TRUE]
            /\ run' = Touched(run)
       ELSE /\ run' = [run EXCEPT ![r].lost = TRUE]
            /\ UNCHANGED shop
    /\ UNCHANGED <<imported, capacity, active, bounds>>

(* The owner is gone and its lease runs out.                               *)
LeaseExpires ==
    /\ shop.status = "RUNNING" /\ shop.live
    /\ run[shop.token].pc \notin Working
    /\ shop' = [shop EXCEPT !.live = FALSE]
    /\ UNCHANGED <<imported, capacity, run, active, bounds>>

(* The owner stalls for longer than its lease.                             *)
LeaseLapses ==
    /\ shop.status = "RUNNING" /\ shop.live
    /\ run[shop.token].pc \in Working
    /\ Fault
    /\ shop' = [shop EXCEPT !.live = FALSE]
    /\ UNCHANGED <<imported, capacity, run, active, uninstalls, grants>>

-----------------------------------------------------------------------------
(* The stages of a run (runClaimedBackfill)                                *)

(* The profile, the products, and the stage "Importing order history".     *)
Setup(r) ==
    /\ run[r].pc = "setup"
    /\ Progress(r, shop, [run[r] EXCEPT !.pc = "fetch", !.fresh = FALSE])
    /\ UNCHANGED <<imported, capacity, active, bounds>>

(* The next page is fetched and its orders are stored, owner or not.  A    *)
(* page after the last one is empty and has no cursor.                     *)
FetchPage(r) ==
    /\ run[r].pc = "fetch"
    /\ ~shop.uninstalled
    /\ IF run[r].page < LastPage
       THEN LET p == run[r].page + 1 IN
            /\ imported' = [imported EXCEPT ![p] = {run[r].scopes}]
            /\ run' = [run EXCEPT ![r] =
                         [@ EXCEPT !.pc = "save", !.resuming = FALSE,
                                   !.page = p, !.end = p,
                                   !.count = run[r].count + 1]]
       ELSE /\ run' = [run EXCEPT ![r] =
                         [@ EXCEPT !.pc = "save", !.resuming = FALSE,
                                   !.end = 0]]
            /\ UNCHANGED imported
    /\ UNCHANGED <<shop, capacity, active, bounds>>

(* Shopify no longer takes the stored cursor: the walk starts over.        *)
InvalidCursor(r) ==
    /\ run[r].pc = "fetch"
    /\ run[r].resuming
    /\ Fault
    /\ run' = [run EXCEPT ![r].page = 0, ![r].count = 0,
                          ![r].resuming = FALSE]
    /\ UNCHANGED <<shop, imported, capacity, active, uninstalls, grants>>

(* Shopify fails, or an uninstalled shop's token is refused.               *)
FetchFails(r) ==
    /\ run[r].pc \in {"setup", "fetch"}
    /\ \/ shop.uninstalled /\ UNCHANGED faults
       \/ ~shop.uninstalled /\ Fault
    /\ run' = [run EXCEPT ![r].pc = "fail"]
    /\ UNCHANGED <<shop, imported, capacity, active, uninstalls, grants>>

(* Mutants of AfterPage: the walk stops a page early; it never stops.      *)
AfterPageEarly(r) == IF run[r].page + 1 >= LastPage THEN "capacity"
                     ELSE "fetch"
AfterPageAlways(r) == "fetch"

(* hasNextPage and the diagnostic ceiling, which pauses the import.        *)
AfterPage(r) == CASE run[r].page = LastPage -> "capacity"
                  [] /\ run[r].page < LastPage
                     /\ run[r].home \in Limited /\ run[r].count >= MaxOrders
                     -> "fail"
                  [] OTHER -> "fetch"

(* writePageProgress: the cursor and the count of the page just stored.    *)
SavePage(r) ==
    /\ run[r].pc = "save"
    /\ Progress(r, [shop EXCEPT !.cursor = run[r].end,
                                !.count = run[r].count],
                [run[r] EXCEPT !.pc = AfterPage(r), !.fresh = FALSE])
    /\ UNCHANGED <<imported, capacity, active, bounds>>

-----------------------------------------------------------------------------
(* The capacity series                                                     *)

Stored == {p \in Pages : imported[p] # {}}

(* With access to fulfilments the stage is written, fenced, and the orders *)
(* are read; without it the rows are deleted.                              *)
ReadCapacity(r) ==
    /\ run[r].pc = "capacity"
    /\ run[r].scopes \in Fulfillments
    /\ Progress(r, shop, [run[r] EXCEPT !.pc = "delete", !.rows = Stored,
                                        !.fresh = FALSE])
    /\ UNCHANGED <<imported, capacity, active, bounds>>

ClearCapacity(r) ==
    /\ run[r].pc = "capacity"
    /\ run[r].scopes \notin Fulfillments
    /\ capacity' = {}
    /\ run' = [run EXCEPT ![r].pc = "compute"]
    /\ UNCHANGED <<shop, imported, active, bounds>>

(* rebuildCapacityDays: no orders, no rows; else all rows are deleted ...  *)
DeleteRows(r) ==
    /\ run[r].pc = "delete"
    /\ IF run[r].rows = {}
       THEN run' = [run EXCEPT ![r].pc = "compute"] /\ UNCHANGED capacity
       ELSE run' = [run EXCEPT ![r].pc = "create"] /\ capacity' = {}
    /\ UNCHANGED <<shop, imported, active, bounds>>

(* Mutant of CreateRows: the last rows are not written.                    *)
CreateRowsShort(r) ==
    /\ run[r].pc = "create"
    /\ capacity' = run[r].rows \ {LastPage}
    /\ run' = [run EXCEPT ![r].pc = "compute"]
    /\ UNCHANGED <<shop, imported, active, bounds>>

(* ... and created, unless another rebuild has created them: the unique    *)
(* day fails the run.                                                      *)
CreateRows(r) ==
    /\ run[r].pc = "create"
    /\ IF capacity = {}
       THEN capacity' = run[r].rows /\ run' = [run EXCEPT ![r].pc = "compute"]
       ELSE run' = [run EXCEPT ![r].pc = "fail"] /\ UNCHANGED capacity
    /\ UNCHANGED <<shop, imported, active, bounds>>

-----------------------------------------------------------------------------
(* The end of a run                                                        *)

(* The stage "Computing profitability" and the recompute.                  *)
Compute(r) ==
    /\ run[r].pc = "compute"
    /\ Progress(r, shop, [run[r] EXCEPT !.pc = "stop", !.fresh = FALSE])
    /\ UNCHANGED <<imported, capacity, active, bounds>>

(* The heartbeat is stopped, and tells of a lost lease.                    *)
StopHeartbeat(r) ==
    /\ run[r].pc = "stop"
    /\ run' = [run EXCEPT ![r].pc = IF run[r].lost THEN "fail"
                                    ELSE "complete"]
    /\ UNCHANGED <<shop, imported, capacity, active, bounds>>

Forgotten(r) == [p \in Processes |-> IF active[p] = r THEN None
                                     ELSE active[p]]
Settled(status) == [shop EXCEPT !.status = status, !.token = None,
                                !.live = FALSE]

(* completeBackfill: the cursor of a finished walk is thrown away.         *)
Complete(r) ==
    /\ run[r].pc = "complete"
    /\ IF Owns(r)
       THEN /\ shop' = [Settled("COMPLETE") EXCEPT !.cursor = 0]
            /\ run' = [Touched(run) EXCEPT ![r].pc = "done"]
            /\ active' = Forgotten(r)
       ELSE /\ run' = [run EXCEPT ![r].pc = "fail"]
            /\ UNCHANGED <<shop, active>>
    /\ UNCHANGED <<imported, capacity, bounds>>

(* failBackfill, with the heartbeat stopped: the row is the owner's to     *)
(* mark; the resume cursor stays.                                          *)
Fail(r) ==
    /\ run[r].pc = "fail"
    /\ IF Owns(r)
       THEN /\ shop' = Settled("FAILED")
            /\ run' = [Touched(run) EXCEPT ![r].pc = "done"]
       ELSE /\ run' = [run EXCEPT ![r].pc = "done"]
            /\ UNCHANGED shop
    /\ active' = Forgotten(r)
    /\ UNCHANGED <<imported, capacity, bounds>>

-----------------------------------------------------------------------------
(* The environment                                                         *)

(* A process dies, with its requests and its run.                          *)
Crash(p) ==
    /\ \E r \in Runs : run[r].home = p /\ run[r].pc \notin Ended
    /\ Fault
    /\ run' = [r \in Runs |->
                 IF run[r].home = p /\ run[r].pc \notin Ended
                 THEN [run[r] EXCEPT !.pc = "dead"] ELSE run[r]]
    /\ active' = [active EXCEPT ![p] = None]
    /\ UNCHANGED <<shop, imported, capacity, uninstalls, grants>>

(* processAppUninstalledWebhook: from now on the store moves unseen.       *)
Uninstall ==
    /\ ~shop.uninstalled
    /\ uninstalls < MaxUninstalls
    /\ uninstalls' = uninstalls + 1
    /\ shop' = [shop EXCEPT !.uninstalled = TRUE]
    /\ imported' = [p \in Pages |-> {}]
    /\ UNCHANGED <<capacity, run, active, grants, faults>>

(* processAppScopesUpdateWebhook: the import's state is not touched.       *)
ScopesUpdate ==
    /\ ~shop.uninstalled
    /\ grants < MaxGrants
    /\ grants' = grants + 1
    /\ \E s \in Scopes \ {shop.scopes} : shop' = [shop EXCEPT !.scopes = s]
    /\ UNCHANGED <<imported, capacity, run, active, uninstalls, faults>>

Step(r) == \/ Ask(r) \/ ReadShop(r) \/ Claim(r) \/ ClaimLost(r)
           \/ Setup(r) \/ FetchPage(r) \/ FetchFails(r) \/ SavePage(r)
           \/ ReadCapacity(r) \/ ClearCapacity(r)
           \/ DeleteRows(r) \/ CreateRows(r)
           \/ Compute(r) \/ StopHeartbeat(r) \/ Complete(r) \/ Fail(r)

Next == \/ \E r \in Runs : \/ Step(r) \/ Beat(r) \/ InvalidCursor(r)
                           \/ \E p \in Processes : AfterAuth(r, p)
                                                   \/ Resync(r, p)
        \/ \E p \in Processes : Crash(p)
        \/ LeaseExpires \/ LeaseLapses
        \/ Uninstall \/ ScopesUpdate

Spec == Init /\ [][Next]_vars

(* A run takes its next step as long as its process lives, and time        *)
(* passes.  Nobody has to ask for an import.                               *)
Fairness == /\ \A r \in Runs : WF_vars(Step(r))
            /\ WF_vars(LeaseExpires)

FairSpec == Spec /\ Fairness

-----------------------------------------------------------------------------
(* Properties                                                              *)

(* A stored cursor can be resumed from: all pages up to it are stored, and *)
(* the count is theirs, through crashes, takeovers and rejected cursors.   *)
(* (What a shop held before it was uninstalled is not resumed.)            *)
ResumePointIsSound ==
    (/\ shop.status \in {"RUNNING", "FAILED"} /\ ~shop.uninstalled
     /\ shop.cursor > 0)
    => /\ \A p \in 1..shop.cursor : imported[p] # {}
       /\ shop.count = shop.cursor

(* An import that is reported complete has stored every order page, in the *)
(* state it has since the shop last came back.                             *)
CompleteMeansImported ==
    (shop.status = "COMPLETE" /\ ~shop.uninstalled) => Stored = Pages

(* Without a fault and an uninstallation two runs never walk the store at  *)
(* the same time (the comment on claimBackfill).                           *)
HealthyImportRunsAlone ==
    (faults = 0 /\ uninstalls = 0)
    => Cardinality({r \in Runs : run[r].pc \in Working}) <= 1

(* ... and a complete import leaves the whole capacity series, or none if  *)
(* there is no access to fulfilments, although its writes are not fenced.  *)
HealthyCapacityIsWhole ==
    (faults = 0 /\ uninstalls = 0 /\ shop.status = "COMPLETE")
    => capacity \in {Pages, {}} /\ (Fulfillments = Scopes => capacity = Pages)

(* A run that has begun ends, completed or failed: no cursor and no lost   *)
(* lease makes it walk for ever.                                           *)
RunsEnd == \A r \in Runs : run[r].pc \in Working ~> run[r].pc \in Ended

-----------------------------------------------------------------------------
(* What the documentation states and the code does not keep: no run states *)
(* it; the README says how to see it fail.                                 *)

(* The comment on resumePointFor: a run after a change of scopes starts    *)
(* over, so the pages of a complete import were read with the same scopes. *)
ImportHasOneShape ==
    (shop.status = "COMPLETE" /\ ~shop.uninstalled)
    => \E s \in Scopes : \A p \in Pages : imported[p] = {s}
=============================================================================
