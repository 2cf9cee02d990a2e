------------------------------- MODULE AdSpend -------------------------------
(***************************************************************************)
(* Daily ad spend of one connector, from the platform to the profit it is  *)
(* charged to: app/lib/ad-ingestion.server.ts, ad-ingestion-plan.ts and    *)
(* ad-platforms/, app/queue/ads-queue.server.ts, and the part of           *)
(* app/lib/recompute.server.ts that reads spend.                           *)
(*                                                                         *)
(* A scheduling cycle plans the days that are due from the ledger of       *)
(* windows and queues them; workers ingest a day each and queue a          *)
(* recompute when the day changed; a sweep of the ledger repeats lost      *)
(* requests.  The queues live in Redis and may be lost; a job is unique by *)
(* its id while it waits or runs.                                          *)
(*                                                                         *)
(* Abstractions.                                                           *)
(*  - A day's rows are a version: what the platform reported when they     *)
(*    were fetched.  The hash of a version is the version.                 *)
(*  - Stamps are kept as far as they are compared: "stale" holds the days  *)
(*    whose lastChangedAt is after the shop's lastComputedAt, "owed" those *)
(*    whose lastChangedAt is after the start of the run under way, and an  *)
(*    ingest knows whether its own "now" is after either.                  *)
(*  - A retry of a failed job is the job waiting again, or gone after the  *)
(*    last attempt; rate limiters and debouncing are delays.               *)
(***************************************************************************)
EXTENDS AdHealth

CONSTANTS
    MaxDay,    \* bound: days are 1..MaxDay
    Slots,     \* worker slots of the provider's queue
    Look,      \* MERIDIAN_ADS_LOOKBACK_DAYS
    DeepLook,  \* MERIDIAN_ADS_DEEP_LOOKBACK_DAYS
    Cadence,   \* MERIDIAN_ADS_DEEP_CADENCE_DAYS
    FirstLook  \* MERIDIAN_ADS_INITIAL_BACKFILL_DAYS

ASSUME AdSpendAssumption ==
    /\ MaxDay \in Nat \ {0}
    /\ {Look, DeepLook, Cadence, FirstLook} \subseteq Nat \ {0}

VARIABLES
    today,    \* the date
    truth,    \* what the platform reports of each day
    window,   \* AdSyncWindow: state and contentHash
    spend,    \* AdSpend rows, as a version; 0 for none
    profit,   \* the version in the materialised profit
    stale,    \* days listShopsWithStaleProfit finds
    deepAt,   \* Connector.lastDeepSyncAt, as a day; 0 for never
    pinned,   \* Connector.accountCurrency is set
    job,      \* the ingest jobs, by day
    ingest,   \* what each slot is doing
    recalc,   \* the recompute job of the shop
    run,      \* the recompute under way
    overtaken \* ghost: days committed after a recompute that missed them

spendVars == <<today, truth, window, spend, profit, stale, deepAt, pinned, job,
               ingest, recalc, run, overtaken>>

Days == 1..MaxDay
JobStates == {"none", "waiting", "active"}
Idle == [pc |-> "idle", day |-> 1, seen |-> NoLink, rows |-> 0,
         afterRun |-> FALSE, after |-> FALSE]

Nothing == [d \in Days |-> 0]

SpendTypeOK ==
    /\ today \in Days /\ truth \in [Days -> Nat \ {0}]
    /\ window \in [Days -> [state : {"none", "pending", "failed", "synced"},
                            hash : Nat]]
    /\ spend \in [Days -> Nat] /\ profit \in [Days -> Nat]
    /\ stale \subseteq Days /\ overtaken \subseteq Days
    /\ deepAt \in 0..MaxDay /\ pinned \in BOOLEAN
    /\ job \in [Days -> JobStates] /\ recalc \in JobStates
    /\ \A s \in Slots : /\ ingest[s].pc \in {"idle", "begun", "ready", "fetched", "tell"}
                        /\ ingest[s].day \in Days /\ ingest[s].seen \in Link
    /\ run.pc \in {"idle", "begun", "read"} /\ run.owed \subseteq Days

SpendInit(first) ==
    /\ today = first
    /\ truth = [d \in Days |-> 1]
    /\ window = [d \in Days |-> [state |-> "none", hash |-> 0]]
    /\ spend = [d \in Days |-> 0]
    /\ profit = [d \in Days |-> 0]
    /\ stale = {} /\ overtaken = {}
    /\ deepAt = 0 /\ pinned = FALSE
    /\ job = [d \in Days |-> "none"] /\ recalc = "none"
    /\ ingest = [s \in Slots |-> Idle]
    /\ run = [pc |-> "idle", owed |-> {}, rows |-> Nothing, rider |-> FALSE]

-----------------------------------------------------------------------------
(* The planner and the cycle                                               *)

(* Mutant of DueDays: only days that are missing.                          *)
GapsOnly(horizon, synced, lookback) == (horizon..today) \ synced

(* planSyncDays: every gap since the horizon and the lookback once more.   *)
DueDays(horizon, synced, lookback) ==
    {d \in horizon..today : d \notin synced \/ d > today - lookback}

DeepDue == deepAt = 0 \/ today - deepAt >= Cadence

Windows == {d \in Days : window[d].state # "none"}
Horizon == IF Windows # {} THEN CHOOSE d \in Windows : \A e \in Windows : d <= e
           ELSE IF today > FirstLook THEN today - FirstLook + 1 ELSE 1

Synced  == {d \in Days : window[d].state = "synced"}

ListPollable == link.status \in {"connected", "error"}

Planned == IF ListPollable
           THEN DueDays(Horizon, Synced, IF DeepDue THEN DeepLook ELSE Look)
           ELSE {}

(* queue.add with a jobId: nothing if the id waits or runs already.        *)
Queued(state) == IF state = "none" THEN "waiting" ELSE state

(* runSchedulingCycle: windows, jobs, the stamp of the deep pass, and the  *)
(* recompute that the ledger still owes.                                   *)
RunSchedulingCycle ==
    /\ window' = [d \in Days |-> IF d \in Planned /\ window[d].state = "none"
                                 THEN [state |-> "pending", hash |-> 0]
                                 ELSE window[d]]
    /\ job' = [d \in Days |-> IF d \in Planned THEN Queued(job[d]) ELSE job[d]]
    /\ deepAt' = IF DeepDue /\ Planned # {} THEN today ELSE deepAt
    /\ recalc' = IF stale # {} THEN Queued(recalc) ELSE recalc
    /\ UNCHANGED <<healthVars, today, truth, spend, profit, stale, pinned,
                   ingest, run, overtaken>>

-----------------------------------------------------------------------------
(* ingestConnectorDay                                                      *)

Does(s, from, changes) ==
    /\ ingest[s].pc = from
    /\ ingest' = [ingest EXCEPT ![s] = changes]

At(s, pc) == [ingest[s] EXCEPT !.pc = pc]

(* The job is finished, or back in the queue for another attempt.  A queue *)
(* that was lost has no such job any more.                                 *)
JobEnds(d, state) == job' = [job EXCEPT ![d] = IF @ = "active" THEN state ELSE @]

(* A worker takes a job; "now" is taken and the connector read here.       *)
StartIngest(s, d) ==
    /\ job[d] = "waiting"
    /\ IF link.status = "disconnected"
       THEN /\ ingest[s].pc = "idle" /\ UNCHANGED ingest
            /\ job' = [job EXCEPT ![d] = "none"]
       ELSE /\ Does(s, "idle", [pc |-> "begun", day |-> d, seen |-> link,
                                rows |-> 0, afterRun |-> TRUE, after |-> TRUE])
            /\ job' = [job EXCEPT ![d] = "active"]
    /\ UNCHANGED <<healthVars, today, truth, window, spend, profit, stale,
                   deepAt, pinned, recalc, run, overtaken>>

(* An ingest writes the connector's status whether a check runs or has     *)
(* disconnected it.                                                        *)
Disturbs == apart' = (apart /\ link.status # "disconnected"
                            /\ \A p \in Processes : check[p].pc = "idle")

(* markWindowFailed: a day that was synced is due again.                   *)
MarkWindowFailed(d) == window' = [window EXCEPT ![d].state = "failed"]

(* An error of the provider: a refusal marks the connector and is not      *)
(* retried, a failure is.                                                  *)
IngestFails(s, answer) ==
    LET d == ingest[s].day IN
    /\ CASE answer = "auth" ->
              /\ link' = [link EXCEPT !.status = "error"]
              /\ MarkWindowFailed(d) /\ JobEnds(d, "none") /\ Disturbs
         [] answer = "transient" ->
              /\ MarkWindowFailed(d)
              /\ \E left \in {"waiting", "none"} : JobEnds(d, left)
              /\ UNCHANGED <<link, apart>>
         [] answer = "rate" ->
              /\ JobEnds(d, "waiting")
              /\ UNCHANGED <<link, apart, window>>
    /\ ingest' = [ingest EXCEPT ![s] = Idle]

(* freshAuth: a Google token about to expire is refreshed and stored; one  *)
(* that says nothing of its end is taken as it is.                         *)
NeedsRefresh(row) == google /\ row.refresh # NoCred /\ row.expiry = "soon"
FreshAuth(s) ==
    LET i == ingest[s] IN
    /\ i.pc = "begun"
    /\ IF ~NeedsRefresh(i.seen)
       THEN /\ Does(s, "begun", At(s, "ready"))
            /\ UNCHANGED <<link, allowed, apart, window, job>>
       ELSE \/ /\ i.seen.refresh \in usable
               /\ link' = Renewed(link, i.seen.refresh)
               /\ Does(s, "begun", [At(s, "ready") EXCEPT
                                      !.seen = Renewed(@, i.seen.refresh)])
               /\ Disturbs /\ UNCHANGED <<allowed, window, job>>
            \/ /\ i.seen.refresh \notin usable
               /\ IngestFails(s, "auth") /\ UNCHANGED allowed
            \/ /\ May("outages") /\ Spent("outages") /\ IngestFails(s, "transient")
    /\ UNCHANGED <<google, usable, lease, check, outage, today, truth, spend,
                   profit, stale, deepAt, pinned, recalc, run, overtaken>>

(* classifyMetaError, classifyGoogleAdsError, classifyTikTokEnvelope: a    *)
(* throttle, by status or code, before a refusal, before anything else.    *)
Classified(http, code) ==
    CASE http = 429 \/ code = "throttled"          -> "rate"
      [] ~(http = 429 \/ code = "throttled")
         /\ (http \in {401, 403} \/ code = "token") -> "auth"
      [] OTHER                                     -> "transient"

(* What the platform may answer to a token.                                *)
Answers(row) == IF row.access \in usable /\ row.fresh
                THEN {<<429, "none">>, <<200, "throttled">>, <<500, "none">>}
                ELSE {<<401, "none">>, <<200, "token">>}

(* fetchAccountProfile, once, and fetchDailySpend.                         *)
FetchDailySpend(s) ==
    LET i == ingest[s] IN
    /\ i.pc = "ready"
    /\ \/ /\ i.seen.access \in usable /\ i.seen.fresh
          /\ Does(s, "ready", [At(s, "fetched") EXCEPT !.rows = truth[i.day]])
          /\ pinned' = TRUE
          /\ UNCHANGED <<link, apart, allowed, window, job>>
       \/ \E a \in Answers(i.seen) :
            /\ IngestFails(s, Classified(a[1], a[2]))
            /\ IF i.seen.access \in usable /\ i.seen.fresh
               THEN May("outages") /\ Spent("outages") ELSE UNCHANGED allowed
            /\ UNCHANGED pinned
    /\ UNCHANGED <<google, usable, lease, check, outage, today, truth, spend,
                   profit, stale, deepAt, recalc, run, overtaken>>

(* A poll that restated nothing touches the window and ends.               *)
SameAgain(s) ==
    LET d == ingest[s].day IN
    /\ window[d] = [state |-> "synced", hash |-> ingest[s].rows]
    /\ Does(s, "fetched", Idle)
    /\ JobEnds(d, "none")
    /\ UNCHANGED <<healthVars, today, truth, window, spend, profit, stale,
                   deepAt, pinned, recalc, run, overtaken>>

(* Mutant of ChangedAt: the stamp is left for the next ingest to set.      *)
ChangedNever(s) == UNCHANGED <<stale, run>>

(* lastChangedAt becomes the time the ingest began.                        *)
ChangedAt(s) ==
    LET i == ingest[s] IN
    /\ stale' = IF i.after THEN stale \cup {i.day} ELSE stale \ {i.day}
    /\ run' = [run EXCEPT !.owed = IF i.afterRun /\ run.pc # "idle"
                                   THEN @ \cup {i.day} ELSE @ \ {i.day}]

(* The transaction: rows, window and connector together.                   *)
CommitSpend(s) ==
    LET i == ingest[s]
        d == i.day
        missed == \/ ~i.after
                  \/ ~i.afterRun /\ run.pc = "read"
    IN  /\ window[d] # [state |-> "synced", hash |-> i.rows]
        /\ Does(s, "fetched", At(s, "tell"))
        /\ spend' = [spend EXCEPT ![d] = i.rows]
        /\ window' = [window EXCEPT ![d] = [state |-> "synced", hash |-> i.rows]]
        /\ link' = [link EXCEPT !.status = "connected"]
        /\ Disturbs
        /\ ChangedAt(s)
        /\ overtaken' = IF missed THEN overtaken \cup {d} ELSE overtaken \ {d}
        /\ UNCHANGED <<google, allowed, usable, lease, check, outage, today,
                       truth, profit, deepAt, pinned, job, recalc>>

(* The exchange rate or the database fails.                                *)
CommitFails(s) ==
    /\ ingest[s].pc = "fetched" /\ May("outages") /\ Spent("outages")
    /\ IngestFails(s, "transient")
    /\ UNCHANGED <<google, usable, lease, check, outage, today, truth, spend,
                   profit, stale, deepAt, pinned, recalc, run, overtaken>>

(* The processor asks for a recompute; an active one swallows the request. *)
RequestRecompute(s) ==
    /\ Does(s, "tell", Idle)
    /\ recalc' = Queued(recalc)
    /\ JobEnds(ingest[s].day, "none")
    /\ UNCHANGED <<healthVars, today, truth, window, spend, profit, stale,
                   deepAt, pinned, run, overtaken>>

-----------------------------------------------------------------------------
(* recomputeShopProfitability                                              *)

(* A run begins; every ingest under way has an earlier stamp.              *)
Begun(rider) ==
    /\ run' = [pc |-> "begun", owed |-> {}, rows |-> Nothing, rider |-> rider]
    /\ ingest' = [s \in Slots |-> [ingest[s] EXCEPT !.afterRun = FALSE]]

(* The recompute worker; a run under way is shared.                        *)
StartRecompute ==
    /\ recalc = "waiting" /\ recalc' = "active"
    /\ IF run.pc = "idle" THEN Begun(TRUE)
       ELSE run' = [run EXCEPT !.rider = TRUE] /\ UNCHANGED ingest
    /\ UNCHANGED <<healthVars, today, truth, window, spend, profit, stale,
                   deepAt, pinned, job, overtaken>>

(* A recompute for another reason.                                         *)
OtherRecompute ==
    /\ May("others") /\ Spent("others")
    /\ run.pc = "idle" /\ Begun(FALSE)
    /\ UNCHANGED <<google, usable, link, lease, check, outage, apart, today,
                   truth, window, spend, profit, stale, deepAt, pinned, job,
                   recalc, overtaken>>

ReadSpend ==
    /\ run.pc = "begun"
    /\ run' = [run EXCEPT !.pc = "read", !.rows = spend]
    /\ UNCHANGED <<healthVars, today, truth, window, spend, profit, stale,
                   deepAt, pinned, job, ingest, recalc, overtaken>>

(* The orders are written and lastComputedAt set to the run's start.       *)
FinishRecompute ==
    /\ run.pc = "read"
    /\ profit' = run.rows
    /\ stale' = run.owed
    /\ ingest' = [s \in Slots |-> [ingest[s] EXCEPT !.after = @ /\ ingest[s].afterRun]]
    /\ overtaken' = {d \in overtaken : run.rows[d] # spend[d]}
    /\ recalc' = IF run.rider /\ recalc = "active" THEN "none" ELSE recalc
    /\ run' = [pc |-> "idle", owed |-> {}, rows |-> Nothing, rider |-> FALSE]
    /\ UNCHANGED <<healthVars, today, truth, window, spend, deepAt, pinned, job>>

-----------------------------------------------------------------------------
(* The world                                                               *)

Restates(d) ==
    /\ d <= today /\ May("restates") /\ Spent("restates")
    /\ truth' = [truth EXCEPT ![d] = @ + 1]
    /\ UNCHANGED <<google, usable, link, lease, check, outage, apart, today,
                   window, spend, profit, stale, deepAt, pinned, job, ingest,
                   recalc, run, overtaken>>

DayPasses ==
    /\ today < MaxDay /\ today' = today + 1
    /\ UNCHANGED <<healthVars, truth, window, spend, profit, stale, deepAt,
                   pinned, job, ingest, recalc, run, overtaken>>

(* Redis loses its queues; what runs goes on.                              *)
FlushRedis ==
    /\ May("flushes") /\ Spent("flushes")
    /\ job' = [d \in Days |-> "none"] /\ recalc' = "none"
    /\ UNCHANGED <<google, usable, link, lease, check, outage, apart, today,
                   truth, window, spend, profit, stale, deepAt, pinned, ingest,
                   run, overtaken>>

(* The worker process dies; its jobs stall and are taken again.            *)
WorkerDies ==
    /\ May("crashes") /\ Spent("crashes")
    /\ ingest' = [s \in Slots |-> Idle]
    /\ run' = [pc |-> "idle", owed |-> {}, rows |-> Nothing, rider |-> FALSE]
    /\ job' = [d \in Days |-> IF job[d] = "active" THEN "waiting" ELSE job[d]]
    /\ recalc' = IF recalc = "active" THEN "waiting" ELSE recalc
    /\ UNCHANGED <<google, usable, link, lease, check, outage, apart, today,
                   truth, window, spend, profit, stale, deepAt, pinned,
                   overtaken>>

IngestStep(s) == FreshAuth(s) \/ FetchDailySpend(s) \/ SameAgain(s)
                 \/ CommitSpend(s) \/ RequestRecompute(s)

SpendNext ==
    \/ RunSchedulingCycle
    \/ \E s \in Slots : CommitFails(s) \/ IngestStep(s)
                        \/ \E d \in Days : StartIngest(s, d)
    \/ StartRecompute \/ OtherRecompute \/ ReadSpend \/ FinishRecompute
    \/ \E d \in Days : Restates(d)
    \/ DayPasses \/ FlushRedis \/ WorkerDies

-----------------------------------------------------------------------------
(* The ledger knows of every day whose spend is not in the profit, except  *)
(* for one that was committed under a stamp older than a recompute that    *)
(* had already read: crashes and lost queues do not matter.                *)
StaleProfitIsSeen ==
    \A d \in Days \ overtaken : profit[d] # spend[d] => d \in stale

(* What the code says of every day.                                        *)
ChangedSpendIsOwed == \A d \in Days : profit[d] # spend[d] => d \in stale
=============================================================================
