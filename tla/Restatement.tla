---------------------------- MODULE Restatement ----------------------------
(***************************************************************************)
(* Restating history: app/lib/restatement.server.ts, run as a job of the   *)
(* recalculation queue, with the part of app/lib/recompute.server.ts it    *)
(* waits for and the order sync that shares its line items.                *)
(*                                                                         *)
(* One shop, one process.  A merchant edits the cost timeline, asks for    *)
(* restatements, closes and reopens months; a worker runs the jobs; other  *)
(* callers recompute the shop; Shopify sends orders again.  Every awaited  *)
(* database call is a step, those of concurrent requests and of the lease  *)
(* included.                                                               *)
(*                                                                         *)
(* Abstractions.                                                           *)
(*  - A month's cost basis is a version number, 0 at first.  `basis` is    *)
(*    what the cost timeline says for the month's orders, `line` what is   *)
(*    written on their line items, `ledger` the materialised figure.       *)
(*  - A window is its first month: `to` is always now.                     *)
(*  - The n-th request for a restatement is call n, and the RecalcJob row  *)
(*    it creates, if it does, is row n; 0 is no row.                       *)
(*  - A finished handler and the completion of its job are one step: dying *)
(*    in between reruns what is idempotent (RecalcQueue has the steps).    *)
(*  - Which months have orders does not change.                            *)
(***************************************************************************)
EXTENDS Naturals, Sequences, FiniteSets

CONSTANTS
    LastMonth,     \* months are numbered from 1
    Trading,       \* the months with orders
    MaxRuns,       \* RECALC_MAX_ATTEMPTS
    MaxCalls,      \* bound: requests for a restatement
    Budgets        \* bound: how often each of Causes may happen, alternatives

Months == 1..LastMonth
Calls  == 1..MaxCalls
Causes == {"edit", "ask", "close", "reopen", "crash", "recompute", "resync"}

ASSUME CalendarAssumption ==
    LastMonth \in Nat \ {0} /\ Trading \in SUBSET Months
ASSUME BudgetsAssumption == /\ MaxRuns \in Nat \ {0} /\ MaxCalls \in Nat
                            /\ Budgets \in SUBSET [Causes -> Nat]

VARIABLES
    basis, line, ledger,  \* see above, by month
    snap,      \* PeriodSnapshot, by month
    log,       \* PeriodRestatement, by month
    job,       \* the shop's rows of the RecalcJob table
    asking,    \* the calls of enqueueRestatement: counter and variables
    work,      \* the worker: the running job and restateCosts' variables
    rc,        \* the shop's recompute in flight
    closing,   \* a closePeriod call in progress
    moved,     \* history: how often a month's lines were rewritten by a run
    owed,      \* history: the basis a month was last asked to be restated to
    crossed,   \* history: a payload was written or leased over a change
    budget,    \* the alternative of Budgets that the behaviour has
    spent      \* what has been spent of it

books == <<basis, line, ledger>>
restateVars == <<basis, line, ledger, snap, log, job, asking, work, rc,
                 closing, moved, owed, crossed, budget, spent>>

ByMonth == [Months -> Nat]
Figures == [Months -> Nat]

Snapshot == [kept : BOOLEAN, closed : BOOLEAN, cogs : Nat, count : Nat]
Record   == [before : Nat, after : Nat]

(* A row of RecalcJob: its payload, and whether it holds the shop's key.   *)
Ask == [from : Months, inc : BOOLEAN]
Job == [status : {"absent", "queued", "running", "complete", "failed"},
        from : Months, inc : BOOLEAN, attempts : Nat, keyed : BOOLEAN]
NoJob == [status |-> "absent", from |-> 1, inc |-> FALSE, attempts |-> 0,
          keyed |-> FALSE]

(* A call: what it asks for, the row its first lookup read (`existing` of  *)
(* enqueueRestatement) and the name of the row its second one found.       *)
CallPC == {"idle", "find", "fold", "release", "create", "create_unkeyed",
           "accepted"}
Call == [pc : CallPC, ask : Ask, seen : Job, existing : Calls \cup {0}]
NoAsk == [from |-> 1, inc |-> FALSE]
IdleCall == [pc |-> "idle", ask |-> NoAsk, seen |-> NoJob, existing |-> 0]

(* The worker: the running job's name and row as it was read before the    *)
(* lease, and restateCosts' variables.                                     *)
WorkPC == {"idle", "lease", "check", "report", "freeze", "count", "baseline",
           "baseline_wait", "before", "rewrite", "materialise",
           "materialise_wait", "after", "record", "tally"}
Runner == [pc : WorkPC, id : Calls \cup {0}, job : Job, reported : Figures,
         before : Figures, after : Figures, affected : SUBSET Months,
         month : Months]
Zero == [m \in Months |-> 0]
IdleWork == [pc |-> "idle", id |-> 0, job |-> NoJob, reported |-> Zero,
             before |-> Zero, after |-> Zero, affected |-> {}, month |-> 1]
IdleRun == [pc |-> "idle", month |-> 1, value |-> 0]
NoClosing == [pc |-> "idle", month |-> 1, value |-> 0]

RestateTypeOK ==
    /\ basis \in ByMonth /\ line \in ByMonth /\ ledger \in ByMonth
    /\ snap  \in [Months -> Snapshot]
    /\ log   \in [Months -> Seq(Record)]
    /\ job \in [Calls -> Job] /\ asking \in [Calls -> Call]
    /\ work \in Runner
    /\ rc    \in [pc : {"idle", "load", "write"}, month : Months, value : Nat]
    /\ closing \in [pc : {"idle", "freeze", "lock"}, month : Months,
                    value : Nat]
    /\ moved \in ByMonth /\ owed \in ByMonth
    /\ crossed \in BOOLEAN
    /\ budget \in [Causes -> Nat] /\ spent \in [Causes -> Nat]

RestateInit == /\ basis = Zero /\ line = Zero /\ ledger = Zero
               /\ snap = [m \in Months |->
                            [kept |-> FALSE, closed |-> FALSE, cogs |-> 0,
                             count |-> 0]]
               /\ log = [m \in Months |-> <<>>]
               /\ job = [c \in Calls |-> NoJob]
               /\ asking = [c \in Calls |-> IdleCall]
               /\ work = IdleWork
               /\ rc = IdleRun
               /\ closing = NoClosing
               /\ moved = Zero /\ owed = Zero
               /\ crossed = FALSE
               /\ budget \in Budgets /\ spent = [k \in Causes |-> 0]

Spend(k) == /\ spent[k] < budget[k]
            /\ spent' = [spent EXCEPT ![k] = @ + 1]
            /\ UNCHANGED budget

Earlier(a, b) == IF a < b THEN a ELSE b
Window(row) == {m \in Months : m >= row.from}
Unfinished(row) == row.status \in {"queued", "running"}

-----------------------------------------------------------------------------
(* The merchant                                                            *)

(* A cost saved with a date in the past moves the timeline from there on.  *)
EditCost(f) ==
    /\ Spend("edit")
    /\ basis' = [m \in Months |-> IF m >= f THEN basis[m] + 1 ELSE basis[m]]
    /\ UNCHANGED <<line, ledger, snap, log, job, asking, work, rc, closing,
                   moved, owed, crossed>>

(* A request for a restatement: enqueueRestatement and the enqueueRecalcJob*)
(* it calls, so that a burst of edits becomes one job.  The dedupe key is  *)
(* unique: KeyHolder is the row that has it, or none.                      *)
KeyHolder == IF \E c \in Calls : job[c].keyed
             THEN {c \in Calls : job[c].keyed} ELSE {0}
RowOf(c) == IF c = 0 THEN NoJob ELSE job[c]

(* First lookup, to widen the request over the queued job.                 *)
WidenAsk(c, ask) ==
    /\ Spend("ask")
    /\ c = spent["ask"] + 1
    /\ asking[c].pc = "idle"
    /\ \E e \in KeyHolder :
         asking' = [asking EXCEPT ![c] = [pc |-> "find", ask |-> ask,
                                          seen |-> RowOf(e), existing |-> 0]]
    /\ UNCHANGED <<books, snap, log, job, work, rc, closing, moved, owed,
                   crossed>>

(* Second lookup, and the branch on what holds the key now.                *)
FindHolder(c) ==
    /\ asking[c].pc = "find"
    /\ \E e \in KeyHolder :
         asking' = [asking EXCEPT ![c] =
                      [@ EXCEPT !.existing = e,
                                !.pc = IF e = 0 THEN "create"
                                       ELSE IF job[e].status = "queued"
                                       THEN "fold" ELSE "release"]]
    /\ UNCHANGED <<books, snap, log, job, work, rc, closing, moved, owed,
                   crossed, budget, spent>>

(* Mutant of WidenedFrom: the newest request's window replaces the queued. *)
NewestFrom(c) == asking[c].ask.from

(* The payload: the earlier of both windows, but includeClosedPeriods from *)
(* the newest request.                                                     *)
WidenedFrom(c) == IF asking[c].seen.status = "queued"
                  THEN Earlier(asking[c].seen.from, asking[c].ask.from)
                  ELSE asking[c].ask.from
Accept(c) ==
    /\ asking' = [asking EXCEPT ![c] = [IdleCall EXCEPT !.pc = "accepted"]]
    /\ owed' = [m \in Months |-> IF m >= asking[c].ask.from THEN basis[m]
                                                           ELSE owed[m]]

(* The row that was QUEUED when it was found is updated by id, whatever it *)
(* has become.  `crossed` notes that it is not what the first lookup read: *)
(* it was leased or finished, or another request has written or made it.   *)
AsRead(now, read) == /\ now.status = read.status
                     /\ now.from = read.from /\ now.inc = read.inc
FoldAsk(c) ==
    /\ asking[c].pc = "fold"
    /\ LET e == asking[c].existing
       IN  /\ job' = [job EXCEPT ![e] = [@ EXCEPT !.from = WidenedFrom(c),
                                                  !.inc = asking[c].ask.inc]]
           /\ crossed' = (crossed \/ ~AsRead(job[e], asking[c].seen)
                                  \/ job[e].status # "queued")
    /\ Accept(c)
    /\ UNCHANGED <<books, snap, log, work, rc, closing, moved, budget, spent>>

(* A job that has read its inputs, or whose process died, loses the key.   *)
ReleaseHolder(c) ==
    /\ asking[c].pc = "release"
    /\ job' = [job EXCEPT ![asking[c].existing].keyed = FALSE]
    /\ asking' = [asking EXCEPT ![c].pc = "create"]
    /\ UNCHANGED <<books, snap, log, work, rc, closing, moved, owed, crossed,
                   budget, spent>>

NewJob(c, keyed) == [status |-> "queued", from |-> WidenedFrom(c),
                     inc |-> asking[c].ask.inc, attempts |-> 0,
                     keyed |-> keyed]

(* Insert; another request may have taken the key (P2002).                 *)
CreateJob(c) ==
    /\ asking[c].pc = "create"
    /\ IF KeyHolder = {0}
       THEN job' = [job EXCEPT ![c] = NewJob(c, TRUE)] /\ Accept(c)
       ELSE /\ asking' = [asking EXCEPT ![c].pc = "create_unkeyed"]
            /\ UNCHANGED <<job, owed>>
    /\ UNCHANGED <<books, snap, log, work, rc, closing, moved, crossed,
                   budget, spent>>

CreateKeyless(c) ==
    /\ asking[c].pc = "create_unkeyed"
    /\ job' = [job EXCEPT ![c] = NewJob(c, FALSE)]
    /\ Accept(c)
    /\ UNCHANGED <<books, snap, log, work, rc, closing, moved, crossed,
                   budget, spent>>

RequestRestatement(c) ==
    \/ \E ask \in Ask : WidenAsk(c, ask)
    \/ FindHolder(c) \/ FoldAsk(c) \/ ReleaseHolder(c)
    \/ CreateJob(c) \/ CreateKeyless(c)

(* createMany with skipDuplicates: only ever creates.                      *)
Frozen(months, figures) ==
    [m \in Months |-> IF m \in months /\ ~snap[m].kept
                      THEN [snap[m] EXCEPT !.kept = TRUE, !.cogs = figures[m]]
                      ELSE snap[m]]

(* closePeriod: read the figures, freeze them, lock the snapshot.  A month *)
(* without orders has no figures; its snapshot is created locked.          *)
CloseRead(m) ==
    /\ Spend("close")
    /\ closing.pc = "idle"
    /\ closing' = [pc |-> "freeze", month |-> m, value |-> ledger[m]]
    /\ UNCHANGED <<books, snap, log, job, asking, work, rc, moved, owed,
                   crossed>>

CloseFreeze ==
    /\ closing.pc = "freeze"
    /\ snap' = Frozen({closing.month} \cap Trading,
                      [Zero EXCEPT ![closing.month] = closing.value])
    /\ closing' = [closing EXCEPT !.pc = "lock"]
    /\ UNCHANGED <<books, log, job, asking, work, rc, moved, owed, crossed,
                   budget, spent>>

CloseLock ==
    /\ closing.pc = "lock"
    /\ snap' = [snap EXCEPT ![closing.month].kept = TRUE,
                            ![closing.month].closed = TRUE]
    /\ closing' = NoClosing
    /\ UNCHANGED <<books, log, job, asking, work, rc, moved, owed, crossed,
                   budget, spent>>

ReopenPeriod(m) ==
    /\ Spend("reopen")
    /\ snap[m].kept
    /\ snap' = [snap EXCEPT ![m].closed = FALSE]
    /\ UNCHANGED <<books, log, job, asking, work, rc, closing, moved, owed,
                   crossed>>

-----------------------------------------------------------------------------
(* restateCosts                                                            *)

Goto(pc) == work' = [work EXCEPT !.pc = pc]
At(pc) == work.pc = pc

(* leaseNextRecalcJob: the candidate is read, then leased by compare-and-  *)
(* set on its status.  What runs is the candidate as it was read.  The one *)
(* worker being idle, a RUNNING row is that of a process that died.        *)
SelectJob(c) ==
    /\ At("idle")
    /\ Unfinished(job[c])
    /\ work' = [IdleWork EXCEPT !.pc = "lease", !.id = c, !.job = job[c]]
    /\ UNCHANGED <<books, snap, log, job, asking, rc, closing, moved, owed,
                   crossed, budget, spent>>

(* Mutant of LeasedJob: the attempt is not counted.                        *)
LeasedJobUncounted(row) == [row EXCEPT !.status = "running"]

LeasedJob(row) == [row EXCEPT !.status = "running", !.attempts = @ + 1]
LeaseJob ==
    /\ At("lease")
    /\ job' = [job EXCEPT ![work.id] = LeasedJob(@)]
    /\ work' = [work EXCEPT !.pc = "check", !.job = LeasedJob(@)]
    /\ crossed' = (crossed \/ ~AsRead(job[work.id], work.job))
    /\ UNCHANGED <<books, snap, log, asking, rc, closing, moved, owed, budget,
                   spent>>

(* The job is finished and its key given up.                               *)
Settle(status) ==
    /\ job' = [job EXCEPT ![work.id] = [@ EXCEPT !.status = status,
                                                 !.keyed = FALSE]]
    /\ work' = IdleWork

(* The handler threw: back to the queue, or given up at the ceiling.       *)
Refuse == IF work.job.attempts >= MaxRuns
          THEN Settle("failed")
          ELSE /\ job' = [job EXCEPT ![work.id].status = "queued"]
               /\ work' = IdleWork

(* Refuse before writing anything if the window reaches a closed month.    *)
CheckClosed ==
    /\ At("check")
    /\ IF ~work.job.inc /\ \E m \in Window(work.job) : snap[m].closed
       THEN Refuse
       ELSE Goto("report") /\ UNCHANGED job
    /\ UNCHANGED <<books, snap, log, asking, rc, closing, moved, owed,
                   crossed, budget, spent>>

ReadReported ==
    /\ At("report")
    /\ work' = [work EXCEPT !.pc = "freeze", !.reported = ledger]
    /\ UNCHANGED <<books, snap, log, job, asking, rc, closing, moved, owed,
                   crossed, budget, spent>>

(* Mutant of Freeze: the rewrite starts without it.                        *)
FreezeSkipped ==
    /\ At("freeze")
    /\ Goto("count")
    /\ UNCHANGED <<books, snap, log, job, asking, rc, closing, moved, owed,
                   crossed, budget, spent>>

(* What was reported is frozen before anything moves.                      *)
Freeze ==
    /\ At("freeze")
    /\ snap' = Frozen(Window(work.job) \cap Trading, work.reported)
    /\ Goto("count")
    /\ UNCHANGED <<books, log, job, asking, rc, closing, moved, owed, crossed,
                   budget, spent>>

(* The months whose line items differ from the timeline.                   *)
Candidates == {m \in Window(work.job) \cap Trading : line[m] # basis[m]}

CountPending ==
    /\ At("count")
    /\ IF Candidates = {} THEN Settle("complete")
                         ELSE Goto("baseline") /\ UNCHANGED job
    /\ UNCHANGED <<books, snap, log, asking, rc, closing, moved, owed,
                   crossed, budget, spent>>

ReadBefore ==
    /\ At("before")
    /\ work' = [work EXCEPT !.pc = "rewrite", !.before = ledger]
    /\ UNCHANGED <<books, snap, log, job, asking, rc, closing, moved, owed,
                   crossed, budget, spent>>

(* rewriteLineItemCosts, one UPDATE statement.                             *)
Rewrite ==
    /\ At("rewrite")
    /\ line' = [m \in Months |-> IF m \in Candidates THEN basis[m]
                                                    ELSE line[m]]
    /\ moved' = [m \in Months |-> IF m \in Candidates THEN moved[m] + 1
                                                      ELSE moved[m]]
    /\ IF Candidates = {} THEN Settle("complete")
       ELSE /\ work' = [work EXCEPT !.pc = "materialise",
                                   !.affected = Candidates]
            /\ UNCHANGED job
    /\ UNCHANGED <<basis, ledger, snap, log, asking, rc, closing, owed,
                   crossed, budget, spent>>

ReadAfter ==
    /\ At("after")
    /\ work' = [work EXCEPT !.pc = "record", !.after = ledger]
    /\ UNCHANGED <<books, snap, log, job, asking, rc, closing, moved, owed,
                   crossed, budget, spent>>

(* One PeriodRestatement per affected month, then the snapshot's count.    *)
RecordMove(m) ==
    /\ At("record")
    /\ m \in work.affected
    /\ IF snap[m].kept
       THEN /\ log' = [log EXCEPT ![m] = Append(@, [before |-> work.before[m],
                                                    after |-> work.after[m]])]
            /\ work' = [work EXCEPT !.pc = "tally", !.month = m]
       ELSE /\ work' = [work EXCEPT !.affected = @ \ {m}]
            /\ UNCHANGED log
    /\ UNCHANGED <<books, snap, job, asking, rc, closing, moved, owed,
                   crossed, budget, spent>>

TallyMove ==
    /\ At("tally")
    /\ snap' = [snap EXCEPT ![work.month].count = @ + 1]
    /\ work' = [work EXCEPT !.pc = "record", !.affected = @ \ {work.month}]
    /\ UNCHANGED <<books, log, job, asking, rc, closing, moved, owed, crossed,
                   budget, spent>>

(* The handler returns and the job completes.                              *)
Return ==
    /\ At("record")
    /\ work.affected = {}
    /\ Settle("complete")
    /\ UNCHANGED <<books, snap, log, asking, rc, closing, moved, owed,
                   crossed, budget, spent>>

-----------------------------------------------------------------------------
(* recomputeShopProfitability                                              *)

StartRun == rc' = [pc |-> "load", month |-> 1, value |-> 0]

(* Mutant of AwaitRecompute: the run is started and not awaited.           *)
DetachRecompute(pc, wait) ==
    /\ At(pc)
    /\ Goto(IF pc = "baseline" THEN "before" ELSE "after")
    /\ IF rc.pc = "idle" THEN StartRun ELSE UNCHANGED rc
    /\ UNCHANGED <<books, snap, log, job, asking, closing, moved, owed,
                   crossed, budget, spent>>

(* Single flight: a call while a run is in flight waits for that run.      *)
AwaitRecompute(pc, wait) ==
    /\ At(pc)
    /\ Goto(wait)
    /\ IF rc.pc = "idle" THEN StartRun ELSE UNCHANGED rc
    /\ UNCHANGED <<books, snap, log, job, asking, closing, moved, owed,
                   crossed, budget, spent>>

(* Another caller: settings, shipping costs, the ads queue, a backfill.    *)
OtherRecompute ==
    /\ Spend("recompute")
    /\ rc.pc = "idle"
    /\ StartRun
    /\ UNCHANGED <<books, snap, log, job, asking, work, closing, moved, owed,
                   crossed>>

(* Month by month: load the line items, then write the order figures.      *)
LoadMonth ==
    /\ rc.pc = "load"
    /\ rc' = [rc EXCEPT !.pc = "write", !.value = line[rc.month]]
    /\ UNCHANGED <<books, snap, log, job, asking, work, closing, moved, owed,
                   crossed, budget, spent>>

Woken == [work EXCEPT !.pc = CASE work.pc = "baseline_wait"    -> "before"
                               [] work.pc = "materialise_wait" -> "after"
                               [] OTHER                        -> work.pc]

(* The last month's write settles the promise every waiter shares.         *)
WriteMonth ==
    /\ rc.pc = "write"
    /\ ledger' = [ledger EXCEPT ![rc.month] = rc.value]
    /\ IF rc.month < LastMonth
       THEN /\ rc' = [pc |-> "load", month |-> rc.month + 1, value |-> 0]
            /\ UNCHANGED work
       ELSE rc' = IdleRun /\ work' = Woken
    /\ UNCHANGED <<basis, line, snap, log, job, asking, closing, moved, owed,
                   crossed, budget, spent>>

-----------------------------------------------------------------------------
(* Outside causes                                                          *)

(* syncOrderFromShopify: an order that Shopify sends again has its line    *)
(* items deleted and created with the cost the timeline has now.           *)
ResyncOrder(m) ==
    /\ Spend("resync")
    /\ m \in Trading
    /\ line' = [line EXCEPT ![m] = basis[m]]
    /\ UNCHANGED <<basis, ledger, snap, log, job, asking, work, rc, closing,
                   moved, owed, crossed>>

(* The process dies; the job is still RUNNING, and leased again when its   *)
(* lease runs out.  A call that dies with it just takes no further step.   *)
ProcessDies ==
    /\ Spend("crash")
    /\ ~At("idle")
    /\ work' = IdleWork
    /\ rc' = IdleRun
    /\ UNCHANGED <<books, snap, log, job, asking, closing, moved, owed,
                   crossed>>

-----------------------------------------------------------------------------
Recompute == LoadMonth \/ WriteMonth
RunJob == \/ \E c \in Calls : SelectJob(c)
          \/ LeaseJob \/ CheckClosed \/ ReadReported \/ Freeze \/ CountPending
          \/ AwaitRecompute("baseline", "baseline_wait")
          \/ ReadBefore \/ Rewrite
          \/ AwaitRecompute("materialise", "materialise_wait")
          \/ ReadAfter \/ TallyMove \/ Return
          \/ \E m \in Months : RecordMove(m)
Merchant == \/ \E m \in Months : \/ EditCost(m) \/ CloseRead(m)
                                 \/ ReopenPeriod(m)
            \/ \E c \in Calls : RequestRestatement(c)
            \/ CloseFreeze \/ CloseLock

RestateNext == \/ Merchant \/ RunJob \/ Recompute
               \/ OtherRecompute \/ ProcessDies
               \/ \E m \in Months : ResyncOrder(m)

RestateSpec == RestateInit /\ [][RestateNext]_restateVars
RestateFairSpec ==
    RestateSpec /\ WF_restateVars(RunJob) /\ WF_restateVars(Recompute)

-----------------------------------------------------------------------------
(* Properties that hold                                                    *)

Rest == At("idle") /\ \A c \in Calls : ~Unfinished(job[c])

(* "Any affected month with no PeriodSnapshot gets one" before it moves,   *)
(* also when the run crashes and is retried.                               *)
MovedMonthsAreFrozen ==
    \A m \in Months : moved[m] > 0 => snap[m].kept

(* Every accepted request reaches the line items it asked for, across      *)
(* bursts, crashes and retries, unless its job was given up or a payload   *)
(* was written or leased over one that had changed since it was read: when *)
(* nothing is outstanding, each month is at least on the basis it had when *)
(* its restatement was accepted (enqueueRestatement, enqueueRecalcJob).    *)
AllAskedApplied == \A m \in Trading : line[m] >= owed[m]
AskedIsApplied ==
    Rest /\ ~crossed /\ (\A c \in Calls : job[c].status # "failed") =>
        AllAskedApplied

(* With no crash, no order sent again and no recompute from elsewhere, the *)
(* audit trail is exact: as many records as moves, counted on the          *)
(* snapshot, starting from what was reported, each from where the last one *)
(* ended, up to what the ledger and the line items say now.                *)
Chained(m) ==
    /\ log[m][1].before = snap[m].cogs
    /\ \A i \in 2..Len(log[m]) : log[m][i].before = log[m][i - 1].after
    /\ log[m][Len(log[m])].after = line[m]
    /\ ledger[m] = line[m]
UndisturbedTrailIsExact ==
    Rest /\ (\A k \in {"crash", "resync", "recompute"} : spent[k] = 0) =>
        \A m \in Months : /\ Len(log[m]) = moved[m]
                          /\ snap[m].count = moved[m]
                          /\ log[m] # <<>> => Chained(m)

(* Every burst of requests comes to rest: a run that joins a recompute in  *)
(* flight is woken by it, a refused job is given up at the ceiling.        *)
RestatementsSettle == (\E c \in Calls : Unfinished(job[c])) ~> Rest

-----------------------------------------------------------------------------
(* What the documentation states and the code does not keep: no run states *)
(* it; the README says how to see it fail.                                 *)

(* "Every month that moved gets an append-only PeriodRestatement"          *)
(* (restatement.server.ts:34).                                             *)
EveryMoveIsRecorded ==
    Rest => \A m \in Months : Len(log[m]) >= moved[m]

(* "Silently folding it into a run that will never see it is how a         *)
(* merchant ends up staring at a correction that appears to have been      *)
(* applied and was not" (recalc-queue.server.ts:53-55): no accepted        *)
(* request is lost unless its job was given up.                            *)
NoRequestIsLost ==
    Rest /\ (\A c \in Calls : job[c].status # "failed") => AllAskedApplied
=============================================================================
