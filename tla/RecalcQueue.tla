---------------------------- MODULE RecalcQueue ----------------------------
(***************************************************************************)
(* The durable recalculation queue: app/lib/recalc-queue.server.ts, with   *)
(* the read-and-widen step its main caller performs first                  *)
(* (enqueueRestatement in app/lib/restatement.server.ts).                  *)
(*                                                                         *)
(* Request handlers enqueue work, one per request r.  Each server process  *)
(* runs one sweep at a time (startDrain is single-flight), so a process is *)
(* one worker.  Every awaited database call is a step of its own: the      *)
(* other processes run between any two of them.                            *)
(*                                                                         *)
(* Abstractions.                                                           *)
(*  - A payload is the set of requests whose correction it carries.        *)
(*  - A row created by the call for request r is named r.                  *)
(*  - Time: `due` says availableAt <= now, `live` says leaseExpiresAt is   *)
(*    in the future.  Timers fire as actions.                              *)
(*  - The random lease token of a row's n-th lease is n; 0 is null.        *)
(*  - findFirst's ordering is abstracted to "any claimable row".           *)
(***************************************************************************)
EXTENDS Naturals, FiniteSets

CONSTANTS
    Requests,      \* calls of the enqueue functions, one each
    Keys,          \* dedupe keys ("restate:<shop>", ...)
    NoKey,         \* dedupeKey = null
    KeyOf,         \* the key each request passes
    Workers,       \* server processes, each with one sweep
    NoRow,         \* a lookup that found nothing
    MaxAttempts,   \* RECALC_MAX_ATTEMPTS
    MaxFaults      \* bound: crashes, lost leases and failed writes

ASSUME KeysAssumption ==
    /\ NoKey \notin Keys
    /\ KeyOf \in [Requests -> Keys \cup {NoKey}]
ASSUME RowAssumption == NoRow \notin Requests
ASSUME BoundsAssumption == MaxAttempts \in Nat \ {0} /\ MaxFaults \in Nat

VARIABLES
    row,       \* the RecalcJob table, by row id
    client,    \* the enqueue calls: program counter and local variables
    worker,    \* the sweeps: program counter and local variables
    served,    \* history: requests a handler run has applied
    faults     \* faults spent so far (bound)

vars == <<row, client, worker, served, faults>>

Outstanding == {"QUEUED", "RUNNING"}
Settled     == {"COMPLETE", "FAILED"}
Status      == Outstanding \cup Settled \cup {"ABSENT", "DELETED"}

(* One row of the table.  `by` is a history field: the lease that wrote    *)
(* the row's result, 0 while there is none.                                *)
Row == [status   : Status,
        payload  : SUBSET Requests,
        key      : Keys \cup {NoKey},
        attempts : Nat,
        token    : Nat,
        live     : BOOLEAN,
        due      : BOOLEAN,
        by       : Nat]

ClientPC == {"idle", "find", "fold", "release", "create", "create_unkeyed",
             "accepted"}
Client == [pc : ClientPC, payload : SUBSET Requests,
           existing : Requests \cup {NoRow}]

WorkerPC == {"idle", "lease", "run", "complete", "fail"}
Worker == [pc : WorkerPC, job : Requests \cup {NoRow},
           payload : SUBSET Requests, attempt : Nat, token : Nat]

TypeOK == /\ row    \in [Requests -> Row]
          /\ client \in [Requests -> Client]
          /\ worker \in [Workers -> Worker]
          /\ served \in SUBSET Requests
          /\ faults \in Nat

AbsentRow == [status |-> "ABSENT", payload |-> {}, key |-> NoKey,
              attempts |-> 0, token |-> 0, live |-> FALSE, due |-> FALSE,
              by |-> 0]
IdleWorker == [pc |-> "idle", job |-> NoRow, payload |-> {}, attempt |-> 0,
               token |-> 0]

Init == /\ row = [j \in Requests |-> AbsentRow]
        /\ client = [r \in Requests |->
                       [pc |-> "idle", payload |-> {}, existing |-> NoRow]]
        /\ worker = [w \in Workers |-> IdleWorker]
        /\ served = {}
        /\ faults = 0

-----------------------------------------------------------------------------
(* Enqueueing                                                              *)

(* The row holding a dedupe key; the column is unique.                     *)
Holders(k) == {j \in Requests : k # NoKey /\ row[j].key = k}

(* enqueueRestatement: look at the queued job and widen the request over   *)
(* it, so that a burst of edits becomes one restatement.                   *)
Widen(r) ==
    /\ client[r].pc = "idle"
    /\ LET queued == {j \in Holders(KeyOf[r]) : row[j].status = "QUEUED"}
       IN  client' = [client EXCEPT ![r] =
                        [@ EXCEPT !.pc = "find",
                                  !.payload = {r} \cup UNION {row[j].payload : j \in queued}]]
    /\ UNCHANGED <<row, worker, served, faults>>

(* enqueueRecalcJob: findUnique by dedupe key, and the branch on it.       *)
FindExisting(r) ==
    /\ client[r].pc = "find"
    /\ \/ /\ Holders(KeyOf[r]) = {}
          /\ client' = [client EXCEPT ![r].pc = "create"]
       \/ \E j \in Holders(KeyOf[r]) :
            client' = [client EXCEPT ![r] =
                         [@ EXCEPT !.existing = j,
                                   !.pc = IF row[j].status = "QUEUED"
                                          THEN "fold" ELSE "release"]]
    /\ UNCHANGED <<row, worker, served, faults>>

FoldedRow(r, j) == [row[j] EXCEPT !.payload = client[r].payload, !.due = TRUE]

(* Coalesce: update the row that was QUEUED when it was read, by id.       *)
(* The earlier availableAt is kept, so the row is due from now at latest.  *)
Fold(r) ==
    /\ client[r].pc = "fold"
    /\ LET j == client[r].existing
       IN  row' = [row EXCEPT ![j] = FoldedRow(r, j)]
    /\ client' = [client EXCEPT ![r].pc = "accepted"]
    /\ UNCHANGED <<worker, served, faults>>

(* Take the key from a row that was not QUEUED when it was read.           *)
ReleaseKey(r) ==
    /\ client[r].pc = "release"
    /\ LET j == client[r].existing
       IN  row' = IF row[j].key = KeyOf[r]
                  THEN [row EXCEPT ![j].key = NoKey]
                  ELSE row
    /\ client' = [client EXCEPT ![r].pc = "create"]
    /\ UNCHANGED <<worker, served, faults>>

NewRow(payload, key) == [AbsentRow EXCEPT !.status = "QUEUED", !.due = TRUE,
                                          !.payload = payload, !.key = key]

(* Insert with the key; the unique index refuses a second holder (P2002).  *)
Create(r) ==
    /\ client[r].pc = "create"
    /\ \/ /\ Holders(KeyOf[r]) = {}
          /\ row' = [row EXCEPT ![r] = NewRow(client[r].payload, KeyOf[r])]
          /\ client' = [client EXCEPT ![r].pc = "accepted"]
       \/ /\ Holders(KeyOf[r]) # {}
          /\ client' = [client EXCEPT ![r].pc = "create_unkeyed"]
          /\ UNCHANGED row
    /\ UNCHANGED <<worker, served, faults>>

(* Lost the key to another request: insert without it.                     *)
CreateUnkeyed(r) ==
    /\ client[r].pc = "create_unkeyed"
    /\ row' = [row EXCEPT ![r] = NewRow(client[r].payload, NoKey)]
    /\ client' = [client EXCEPT ![r].pc = "accepted"]
    /\ UNCHANGED <<worker, served, faults>>

Enqueue(r) == \/ Widen(r) \/ FindExisting(r) \/ Fold(r) \/ ReleaseKey(r)
              \/ Create(r) \/ CreateUnkeyed(r)

-----------------------------------------------------------------------------
(* Leasing and running                                                     *)

(* Mutants of Claimable: lease ignored; status ignored; RUNNING left out.  *)
ClaimableUnexpired(j) == row[j].status \in Outstanding /\ row[j].due
ClaimableSettled(j) == row[j].due /\ ~row[j].live
ClaimableQueued(j) == row[j].status = "QUEUED" /\ row[j].due /\ ~row[j].live

(* The where-clause shared by the candidate query and the compare-and-set. *)
Claimable(j) == /\ row[j].status \in Outstanding
                /\ row[j].due
                /\ ~row[j].live

(* leaseNextRecalcJob, first call: read a candidate row.                   *)
SelectCandidate(w, j) ==
    /\ worker[w].pc = "idle"
    /\ Claimable(j)
    /\ worker' = [worker EXCEPT ![w] =
                    [pc |-> "lease", job |-> j, payload |-> row[j].payload,
                     attempt |-> row[j].attempts + 1, token |-> 0]]
    /\ UNCHANGED <<row, client, served, faults>>

LeasedRow(j) == [row[j] EXCEPT !.status = "RUNNING", !.attempts = @ + 1,
                               !.token = row[j].attempts + 1, !.live = TRUE]

(* leaseNextRecalcJob, second call: the compare-and-set.  The job returned *)
(* is the candidate that was read, payload and attempt number included.  A *)
(* lost race goes round the loop.  The clock reading of the whole call     *)
(* hides most rows that moved on since the read, but not all (a fold makes *)
(* a requeued row due at an earlier time): the model lets any match.       *)
TryLease(w, j) ==
    /\ worker[w].pc = "lease"
    /\ worker[w].job = j
    /\ \/ /\ Claimable(j)
          /\ row' = [row EXCEPT ![j] = LeasedRow(j)]
          /\ worker' = [worker EXCEPT ![w] =
                          [@ EXCEPT !.pc = "run", !.token = row[j].attempts + 1]]
       \/ /\ ~Claimable(j)
          /\ worker' = [worker EXCEPT ![w] = IdleWorker]
          /\ UNCHANGED row
    /\ UNCHANGED <<client, served, faults>>

(* The handler returns, having applied the payload it was given, or throws.*)
HandlerReturns(w) ==
    /\ worker[w].pc = "run"
    /\ served' = served \cup worker[w].payload
    /\ worker' = [worker EXCEPT ![w].pc = "complete"]
    /\ UNCHANGED <<row, client, faults>>

HandlerThrows(w) ==
    /\ worker[w].pc = "run"
    /\ worker' = [worker EXCEPT ![w].pc = "fail"]
    /\ UNCHANGED <<row, client, served, faults>>

(* Mutant of Fenced: the token is left out of the where-clause.            *)
FencedById(w) == {j \in Requests : j = worker[w].job}

(* The rows that `where: { id, leaseToken }` matches for worker w.         *)
Fenced(w) == {j \in Requests : j = worker[w].job /\ row[j].token = worker[w].token}

(* Mutant of CompletedRow: the dedupe key is kept.                         *)
CompletedRowKeyed(w, j) == [row[j] EXCEPT !.status = "COMPLETE", !.token = 0,
                                          !.live = FALSE, !.by = worker[w].token]

(* completeRecalcJob.                                                      *)
CompletedRow(w, j) == [row[j] EXCEPT !.status = "COMPLETE", !.key = NoKey,
                                     !.token = 0, !.live = FALSE,
                                     !.by = worker[w].token]
Complete(w) ==
    /\ worker[w].pc = "complete"
    /\ row' = [j \in Requests |-> IF j \in Fenced(w) THEN CompletedRow(w, j)
                                                     ELSE row[j]]
    /\ worker' = [worker EXCEPT ![w] = IdleWorker]
    /\ UNCHANGED <<client, served, faults>>

(* failRecalcJob: retry after a backoff, until the attempt ceiling.        *)
FailedRow(w, j) ==
    IF worker[w].attempt >= MaxAttempts
    THEN [row[j] EXCEPT !.status = "FAILED", !.key = NoKey, !.token = 0,
                        !.live = FALSE, !.by = worker[w].token]
    ELSE [row[j] EXCEPT !.status = "QUEUED", !.due = FALSE, !.token = 0,
                        !.live = FALSE]
Fail(w) ==
    /\ worker[w].pc = "fail"
    /\ row' = [j \in Requests |-> IF j \in Fenced(w) THEN FailedRow(w, j)
                                                     ELSE row[j]]
    /\ worker' = [worker EXCEPT ![w] = IdleWorker]
    /\ UNCHANGED <<client, served, faults>>

(* The heartbeat runs until the finally block: a lease that lapsed and was *)
(* not taken is extended again.                                            *)
Heartbeat(w) ==
    /\ worker[w].pc \in {"run", "complete", "fail"}
    /\ \E j \in Fenced(w) : /\ ~row[j].live
                            /\ row' = [row EXCEPT ![j].live = TRUE]
    /\ UNCHANGED <<client, worker, served, faults>>

Work(w) == \/ \E j \in Requests : SelectCandidate(w, j) \/ TryLease(w, j)
           \/ HandlerReturns(w) \/ HandlerThrows(w)
           \/ Complete(w) \/ Fail(w)

-----------------------------------------------------------------------------
(* Time                                                                    *)

Owned(j) == \E w \in Workers : /\ worker[w].pc \in {"run", "complete", "fail"}
                               /\ j \in Fenced(w)

(* Nobody extends the lease of a dead process: it runs out.                *)
LeaseExpires(j) ==
    /\ row[j].live
    /\ ~Owned(j)
    /\ row' = [row EXCEPT ![j].live = FALSE]
    /\ UNCHANGED <<client, worker, served, faults>>

BackoffElapses(j) ==
    /\ row[j].status = "QUEUED"
    /\ ~row[j].due
    /\ row' = [row EXCEPT ![j].due = TRUE]
    /\ UNCHANGED <<client, worker, served, faults>>

(* purgeFinishedRecalcJobs: thirty days outlast every call that read the   *)
(* row, so no client or worker still refers to it.                         *)
Purge(j) ==
    /\ row[j].status \in Settled
    /\ \A w \in Workers : worker[w].job # j
    /\ \A r \in Requests : client[r].existing = j => client[r].pc = "accepted"
    /\ row' = [row EXCEPT ![j] = [AbsentRow EXCEPT !.status = "DELETED"]]
    /\ UNCHANGED <<client, worker, served, faults>>

-----------------------------------------------------------------------------
(* Faults, bounded by MaxFaults                                            *)

Fault == faults < MaxFaults /\ faults' = faults + 1

(* A deploy or a crash kills the process; its lease stays in the table.    *)
Crash(w) ==
    /\ Fault
    /\ worker[w].pc # "idle"
    /\ worker' = [worker EXCEPT ![w] = IdleWorker]
    /\ UNCHANGED <<row, client, served>>

(* The heartbeats of a living owner fail for a whole lease.                *)
LeaseLapses(j) ==
    /\ Fault
    /\ row[j].live
    /\ Owned(j)
    /\ row' = [row EXCEPT ![j].live = FALSE]
    /\ UNCHANGED <<client, worker, served>>

(* The write of the outcome throws.  A completion that cannot be recorded  *)
(* is caught and recorded as a failure; a failure that cannot be recorded  *)
(* is logged and left to the lease.                                        *)
CompleteThrows(w) ==
    /\ Fault
    /\ worker[w].pc = "complete"
    /\ worker' = [worker EXCEPT ![w].pc = "fail"]
    /\ UNCHANGED <<row, client, served>>

FailThrows(w) ==
    /\ Fault
    /\ worker[w].pc = "fail"
    /\ worker' = [worker EXCEPT ![w] = IdleWorker]
    /\ UNCHANGED <<row, client, served>>

-----------------------------------------------------------------------------
Next == \/ \E r \in Requests : Enqueue(r)
        \/ \E w \in Workers : \/ Work(w) \/ Heartbeat(w) \/ Crash(w)
                              \/ CompleteThrows(w) \/ FailThrows(w)
        \/ \E j \in Requests : \/ LeaseExpires(j) \/ BackoffElapses(j)
                               \/ Purge(j) \/ LeaseLapses(j)

Spec == Init /\ [][Next]_vars

(* The sweep is polled for ever by every process, a promise of a handler   *)
(* settles, clocks advance.  Nothing is assumed of callers, of the purge   *)
(* or of faults.                                                           *)
Fairness == /\ \A w \in Workers : WF_vars(Work(w))
            /\ \A j \in Requests : /\ WF_vars(LeaseExpires(j))
                                   /\ WF_vars(BackoffElapses(j))

FairSpec == Spec /\ Fairness
-----------------------------------------------------------------------------
(* Properties that hold                                                    *)

(* The row's published outcome is that of its latest lease: a worker whose *)
(* lease was taken over never overwrites the outcome of the one that took  *)
(* it (the leaseToken in the where-clauses of complete and fail).          *)
OutcomeIsOfLatestLease ==
    \A j \in Requests :
        row[j].status \in Settled => row[j].by = row[j].attempts

(* A dedupe key is held only by work that is still to be done; a finished  *)
(* row keeping it would be "a permanent ban on ever restating those months *)
(* a second time" (completeRecalcJob).                                     *)
KeyHeldByOutstandingWork ==
    \A j \in Requests : row[j].key # NoKey => row[j].status \in Outstanding

(* While leases are kept (no crash, no lapse), two processes never run one *)
(* job at once: the lease and its compare-and-set are enough, "two workers *)
(* can select the same candidate" notwithstanding (leaseNextRecalcJob).    *)
HealthyJobRunsAlone ==
    faults = 0 =>
        \A v, w \in Workers :
            /\ worker[v].pc \in {"run", "complete", "fail"}
            /\ worker[w].pc \in {"run", "complete", "fail"}
            /\ worker[v].job = worker[w].job
            => v = w

(* A job is given up only after the full number of attempts, each of them  *)
(* a lease of its own (failRecalcJob).                                     *)
GivenUpOnlyAtCeiling ==
    \A j \in Requests :
        row[j].status = "FAILED" => row[j].attempts >= MaxAttempts

(* Every job that is queued settles: a job left RUNNING by a killed        *)
(* process is picked up by lease expiry (startRecalcWorker).               *)
EveryJobSettles ==
    \A j \in Requests :
        row[j].status \in Outstanding
            ~> row[j].status \in Settled \cup {"DELETED"}

(* The queue implements the durable-work pattern: a job is closed once, by *)
(* the lease that took it last, and a closed job is never run again.       *)
PhaseOf(status) == CASE status = "ABSENT"         -> "absent"
                     [] status \in Outstanding    -> "open"
                     [] status \in Settled        -> "closed"
                     [] status = "DELETED"        -> "gone"
LeaseItem == [j \in Requests |-> [phase  |-> PhaseOf(row[j].status),
                                  holder |-> row[j].attempts,
                                  closer |-> row[j].by]]
Lease == INSTANCE FencedLease WITH
    Items <- Requests, Takers <- Nat \ {0}, NoOne <- 0, item <- LeaseItem
ImplementsFencedLease == Lease!LSpec

-----------------------------------------------------------------------------
(* What the documentation states and the code does not keep: no run states *)
(* it; the README says how to see it fail.                                 *)

(* Folding a request "into a run that will never see it is how a merchant  *)
(* ends up staring at a correction that appears to have been applied and   *)
(* was not" (recalc-queue.server.ts:52-54): when nothing failed and all    *)
(* that was queued is complete, every accepted request has been applied.   *)
AcceptedIsApplied ==
    faults = 0 /\ (\A j \in Requests : row[j].status \in {"ABSENT", "COMPLETE"}) =>
        \A r \in Requests : client[r].pc = "accepted" => r \in served
=============================================================================
