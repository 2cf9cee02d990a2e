------------------------- MODULE RecalculationProofs ------------------------
(***************************************************************************)
(* Machine-checked theorems about the durable recalculation queue and the  *)
(* restatement of history it runs.                                         *)
(*                                                                         *)
(* Part 1, RecalcQueue: the type invariant, the inductive invariant of the *)
(* lease behind the safety properties, that every step is one of           *)
(* FencedLease, and that while no lease is lost a job runs alone.          *)
(*                                                                         *)
(* Part 2, Restatement, for every calendar of trading months, every        *)
(* ceiling on attempts and every budget of causes.                         *)
(***************************************************************************)
EXTENDS RecalcQueue, Restatement, TLAPS

-----------------------------------------------------------------------------
(***************************************************************************)
(* Part 1: the queue of jobs                                               *)
(***************************************************************************)

-----------------------------------------------------------------------------
(* What each write leaves in the tables                                    *)

(* Writes of one column keep a row within its columns' types.              *)
LEMMA RowWrites ==
    ASSUME NEW q \in Row
    PROVE  /\ \A b \in BOOLEAN : [q EXCEPT !.live = b] \in Row
           /\ [q EXCEPT !.due = TRUE] \in Row
           /\ [q EXCEPT !.key = NoKey] \in Row
  BY Zenon DEF Row

(* A move of an enqueue call to its next statement keeps its type.         *)
LEMMA ClientWrites ==
    ASSUME NEW q \in Client
    PROVE  /\ \A c \in ClientPC : [q EXCEPT !.pc = c] \in Client
           /\ \A c \in ClientPC, p \in SUBSET Requests :
                [q EXCEPT !.pc = c, !.payload = p] \in Client
           /\ \A c \in ClientPC, j \in Requests :
                [q EXCEPT !.existing = j, !.pc = c] \in Client
  <1>1. \A j \in Requests : j \in Requests \cup {NoRow}
    OBVIOUS
  <1> QED
    BY <1>1, Zenon DEF Client

(* A move of a sweep to its next statement keeps its type.                 *)
LEMMA WorkerWrites ==
    ASSUME NEW q \in Worker
    PROVE  /\ \A c \in WorkerPC : [q EXCEPT !.pc = c] \in Worker
           /\ \A c \in WorkerPC, t \in Nat :
                [q EXCEPT !.pc = c, !.token = t] \in Worker
           /\ IdleWorker \in Worker
  <1>1. IdleWorker \in Worker
    BY DEF IdleWorker, Worker, WorkerPC
  <1> QED
    BY <1>1, Zenon DEF Worker

(* A row is inserted with values of its columns.                           *)
LEMMA NewRowTyped ==
    ASSUME NEW p \in SUBSET Requests, NEW k \in Keys \cup {NoKey}
    PROVE  NewRow(p, k) \in Row /\ AbsentRow \in Row
           /\ [AbsentRow EXCEPT !.status = "DELETED"] \in Row
  <1>1. AbsentRow \in Row
    BY DEF AbsentRow, Row, Status
  <1>2. NewRow(p, k) \in Row
    BY <1>1, Zenon DEF NewRow, Row, Status, Outstanding
  <1>3. [AbsentRow EXCEPT !.status = "DELETED"] \in Row
    BY <1>1, Zenon DEF Row, Status
  <1> QED
    BY <1>1, <1>2, <1>3

(* Coalescing, leasing and publishing an outcome write columns' values.    *)
LEMMA RowsTyped ==
    ASSUME TypeOK, NEW j \in Requests
    PROVE  /\ \A r \in Requests : FoldedRow(r, j) \in Row
           /\ LeasedRow(j) \in Row
           /\ \A w \in Workers : /\ CompletedRow(w, j) \in Row
                                 /\ FailedRow(w, j) \in Row
  <1>1. row[j] \in Row
    BY DEF TypeOK
  <1>2. ASSUME NEW r \in Requests
        PROVE  FoldedRow(r, j) \in Row
    <2>1. client[r].payload \in SUBSET Requests
      BY DEF TypeOK, Client
    <2> QED
      BY <1>1, <2>1, Zenon DEF FoldedRow, Row
  <1>3. ASSUME NEW w \in Workers
        PROVE  CompletedRow(w, j) \in Row /\ FailedRow(w, j) \in Row
    <2>1. worker[w].token \in Nat /\ 0 \in Nat
      BY DEF TypeOK, Worker
    <2>2. CompletedRow(w, j) \in Row
      BY <1>1, <2>1, Zenon DEF CompletedRow, Row, Status, Settled
    <2>3. FailedRow(w, j) \in Row
      BY <1>1, <2>1, Zenon DEF FailedRow, Row, Status, Settled, Outstanding
    <2> QED
      BY <2>2, <2>3
  <1>4. LeasedRow(j) \in Row
    <2>1. row[j].attempts + 1 \in Nat
      BY <1>1 DEF Row
    <2> QED
      BY <1>1, <2>1, Zenon DEF LeasedRow, Row, Status, Outstanding
  <1> QED
    BY <1>2, <1>3, <1>4

-----------------------------------------------------------------------------
(* The type invariant                                                      *)

(* One step of an enqueue call keeps the types.                            *)
LEMMA EnqueueTyped ==
    ASSUME TypeOK, NEW r \in Requests, Enqueue(r)
    PROVE  TypeOK'
<1> USE DEF TypeOK
<1>1. /\ client[r] \in Client
      /\ client[r].payload \in SUBSET Requests
      /\ KeyOf[r] \in Keys \cup {NoKey}
      /\ NoKey \in Keys \cup {NoKey}
  BY KeysAssumption DEF Client
<1>2. \A c \in {"find", "fold", "release", "create", "create_unkeyed",
                "accepted"} : c \in ClientPC
  BY DEF ClientPC
<1>3. CASE Widen(r)
  <2> DEFINE queued == {j \in Holders(KeyOf[r]) : row[j].status = "QUEUED"}
             seen == {r} \cup UNION {row[j].payload : j \in queued}
  <2>1. \A j \in queued : row[j].payload \in SUBSET Requests
    BY DEF Holders, Row
  <2>2. seen \in SUBSET Requests
    BY <2>1
  <2> DEFINE q == [client[r] EXCEPT !.pc = "find", !.payload = seen]
  <2>3. client' = [client EXCEPT ![r] = q]
    BY <1>3 DEF Widen
  <2> HIDE DEF seen
  <2>4. q \in Client
    BY <1>1, <1>2, <2>2, ClientWrites
  <2> HIDE DEF q
  <2> QED
    BY <1>3, <2>3, <2>4 DEF Widen
<1>4. CASE FindExisting(r)
  <2> DEFINE next(j) == IF row[j].status = "QUEUED" THEN "fold" ELSE "release"
             q(j) == [client[r] EXCEPT !.existing = j, !.pc = next(j)]
  <2>1. [client[r] EXCEPT !.pc = "create"] \in Client
    BY <1>1, <1>2, ClientWrites
  <2>2. \A j \in Holders(KeyOf[r]) : j \in Requests /\ next(j) \in ClientPC
    BY <1>2 DEF Holders
  <2> HIDE DEF next
  <2>3. \A j \in Holders(KeyOf[r]) : q(j) \in Client
    BY <1>1, <2>2, ClientWrites
  <2>4. CASE client' = [client EXCEPT ![r].pc = "create"]
    BY <1>4, <2>1, <2>4 DEF FindExisting
  <2>5. CASE \E j \in Holders(KeyOf[r]) : client' = [client EXCEPT ![r] = q(j)]
    <3> HIDE DEF q
    <3> QED
      BY <1>4, <2>3, <2>5 DEF FindExisting
  <2> QED
    BY <1>4, <2>4, <2>5 DEF FindExisting, next
<1>5. CASE Fold(r)
  BY <1>1, <1>2, <1>5, ClientWrites, RowsTyped DEF Fold
<1>6. CASE ReleaseKey(r)
  BY <1>1, <1>2, <1>6, ClientWrites, RowWrites DEF ReleaseKey
<1>7. CASE Create(r)
  BY <1>1, <1>2, <1>7, ClientWrites, NewRowTyped DEF Create
<1>8. CASE CreateUnkeyed(r)
  BY <1>1, <1>2, <1>8, ClientWrites, NewRowTyped DEF CreateUnkeyed
<1> QED
  BY <1>3, <1>4, <1>5, <1>6, <1>7, <1>8 DEF Enqueue

(* One step of a sweep keeps the types.                                    *)
LEMMA WorkTyped ==
    ASSUME TypeOK, NEW w \in Workers, Work(w)
    PROVE  TypeOK'
<1> USE DEF TypeOK
<1>1. /\ worker[w] \in Worker
      /\ worker[w].payload \in SUBSET Requests
      /\ worker[w].attempt \in Nat
  BY DEF Worker
<1>2. \A c \in {"lease", "run", "complete", "fail"} : c \in WorkerPC
  BY DEF WorkerPC
<1>3. ASSUME NEW j \in Requests, SelectCandidate(w, j)
      PROVE  TypeOK'
  <2>1. [pc |-> "lease", job |-> j, payload |-> row[j].payload,
         attempt |-> row[j].attempts + 1, token |-> 0] \in Worker
    BY DEF Worker, WorkerPC, Row
  <2> QED
    BY <1>3, <2>1 DEF SelectCandidate
<1>4. ASSUME NEW j \in Requests, TryLease(w, j)
      PROVE  TypeOK'
  <2> DEFINE t == row[j].attempts + 1
             q == [worker[w] EXCEPT !.pc = "run", !.token = t]
  <2>1. t \in Nat
    BY DEF Row
  <2>2. \/ worker' = [worker EXCEPT ![w] = q]
        \/ worker' = [worker EXCEPT ![w] = IdleWorker]
    BY <1>4 DEF TryLease
  <2> HIDE DEF t
  <2>3. q \in Worker
    BY <1>1, <1>2, <2>1, WorkerWrites
  <2>4. row' \in [Requests -> Row]
    BY <1>4, RowsTyped DEF TryLease
  <2>5. UNCHANGED <<client, served, faults>>
    BY <1>4 DEF TryLease
  <2> HIDE DEF q
  <2> QED
    BY <2>2, <2>3, <2>4, <2>5, WorkerWrites
<1>5. CASE HandlerReturns(w)
  BY <1>1, <1>2, <1>5, WorkerWrites DEF HandlerReturns
<1>6. CASE HandlerThrows(w)
  BY <1>1, <1>2, <1>6, WorkerWrites DEF HandlerThrows
<1>7. CASE Complete(w)
  BY <1>1, <1>7, WorkerWrites, RowsTyped DEF Complete
<1>8. CASE Fail(w)
  BY <1>1, <1>8, WorkerWrites, RowsTyped DEF Fail
<1> QED
  BY <1>3, <1>4, <1>5, <1>6, <1>7, <1>8 DEF Work

(* The count of faults stays a number.                                     *)
LEMMA FaultTyped == TypeOK /\ Fault => faults' \in Nat
  BY DEF TypeOK, Fault

(* Heartbeats, faults, clocks and the purge keep the types.                *)
LEMMA ElseTyped ==
    ASSUME TypeOK,
           \/ \E w \in Workers : \/ Heartbeat(w) \/ Crash(w)
                                 \/ CompleteThrows(w) \/ FailThrows(w)
           \/ \E j \in Requests : \/ LeaseExpires(j) \/ BackoffElapses(j)
                                  \/ Purge(j) \/ LeaseLapses(j)
    PROVE  TypeOK'
<1> USE DEF TypeOK
<1>1. ASSUME NEW w \in Workers, Heartbeat(w) PROVE TypeOK'
  <2>1. PICK j \in Requests : row' = [row EXCEPT ![j].live = TRUE]
    BY <1>1 DEF Heartbeat, Fenced
  <2> QED
    BY <1>1, <2>1, RowWrites DEF Heartbeat
<1>2. ASSUME NEW w \in Workers, Crash(w) PROVE TypeOK'
  BY <1>2, WorkerWrites, FaultTyped DEF Crash
<1>3. ASSUME NEW w \in Workers, CompleteThrows(w) PROVE TypeOK'
  BY <1>3, WorkerWrites, FaultTyped DEF CompleteThrows, WorkerPC
<1>4. ASSUME NEW w \in Workers, FailThrows(w) PROVE TypeOK'
  BY <1>4, WorkerWrites, FaultTyped DEF FailThrows
<1>5. ASSUME NEW j \in Requests, LeaseExpires(j) PROVE TypeOK'
  BY <1>5, RowWrites DEF LeaseExpires
<1>6. ASSUME NEW j \in Requests, BackoffElapses(j) PROVE TypeOK'
  BY <1>6, RowWrites DEF BackoffElapses
<1>7. ASSUME NEW j \in Requests, Purge(j) PROVE TypeOK'
  BY <1>7, NewRowTyped DEF Purge
<1>8. ASSUME NEW j \in Requests, LeaseLapses(j) PROVE TypeOK'
  BY <1>8, RowWrites, FaultTyped DEF LeaseLapses
<1> QED
  BY <1>1, <1>2, <1>3, <1>4, <1>5, <1>6, <1>7, <1>8

(* Every step keeps the types.                                             *)
LEMMA TypeStep == TypeOK /\ [Next]_vars => TypeOK'
<1>1. CASE UNCHANGED vars
  BY <1>1 DEF vars, TypeOK
<1> QED
  BY <1>1, EnqueueTyped, WorkTyped, ElseTyped DEF Next

(* The initial state is typed.                                             *)
LEMMA TypeInit == Init => TypeOK
<1> SUFFICES ASSUME Init PROVE TypeOK
  OBVIOUS
<1>1. AbsentRow \in Row /\ IdleWorker \in Worker
  BY DEF AbsentRow, Row, Status, IdleWorker, Worker, WorkerPC
<1>2. [pc |-> "idle", payload |-> {}, existing |-> NoRow] \in Client
  BY DEF Client, ClientPC
<1> QED
  BY <1>1, <1>2 DEF Init, TypeOK

(* Every variable keeps its type: in particular a row is never written     *)
(* with a status, a key or a token outside its column.                     *)
THEOREM TypeCorrect == Spec => []TypeOK
  BY TypeInit, TypeStep, PTL DEF Spec

-----------------------------------------------------------------------------
(* The inductive invariant of the lease                                    *)

Held == {"run", "complete", "fail"}

(* A row carries a token only while it runs, and it is its latest lease's; *)
(* its outcome is that lease's too.  A row nobody can work on has neither  *)
(* key nor attempts.                                                       *)
RowInv(j) ==
    /\ row[j].token # 0 => /\ row[j].token = row[j].attempts
                           /\ row[j].status = "RUNNING"
    /\ row[j].status \in Settled => row[j].by = row[j].attempts
    /\ row[j].status \notin Settled => row[j].by = 0
    /\ row[j].status = "FAILED" => row[j].attempts >= MaxAttempts
    /\ row[j].key # NoKey => row[j].status \in Outstanding
    /\ row[j].status \in {"ABSENT", "DELETED"} => row[j].attempts = 0

(* A call that has not inserted its row yet has none.                      *)
ClientInv(r) == client[r].pc # "accepted" => row[r].status = "ABSENT"

(* A sweep that works on a job presents the token of its own lease, and    *)
(* counts no more attempts than there were.                                *)
WorkerInv(w) ==
    /\ worker[w].pc = "lease" =>
         /\ worker[w].job \in Requests
         /\ worker[w].attempt <= row[worker[w].job].attempts + 1
    /\ worker[w].pc \in Held => /\ worker[w].token # 0
                                /\ worker[w].attempt <= worker[w].token

LeaseInv == /\ TypeOK
            /\ \A j \in Requests : RowInv(j) /\ ClientInv(j)
            /\ \A w \in Workers : WorkerInv(w)

(* The columns the invariant speaks of are those of row q in row p.        *)
SameLease(p, q) == /\ p.status = q.status
                   /\ p.key = q.key
                   /\ p.attempts = q.attempts
                   /\ p.token = q.token
                   /\ p.by = q.by

(* Writes of other columns leave them alone.                               *)
LEMMA OtherColumns ==
    ASSUME NEW q \in Row
    PROVE  /\ SameLease(q, q)
           /\ \A b \in BOOLEAN : SameLease([q EXCEPT !.live = b], q)
           /\ SameLease([q EXCEPT !.due = TRUE], q)
           /\ \A p \in SUBSET Requests :
                SameLease([q EXCEPT !.payload = p, !.due = TRUE], q)
  BY Zenon DEF SameLease, Row

(* The columns that releasing a key writes.                                *)
LEMMA KeyColumns ==
    ASSUME TypeOK, NEW j \in Requests
    PROVE  LET p == [row[j] EXCEPT !.key = NoKey]
           IN  /\ p.status = row[j].status
               /\ p.key = NoKey
               /\ p.attempts = row[j].attempts
               /\ p.token = row[j].token
               /\ p.by = row[j].by
               /\ p.live = row[j].live
  <1>1. row[j] \in Row
    BY DEF TypeOK
  <1> QED
    BY <1>1, Zenon DEF Row

(* The columns that taking a lease writes.                                 *)
LEMMA LeaseColumns ==
    ASSUME TypeOK, NEW j \in Requests
    PROVE  LET p == LeasedRow(j)
           IN  /\ p.status = "RUNNING"
               /\ p.key = row[j].key
               /\ p.attempts = row[j].attempts + 1
               /\ p.token = row[j].attempts + 1
               /\ p.by = row[j].by
               /\ p.live = TRUE
  <1>1. row[j] \in Row
    BY DEF TypeOK
  <1> QED
    BY <1>1, Zenon DEF LeasedRow, Row

(* The columns that publishing an outcome writes.                          *)
LEMMA OutcomeColumns ==
    ASSUME TypeOK, NEW j \in Requests, NEW w \in Workers
    PROVE  /\ LET p == CompletedRow(w, j)
              IN  /\ p.status = "COMPLETE"
                  /\ p.key = NoKey
                  /\ p.attempts = row[j].attempts
                  /\ p.token = 0
                  /\ p.by = worker[w].token
           /\ LET p == FailedRow(w, j)
              IN  /\ p.attempts = row[j].attempts
                  /\ p.token = 0
                  /\ worker[w].attempt >= MaxAttempts
                       => /\ p.status = "FAILED"
                          /\ p.key = NoKey
                          /\ p.by = worker[w].token
                  /\ ~(worker[w].attempt >= MaxAttempts)
                       => /\ p.status = "QUEUED"
                          /\ p.key = row[j].key
                          /\ p.by = row[j].by
  <1>1. row[j] \in Row
    BY DEF TypeOK
  <1> QED
    BY <1>1, Zenon DEF CompletedRow, FailedRow, Row

(* The columns of a row that is inserted or deleted.                       *)
LEMMA NewColumns ==
    ASSUME NEW p, NEW k
    PROVE  /\ NewRow(p, k).status = "QUEUED"
           /\ NewRow(p, k).key = k
           /\ NewRow(p, k).attempts = 0
           /\ NewRow(p, k).token = 0
           /\ NewRow(p, k).by = 0
           /\ LET d == [AbsentRow EXCEPT !.status = "DELETED"]
              IN  /\ d.status = "DELETED"
                  /\ d.key = NoKey
                  /\ d.attempts = 0
                  /\ d.token = 0
                  /\ d.by = 0
  BY Zenon DEF NewRow, AbsentRow

(* What a worker's move does to the values its invariant speaks of.        *)
LEMMA WorkerColumns ==
    ASSUME NEW q \in Worker, NEW c \in WorkerPC
    PROVE  /\ LET p == [q EXCEPT !.pc = c]
              IN  /\ p.pc = c
                  /\ p.job = q.job
                  /\ p.attempt = q.attempt
                  /\ p.token = q.token
           /\ \A t \in Nat :
                LET p == [q EXCEPT !.pc = "run", !.token = t]
                IN  /\ p.pc = "run"
                    /\ p.job = q.job
                    /\ p.attempt = q.attempt
                    /\ p.token = t
           /\ IdleWorker.pc = "idle"
  BY Zenon DEF Worker, IdleWorker

(* A worker that does not move keeps its invariant while attempts grow.    *)
LEMMA WorkersKeep ==
    ASSUME LeaseInv, TypeOK', NEW v \in Workers, worker'[v] = worker[v],
           worker[v].pc = "lease" /\ worker[v].job \in Requests =>
              row'[worker[v].job].attempts >= row[worker[v].job].attempts
    PROVE  WorkerInv(v)'
  <1>1. CASE worker[v].pc = "lease"
    <2> DEFINE j == worker[v].job
    <2>1. j \in Requests /\ worker[v].attempt <= row[j].attempts + 1
      BY <1>1 DEF LeaseInv, WorkerInv
    <2>2. /\ row[j].attempts \in Nat
          /\ row'[j].attempts \in Nat
          /\ worker[v].attempt \in Nat
      BY <2>1 DEF LeaseInv, TypeOK, Row, Worker
    <2>3. worker[v].attempt <= row'[j].attempts + 1
      BY <1>1, <2>1, <2>2
    <2> QED
      BY <1>1, <2>1, <2>3 DEF WorkerInv, Held
  <1>2. CASE worker[v].pc # "lease"
    BY <1>2 DEF LeaseInv, WorkerInv
  <1> QED
    BY <1>1, <1>2

(* Steps that move no lease.                                               *)
LEMMA LeaseUntouched ==
    ASSUME LeaseInv, TypeOK',
           \A j \in Requests : SameLease(row'[j], row[j]),
           \A r \in Requests : client'[r].pc # "accepted"
                                 => client[r].pc # "accepted",
           \A w \in Workers : WorkerInv(w)'
    PROVE  LeaseInv'
  BY DEF LeaseInv, RowInv, ClientInv, SameLease

(* Steps that change neither rows nor workers.                             *)
LEMMA ClientMoves ==
    ASSUME LeaseInv, TypeOK', NEW r \in Requests, client[r].pc # "accepted",
           \A q \in Requests \ {r} : client'[q] = client[q],
           UNCHANGED <<row, worker>>
    PROVE  LeaseInv'
  <1>1. \A j \in Requests : SameLease(row'[j], row[j])
    BY OtherColumns DEF LeaseInv, TypeOK
  <1>2. \A w \in Workers : WorkerInv(w)'
    BY DEF LeaseInv, WorkerInv
  <1> QED
    BY <1>1, <1>2, LeaseUntouched

(* An enqueue call keeps the invariant.                                    *)
LEMMA EnqueueLease ==
    ASSUME LeaseInv, TypeOK', NEW r \in Requests, Enqueue(r)
    PROVE  LeaseInv'
<1> USE DEF LeaseInv
<1>1. row \in [Requests -> Row] /\ client \in [Requests -> Client]
  BY DEF TypeOK
<1>2. worker' = worker
  BY DEF Enqueue, Widen, FindExisting, Fold, ReleaseKey, Create, CreateUnkeyed
<1>3. ASSUME \A j \in Requests : row'[j].attempts = row[j].attempts
      PROVE  \A w \in Workers : WorkerInv(w)'
  <2>1. \A j \in Requests : row[j].attempts \in Nat
    BY <1>1 DEF Row
  <2> QED
    BY <1>2, <1>3, <2>1, WorkersKeep
<1>4. \A q \in Requests \ {r} : client'[q] = client[q]
  BY <1>1 DEF Enqueue, Widen, FindExisting, Fold, ReleaseKey, Create, CreateUnkeyed
<1>5. client[r].pc # "accepted"
  BY DEF Enqueue, Widen, FindExisting, Fold, ReleaseKey, Create, CreateUnkeyed
<1>6. CASE UNCHANGED row
  BY <1>2, <1>4, <1>5, <1>6, ClientMoves
<1>7. CASE Fold(r)
  <2>1. client[r].payload \in SUBSET Requests
    BY <1>1 DEF Client
  <2>2. \A j \in Requests : SameLease(row'[j], row[j])
    BY <1>1, <1>7, <2>1, OtherColumns, Zenon DEF Fold, FoldedRow
  <2> QED
    BY <1>3, <1>4, <1>5, <2>2, LeaseUntouched DEF SameLease
<1>8. CASE ReleaseKey(r) /\ ~UNCHANGED row
  <2> DEFINE e == client[r].existing
             p == [row[e] EXCEPT !.key = NoKey]
  <2>1. row' = [row EXCEPT ![e] = p]
    BY <1>8 DEF ReleaseKey
  <2>2. \A j \in Requests : row'[j] = IF j = e THEN p ELSE row[j]
    BY <1>1, <2>1
  <2>3. e \in Requests => /\ p.status = row[e].status
                          /\ p.key = NoKey
                          /\ p.attempts = row[e].attempts
                          /\ p.token = row[e].token
                          /\ p.by = row[e].by
    BY KeyColumns
  <2> HIDE DEF p
  <2>4. \A j \in Requests : RowInv(j)'
    BY <2>2, <2>3 DEF RowInv
  <2>5. \A q \in Requests : ClientInv(q)'
    BY <1>4, <1>5, <2>2, <2>3 DEF ClientInv
  <2>6. \A j \in Requests : row'[j].attempts = row[j].attempts
    BY <2>2, <2>3
  <2> QED
    BY <1>3, <2>4, <2>5, <2>6
<1>9. ASSUME NEW k, row' = [row EXCEPT ![r] = NewRow(client[r].payload, k)],
             client' = [client EXCEPT ![r].pc = "accepted"]
      PROVE  LeaseInv'
  <2>1. client'[r].pc = "accepted"
    BY <1>1, <1>9, Zenon DEF Client
  <2>2. \A j \in Requests : RowInv(j)'
    BY <1>1, <1>9, NewColumns DEF RowInv, Outstanding, Settled
  <2>3. \A q \in Requests : ClientInv(q)'
    BY <1>1, <1>4, <1>9, <2>1 DEF ClientInv
  <2>4. row[r].attempts = 0
    BY <1>5 DEF ClientInv, RowInv
  <2>5. \A j \in Requests : row'[j].attempts = row[j].attempts
    BY <1>1, <1>9, <2>4, NewColumns
  <2> QED
    BY <1>3, <2>2, <2>3, <2>5
<1> QED
  BY <1>6, <1>7, <1>8, <1>9
     DEF Enqueue, Widen, FindExisting, Create, CreateUnkeyed

(* A sweep's own step keeps the invariant.                                 *)
LEMMA WorkLease ==
    ASSUME LeaseInv, TypeOK', NEW w \in Workers, Work(w)
    PROVE  LeaseInv'
<1> USE DEF LeaseInv
<1>1. row \in [Requests -> Row] /\ worker \in [Workers -> Worker]
  BY DEF TypeOK
<1>2. client' = client
  BY DEF Work, SelectCandidate, TryLease, HandlerReturns, HandlerThrows,
         Complete, Fail
<1>3. \A v \in Workers \ {w} : worker'[v] = worker[v]
  BY <1>1 DEF Work, SelectCandidate, TryLease, HandlerReturns, HandlerThrows,
              Complete, Fail
<1>4. worker[w] \in Worker /\ worker[w].attempt \in Nat /\ worker[w].token \in Nat
  BY <1>1 DEF Worker
<1>5. IdleWorker.pc = "idle"
  BY DEF IdleWorker
<1>6. ASSUME WorkerInv(w)', UNCHANGED row
      PROVE  LeaseInv'
  <2>1. \A j \in Requests : SameLease(row'[j], row[j])
    BY <1>1, <1>6, OtherColumns
  <2>2. \A v \in Workers : WorkerInv(v)'
    BY <1>3, <1>6 DEF WorkerInv
  <2> QED
    BY <1>2, <2>1, <2>2, LeaseUntouched
<1>7. ASSUME WorkerInv(w)',
             \A j \in Requests : row'[j].attempts >= row[j].attempts
      PROVE  \A v \in Workers : WorkerInv(v)'
  BY <1>3, <1>7, WorkersKeep
<1>8. ASSUME NEW j \in Requests, SelectCandidate(w, j)
      PROVE  LeaseInv'
  <2>1. row[j].attempts \in Nat
    BY <1>1 DEF Row
  <2>2. /\ worker'[w].pc = "lease"
        /\ worker'[w].job = j
        /\ worker'[w].attempt = row[j].attempts + 1
    BY <1>1, <1>8 DEF SelectCandidate
  <2>3. row' = row
    BY <1>8 DEF SelectCandidate
  <2>4. WorkerInv(w)'
    BY <2>1, <2>2, <2>3 DEF WorkerInv, Held
  <2> QED
    BY <1>6, <2>3, <2>4
<1>9. ASSUME NEW j \in Requests, TryLease(w, j)
      PROVE  LeaseInv'
  <2>1. CASE ~Claimable(j)
    <3>1. worker'[w] = IdleWorker /\ row' = row
      BY <1>1, <1>9, <2>1 DEF TryLease
    <3> QED
      BY <1>5, <1>6, <3>1 DEF WorkerInv, Held
  <2>2. CASE Claimable(j)
    <3> DEFINE p == LeasedRow(j)
    <3>1. \A k \in Requests : row'[k] = IF k = j THEN p ELSE row[k]
      BY <1>1, <1>9, <2>2 DEF TryLease
    <3>2. /\ p.status = "RUNNING"
          /\ p.key = row[j].key
          /\ p.attempts = row[j].attempts + 1
          /\ p.token = row[j].attempts + 1
          /\ p.by = row[j].by
      BY LeaseColumns
    <3>3. row[j].status \in Outstanding
      BY <2>2 DEF Claimable
    <3>4. /\ worker'[w].pc = "run"
          /\ worker'[w].attempt = worker[w].attempt
          /\ worker'[w].token = row[j].attempts + 1
      <4> DEFINE t == row[j].attempts + 1
                 q == [worker[w] EXCEPT !.pc = "run", !.token = t]
      <4>1. worker' = [worker EXCEPT ![w] = q]
        BY <1>9, <2>2 DEF TryLease
      <4>2. t \in Nat
        BY <1>1 DEF Row
      <4> HIDE DEF t
      <4>3. /\ q.pc = "run"
            /\ q.attempt = worker[w].attempt
            /\ q.token = t
        BY <1>4, <4>2, WorkerColumns
      <4> HIDE DEF q
      <4>4. /\ worker'[w].pc = "run"
            /\ worker'[w].attempt = worker[w].attempt
            /\ worker'[w].token = t
        BY <1>1, <4>1, <4>3
      <4> QED
        BY <4>4 DEF t
    <3> HIDE DEF p
    <3>5. \A k \in Requests : RowInv(k)'
      BY <3>1, <3>2, <3>3 DEF RowInv, Outstanding, Settled
    <3>6. \A r \in Requests : ClientInv(r)'
      BY <1>2, <3>1, <3>2, <3>3 DEF ClientInv, Outstanding
    <3>7. \A k \in Requests : row[k].attempts \in Nat
      BY <1>1 DEF Row
    <3>8. \A k \in Requests : row'[k].attempts >= row[k].attempts
      BY <3>1, <3>2, <3>7
    <3>9. worker[w].attempt <= row[j].attempts + 1
      BY <1>9 DEF TryLease, WorkerInv
    <3>10. WorkerInv(w)'
      BY <3>4, <3>7, <3>9 DEF WorkerInv, Held
    <3> QED
      BY <1>7, <3>5, <3>6, <3>8, <3>10
  <2> QED
    BY <2>1, <2>2
<1>10. CASE HandlerReturns(w) \/ HandlerThrows(w)
  <2>1. /\ worker'[w].pc \in Held \ {"run"}
        /\ worker'[w].attempt = worker[w].attempt
        /\ worker'[w].token = worker[w].token
    <3> DEFINE q(c) == [worker[w] EXCEPT !.pc = c]
    <3>1. PICK c \in {"complete", "fail"} : worker' = [worker EXCEPT ![w] = q(c)]
      BY <1>10 DEF HandlerReturns, HandlerThrows
    <3>2. c \in WorkerPC /\ c \in Held \ {"run"}
      BY DEF WorkerPC, Held
    <3>3. /\ q(c).pc = c
          /\ q(c).attempt = worker[w].attempt
          /\ q(c).token = worker[w].token
      BY <1>4, <3>2, WorkerColumns
    <3> HIDE DEF q
    <3> QED
      BY <1>1, <3>1, <3>2, <3>3
  <2>2. worker[w].pc = "run" /\ row' = row
    BY <1>10 DEF HandlerReturns, HandlerThrows
  <2> QED
    BY <1>6, <2>1, <2>2 DEF WorkerInv, Held
<1>11. ASSUME worker[w].pc \in Held, worker'[w] = IdleWorker,
              \A j \in Requests :
                 \/ row'[j] = row[j]
                 \/ /\ j \in Fenced(w)
                    /\ row'[j] = CompletedRow(w, j) \/ row'[j] = FailedRow(w, j)
       PROVE  LeaseInv'
  <2>1. ASSUME NEW j \in Requests, j \in Fenced(w)
        PROVE  /\ row[j].status = "RUNNING"
               /\ row[j].attempts = worker[w].token
               /\ row[j].by = 0
    <3>1. row[j].token = worker[w].token
      BY <2>1 DEF Fenced
    <3>2. worker[w].token # 0
      BY <1>11 DEF WorkerInv
    <3>3. row[j].token = row[j].attempts /\ row[j].status = "RUNNING"
      BY <3>1, <3>2 DEF RowInv
    <3> QED
      BY <3>1, <3>2, <3>3 DEF RowInv, Settled
  <2>2. ASSUME NEW j \in Requests
        PROVE  RowInv(j)'
    <3>1. CASE row'[j] = row[j]
      BY <3>1 DEF RowInv
    <3>2. CASE j \in Fenced(w) /\ row'[j] = CompletedRow(w, j)
      <4>1. /\ row'[j].status = "COMPLETE"
            /\ row'[j].key = NoKey
            /\ row'[j].token = 0
            /\ row'[j].by = row'[j].attempts
        BY <2>1, <3>2, OutcomeColumns
      <4> QED
        BY <4>1 DEF RowInv, Outstanding, Settled
    <3>3. CASE j \in Fenced(w) /\ row'[j] = FailedRow(w, j)
      <4>1. row'[j].token = 0 /\ row'[j].attempts = row[j].attempts
        BY <3>3, OutcomeColumns
      <4>2. CASE worker[w].attempt >= MaxAttempts
        <5>1. /\ row'[j].status = "FAILED"
              /\ row'[j].key = NoKey
              /\ row'[j].by = worker[w].token
          BY <2>1, <3>3, <4>2, OutcomeColumns
        <5>2. row[j].attempts = worker[w].token
          BY <2>1, <3>3
        <5>3. worker[w].attempt <= worker[w].token
          BY <1>11 DEF WorkerInv
        <5>4. row[j].attempts >= MaxAttempts
          BY <1>4, <4>2, <5>2, <5>3, BoundsAssumption
        <5> QED
          BY <4>1, <5>1, <5>2, <5>4 DEF RowInv, Outstanding, Settled
      <4>3. CASE ~(worker[w].attempt >= MaxAttempts)
        <5>1. row'[j].status = "QUEUED" /\ row'[j].by = 0
          BY <2>1, <3>3, <4>3, OutcomeColumns
        <5> QED
          BY <4>1, <5>1 DEF RowInv, Outstanding, Settled
      <4> QED
        BY <4>2, <4>3
    <3> QED
      BY <1>11, <3>1, <3>2, <3>3
  <2>3. ASSUME NEW r \in Requests
        PROVE  ClientInv(r)'
    <3>1. row[r].status = "ABSENT" => row'[r] = row[r]
      BY <1>11, <2>1
    <3> QED
      BY <1>2, <3>1 DEF ClientInv
  <2>4. \A j \in Requests : row'[j].attempts >= row[j].attempts
    <3>1. \A j \in Requests : row[j].attempts \in Nat
      BY <1>1 DEF Row
    <3>2. \A j \in Requests : row'[j].attempts = row[j].attempts
      BY <1>11, OutcomeColumns
    <3> QED
      BY <3>1, <3>2
  <2>5. WorkerInv(w)'
    BY <1>5, <1>11 DEF WorkerInv, Held
  <2> QED
    BY <1>7, <2>2, <2>3, <2>4, <2>5
<1>12. CASE Complete(w) \/ Fail(w)
  BY <1>1, <1>11, <1>12 DEF Complete, Fail, Held
<1> QED
  BY <1>8, <1>9, <1>10, <1>12 DEF Work

(* Heartbeats and clocks touch no column of the lease but its expiry.      *)
LEMMA TimeLease ==
    ASSUME LeaseInv, TypeOK', UNCHANGED <<client, worker>>,
           NEW j \in Requests,
           \/ row' = [row EXCEPT ![j].due = TRUE]
           \/ \E b \in BOOLEAN : row' = [row EXCEPT ![j].live = b]
    PROVE  LeaseInv'
<1>1. row \in [Requests -> Row]
  BY DEF LeaseInv, TypeOK
<1>2. \A k \in Requests : SameLease(row'[k], row[k])
  BY <1>1, OtherColumns, Zenon
<1>3. \A k \in Requests : /\ row[k].attempts \in Nat
                          /\ row'[k].attempts = row[k].attempts
  BY <1>1, <1>2 DEF Row, SameLease
<1>4. \A w \in Workers : WorkerInv(w)'
  BY <1>3, WorkersKeep
<1> QED
  BY <1>2, <1>4, LeaseUntouched

(* A crash, and an outcome that cannot be written, stop a sweep's work or  *)
(* turn it to the failure path, under the token it had.                    *)
LEMMA FaultLease ==
    ASSUME LeaseInv, TypeOK', NEW w \in Workers,
           Crash(w) \/ CompleteThrows(w) \/ FailThrows(w)
    PROVE  LeaseInv'
<1> USE DEF LeaseInv
<1>1. row \in [Requests -> Row] /\ worker \in [Workers -> Worker]
  BY DEF TypeOK
<1>2. UNCHANGED <<row, client>>
  BY DEF Crash, CompleteThrows, FailThrows
<1>3. \A j \in Requests : SameLease(row'[j], row[j])
  BY <1>1, <1>2, OtherColumns
<1>4. \A v \in Workers \ {w} : worker'[v] = worker[v]
  BY <1>1 DEF Crash, CompleteThrows, FailThrows
<1>5. WorkerInv(w)'
  <2>1. CASE Crash(w) \/ FailThrows(w)
    BY <1>1, <2>1 DEF Crash, FailThrows, WorkerInv, IdleWorker, Held
  <2>2. CASE CompleteThrows(w)
    <3> DEFINE q == [worker[w] EXCEPT !.pc = "fail"]
    <3>1. worker' = [worker EXCEPT ![w] = q] /\ worker[w].pc = "complete"
      BY <2>2 DEF CompleteThrows
    <3>2. /\ q.pc = "fail"
          /\ q.attempt = worker[w].attempt
          /\ q.token = worker[w].token
      BY <1>1, WorkerColumns DEF WorkerPC
    <3> HIDE DEF q
    <3> QED
      BY <1>1, <3>1, <3>2 DEF WorkerInv, Held
  <2> QED
    BY <2>1, <2>2
<1>6. \A v \in Workers : WorkerInv(v)'
  <2>1. \A j \in Requests : row[j].attempts \in Nat
    BY <1>1 DEF Row
  <2> QED
    BY <1>2, <1>4, <1>5, <2>1, WorkersKeep
<1> QED
  BY <1>2, <1>3, <1>6, LeaseUntouched

(* The purge leaves a row without a lease.                                 *)
LEMMA PurgeLease ==
    ASSUME LeaseInv, TypeOK', NEW j \in Requests, Purge(j)
    PROVE  LeaseInv'
<1> USE DEF LeaseInv
<1> DEFINE d == [AbsentRow EXCEPT !.status = "DELETED"]
<1>1. row \in [Requests -> Row]
  BY DEF TypeOK
<1>2. /\ d.status = "DELETED"
      /\ d.key = NoKey
      /\ d.attempts = 0
      /\ d.token = 0
      /\ d.by = 0
  BY NewColumns
<1>3. row' = [row EXCEPT ![j] = d]
  BY DEF Purge
<1>4. row[j].status \in Settled /\ UNCHANGED <<client, worker>>
  BY DEF Purge
<1> HIDE DEF d
<1>5. \A k \in Requests : row'[k] = IF k = j THEN d ELSE row[k]
  BY <1>1, <1>3
<1>6. \A k \in Requests : RowInv(k)'
  BY <1>2, <1>5 DEF RowInv, Settled
<1>7. \A r \in Requests : ClientInv(r)'
  BY <1>4, <1>5 DEF ClientInv, Settled
<1>8. \A w \in Workers : worker[w].job # j
  BY DEF Purge
<1>9. \A k \in Requests : row[k].attempts \in Nat
  BY <1>1 DEF Row
<1>10. \A w \in Workers : WorkerInv(w)'
  BY <1>4, <1>5, <1>8, <1>9, WorkersKeep
<1> QED
  BY <1>6, <1>7, <1>10

(* The lease invariant is inductive.                                       *)
LEMMA LeaseStep == LeaseInv /\ [Next]_vars => LeaseInv'
<1> SUFFICES ASSUME LeaseInv, [Next]_vars PROVE LeaseInv'
  OBVIOUS
<1>1. TypeOK'
  BY TypeStep DEF LeaseInv
<1>2. CASE UNCHANGED vars
  BY <1>2 DEF vars, LeaseInv, RowInv, ClientInv, WorkerInv, TypeOK
<1>3. ASSUME NEW w \in Workers, Heartbeat(w)
      PROVE  LeaseInv'
  <2>1. PICK j \in Requests : row' = [row EXCEPT ![j].live = TRUE]
    BY <1>3 DEF Heartbeat, Fenced
  <2> QED
    BY <1>1, <1>3, <2>1, TimeLease DEF Heartbeat
<1>4. ASSUME NEW j \in Requests,
             LeaseExpires(j) \/ BackoffElapses(j) \/ LeaseLapses(j)
      PROVE  LeaseInv'
  BY <1>1, <1>4, TimeLease DEF LeaseExpires, BackoffElapses, LeaseLapses
<1> QED
  BY <1>1, <1>2, <1>3, <1>4, EnqueueLease, WorkLease, FaultLease, PurgeLease
     DEF Next

(* The invariant of the lease holds in every reachable state.              *)
THEOREM LeaseInvariant == Spec => []LeaseInv
<1>1. Init => LeaseInv
  <2> SUFFICES ASSUME Init PROVE LeaseInv
    OBVIOUS
  <2>1. TypeOK
    BY TypeInit
  <2>2. \A j \in Requests : RowInv(j)
    BY DEF Init, AbsentRow, RowInv, Settled, Outstanding
  <2>3. \A r \in Requests : ClientInv(r)
    BY DEF Init, AbsentRow, ClientInv
  <2>4. \A w \in Workers : WorkerInv(w)
    BY DEF Init, IdleWorker, WorkerInv, Held
  <2> QED
    BY <2>1, <2>2, <2>3, <2>4 DEF LeaseInv
<1> QED
  BY <1>1, LeaseStep, PTL DEF Spec

(* A worker whose lease was taken over never overwrites the outcome of the *)
(* one that took it.                                                       *)
THEOREM OutcomeFenced == Spec => []OutcomeIsOfLatestLease
<1>1. LeaseInv => OutcomeIsOfLatestLease
  BY DEF LeaseInv, RowInv, OutcomeIsOfLatestLease
<1> QED
  BY <1>1, LeaseInvariant, PTL

(* No finished row keeps its dedupe key.                                   *)
THEOREM FinishedRowsKeepNoKey == Spec => []KeyHeldByOutstandingWork
<1>1. LeaseInv => KeyHeldByOutstandingWork
  BY DEF LeaseInv, RowInv, KeyHeldByOutstandingWork
<1> QED
  BY <1>1, LeaseInvariant, PTL

(* No job is given up before its ceiling of leases.                        *)
THEOREM NoEarlyGivingUp == Spec => []GivenUpOnlyAtCeiling
<1>1. LeaseInv => GivenUpOnlyAtCeiling
  BY DEF LeaseInv, RowInv, GivenUpOnlyAtCeiling
<1> QED
  BY <1>1, LeaseInvariant, PTL

-----------------------------------------------------------------------------
(* What a step does to one row                                             *)

(* The row is left alone, or keeps its phase, its lease and its outcome.   *)
Kept(j) == /\ \/ row'[j].status = row[j].status
              \/ row[j].status \in Outstanding /\ row'[j].status \in Outstanding
           /\ row'[j].attempts = row[j].attempts
           /\ row'[j].by = row[j].by

Inserted(j) == /\ row[j].status = "ABSENT"
               /\ row'[j].status = "QUEUED"
               /\ row'[j].attempts = 0 /\ row'[j].by = 0

Leased(j) == /\ row[j].status \in Outstanding
             /\ row'[j].status = "RUNNING"
             /\ row'[j].attempts = row[j].attempts + 1
             /\ row'[j].by = row[j].by

Finished(j) == /\ row[j].status \in Outstanding
               /\ row'[j].status \in Settled
               /\ row[j].attempts # 0
               /\ row'[j].attempts = row[j].attempts
               /\ row'[j].by = row[j].attempts

Purged(j) == /\ row[j].status \in Settled
             /\ row'[j].status = "DELETED"
             /\ row'[j].attempts = 0 /\ row'[j].by = 0

Move(j) == Kept(j) \/ Inserted(j) \/ Leased(j) \/ Finished(j) \/ Purged(j)

LEMMA SameLeaseKept ==
    ASSUME NEW j \in Requests, SameLease(row'[j], row[j])
    PROVE  Kept(j)
  BY DEF SameLease, Kept

(* An enqueue call inserts its own row, or writes no column of the lease.  *)
LEMMA EnqueueMoves ==
    ASSUME LeaseInv, NEW r \in Requests, Enqueue(r), NEW j \in Requests
    PROVE  Move(j)
<1>1. row \in [Requests -> Row] /\ client \in [Requests -> Client]
  BY DEF LeaseInv, TypeOK
<1>2. CASE UNCHANGED row
  BY <1>2 DEF Move, Kept
<1>3. CASE Fold(r)
  <2>1. client[r].payload \in SUBSET Requests
    BY <1>1 DEF Client
  <2>2. SameLease(row'[j], row[j])
    BY <1>1, <1>3, <2>1, OtherColumns, Zenon DEF Fold, FoldedRow
  <2> QED
    BY <2>2, SameLeaseKept DEF Move
<1>4. CASE ReleaseKey(r) /\ ~UNCHANGED row
  <2> DEFINE e == client[r].existing
             p == [row[e] EXCEPT !.key = NoKey]
  <2>1. row'[j] = IF j = e THEN p ELSE row[j]
    BY <1>1, <1>4 DEF ReleaseKey
  <2>2. e \in Requests => /\ p.status = row[e].status
                          /\ p.attempts = row[e].attempts
                          /\ p.by = row[e].by
    BY KeyColumns DEF LeaseInv
  <2> HIDE DEF p
  <2> QED
    BY <2>1, <2>2 DEF Move, Kept
<1>5. ASSUME NEW k, row' = [row EXCEPT ![r] = NewRow(client[r].payload, k)],
             client[r].pc # "accepted"
      PROVE  Move(j)
  <2>1. CASE j = r
    BY <1>1, <1>5, <2>1, NewColumns DEF Move, Inserted, LeaseInv, ClientInv
  <2>2. CASE j # r
    BY <1>1, <1>5, <2>2 DEF Move, Kept
  <2> QED
    BY <2>1, <2>2
<1> QED
  BY <1>2, <1>3, <1>4, <1>5
     DEF Enqueue, Widen, FindExisting, Create, CreateUnkeyed

(* The rows a worker fences are its own latest leases.                     *)
LEMMA FencedRows ==
    ASSUME LeaseInv, NEW w \in Workers, worker[w].pc \in Held,
           NEW j \in Fenced(w)
    PROVE  /\ j \in Requests /\ j = worker[w].job
           /\ row[j].status = "RUNNING"
           /\ row[j].attempts = worker[w].token
           /\ row[j].attempts # 0 /\ row[j].by = 0
  <1>1. j \in Requests /\ j = worker[w].job /\ row[j].token = worker[w].token
    BY DEF Fenced
  <1>2. worker[w].token # 0
    BY DEF LeaseInv, WorkerInv
  <1>3. row[j].token = row[j].attempts /\ row[j].status = "RUNNING"
    BY <1>1, <1>2 DEF LeaseInv, RowInv
  <1> QED
    BY <1>1, <1>2, <1>3 DEF LeaseInv, RowInv, Settled

LEMMA WorkMoves ==
    ASSUME LeaseInv, NEW w \in Workers, Work(w), NEW j \in Requests
    PROVE  Move(j)
<1>1. row \in [Requests -> Row] /\ TypeOK
  BY DEF LeaseInv, TypeOK
<1>2. CASE UNCHANGED row
  BY <1>2 DEF Move, Kept
<1>3. ASSUME NEW k \in Requests, TryLease(w, k), ~UNCHANGED row
      PROVE  Move(j)
  <2> DEFINE p == LeasedRow(k)
  <2>1. row' = [row EXCEPT ![k] = p] /\ row[k].status \in Outstanding
    BY <1>3 DEF TryLease, Claimable
  <2>2. /\ p.status = "RUNNING" /\ p.attempts = row[k].attempts + 1
        /\ p.by = row[k].by
    BY <1>1, LeaseColumns
  <2> HIDE DEF p
  <2> QED
    BY <1>1, <2>1, <2>2 DEF Move, Kept, Leased
<1>4. ASSUME worker[w].pc \in Held, j \in Fenced(w),
             row'[j] = CompletedRow(w, j) \/ row'[j] = FailedRow(w, j)
      PROVE  Move(j)
  <2>1. /\ row[j].status = "RUNNING" /\ row[j].attempts = worker[w].token
        /\ row[j].attempts # 0
    BY <1>4, FencedRows
  <2>2. /\ row'[j].attempts = row[j].attempts
        /\ \/ /\ row'[j].status \in {"COMPLETE", "FAILED"}
              /\ row'[j].by = worker[w].token
           \/ row'[j].status = "QUEUED" /\ row'[j].by = row[j].by
    BY <1>1, <1>4, OutcomeColumns
  <2> QED
    BY <2>1, <2>2 DEF Move, Kept, Finished, Outstanding, Settled
<1>5. CASE Complete(w) \/ Fail(w)
  <2>1. /\ worker[w].pc \in Held
        /\ \/ row'[j] = row[j]
           \/ /\ j \in Fenced(w)
              /\ row'[j] = CompletedRow(w, j) \/ row'[j] = FailedRow(w, j)
    BY <1>5 DEF Complete, Fail, Held
  <2> QED
    BY <1>4, <2>1 DEF Move, Kept
<1> QED
  BY <1>2, <1>3, <1>5
     DEF Work, SelectCandidate, HandlerReturns, HandlerThrows

(* Every step moves every row as the pattern allows.                       *)
LEMMA RowMoves ==
    ASSUME LeaseInv, [Next]_vars, NEW j \in Requests
    PROVE  Move(j)
<1>1. row \in [Requests -> Row]
  BY DEF LeaseInv, TypeOK
<1>2. ASSUME NEW k \in Requests,
             \/ row' = [row EXCEPT ![k].due = TRUE]
             \/ \E b \in BOOLEAN : row' = [row EXCEPT ![k].live = b]
      PROVE  Move(j)
  <2>1. SameLease(row'[j], row[j])
    BY <1>1, <1>2, OtherColumns, Zenon
  <2> QED
    BY <2>1, SameLeaseKept DEF Move
<1>3. CASE UNCHANGED row
  BY <1>3 DEF Move, Kept
<1>4. ASSUME NEW w \in Workers, Heartbeat(w) PROVE Move(j)
  <2>1. PICK k \in Requests : row' = [row EXCEPT ![k].live = TRUE]
    BY <1>4 DEF Heartbeat, Fenced
  <2> QED
    BY <1>2, <2>1
<1>5. ASSUME NEW k \in Requests,
             LeaseExpires(k) \/ BackoffElapses(k) \/ LeaseLapses(k)
      PROVE  Move(j)
  BY <1>2, <1>5 DEF LeaseExpires, BackoffElapses, LeaseLapses
<1>6. ASSUME NEW k \in Requests, Purge(k) PROVE Move(j)
  <2> DEFINE d == [AbsentRow EXCEPT !.status = "DELETED"]
  <2>1. d.status = "DELETED" /\ d.attempts = 0 /\ d.by = 0
    BY NewColumns
  <2>2. row' = [row EXCEPT ![k] = d] /\ row[k].status \in Settled
    BY <1>6 DEF Purge
  <2> HIDE DEF d
  <2> QED
    BY <1>1, <2>1, <2>2 DEF Move, Kept, Purged
<1>7. ASSUME NEW w \in Workers, Crash(w) \/ CompleteThrows(w) \/ FailThrows(w)
      PROVE  UNCHANGED row
  BY <1>7 DEF Crash, CompleteThrows, FailThrows
<1>8. CASE Next
  BY <1>3, <1>4, <1>5, <1>6, <1>7, <1>8, EnqueueMoves, WorkMoves DEF Next
<1>9. CASE UNCHANGED vars
  BY <1>3, <1>9 DEF vars
<1> QED
  BY <1>8, <1>9

-----------------------------------------------------------------------------
(* The refinement                                                          *)

(* The item of a row, column by column.                                    *)
LEMMA ItemOf ==
    ASSUME NEW j \in Requests
    PROVE  LeaseItem[j] = [phase  |-> PhaseOf(row[j].status),
                           holder |-> row[j].attempts,
                           closer |-> row[j].by]
  BY DEF LeaseItem

(* The phases of the statuses.                                             *)
LEMMA Phases ==
    /\ PhaseOf("ABSENT") = "absent"
    /\ PhaseOf("DELETED") = "gone"
    /\ \A s \in Outstanding : PhaseOf(s) = "open"
    /\ \A s \in Settled : PhaseOf(s) = "closed"
  BY DEF PhaseOf, Outstanding, Settled

LEMMA ItemTyped ==
    TypeOK => LeaseItem \in [Requests -> Lease!Item]
  <1> SUFFICES ASSUME TypeOK PROVE LeaseItem \in [Requests -> Lease!Item]
    OBVIOUS
  <1>1. ASSUME NEW j \in Requests
        PROVE  LeaseItem[j] \in Lease!Item
    <2>1. row[j].status \in Status /\ row[j].attempts \in Nat /\ row[j].by \in Nat
      BY DEF TypeOK, Row
    <2>2. PhaseOf(row[j].status) \in {"absent", "open", "closed", "gone"}
      BY <2>1, Phases DEF Status
    <2>3. row[j].attempts \in (Nat \ {0}) \cup {0}
          /\ row[j].by \in (Nat \ {0}) \cup {0}
      BY <2>1
    <2>4. \A p \in {"absent", "open", "closed", "gone"} :
             \A h, c \in (Nat \ {0}) \cup {0} :
                [phase |-> p, holder |-> h, closer |-> c] \in Lease!Item
      BY DEF Lease!Item
    <2> QED
      BY <2>2, <2>3, <2>4, ItemOf
  <1>2. LeaseItem = [j \in Requests |-> LeaseItem[j]]
    BY DEF LeaseItem
  <1> QED
    BY <1>1, <1>2

(* A move of a row is a step of its item or leaves it as it is.            *)
LEMMA MoveIsStep ==
    ASSUME LeaseInv, NEW j \in Requests, Move(j),
           LeaseItem'[j] = [phase  |-> PhaseOf(row'[j].status),
                            holder |-> row'[j].attempts,
                            closer |-> row'[j].by]
    PROVE  LeaseItem'[j] = LeaseItem[j] \/ Lease!Step(LeaseItem[j], LeaseItem'[j])
<1> DEFINE s == LeaseItem[j]
           t == LeaseItem'[j]
<1>1. s = [phase |-> PhaseOf(row[j].status), holder |-> row[j].attempts,
           closer |-> row[j].by]
  BY ItemOf
<1>2. /\ s.phase = PhaseOf(row[j].status) /\ s.holder = row[j].attempts
      /\ s.closer = row[j].by
      /\ t.phase = PhaseOf(row'[j].status) /\ t.holder = row'[j].attempts
      /\ t.closer = row'[j].by
  BY <1>1
<1>3. row[j].attempts \in Nat
  BY DEF LeaseInv, TypeOK, Row
<1>4. CASE Kept(j)
  <2>1. PhaseOf(row'[j].status) = PhaseOf(row[j].status)
    BY <1>4, Phases DEF Kept
  <2> QED
    BY <1>1, <1>4, <2>1 DEF Kept
<1>5. CASE Inserted(j)
  BY <1>2, <1>5, Phases DEF Inserted, Lease!Step, Lease!Opened, Outstanding
<1>6. CASE Leased(j)
  <2>1. PhaseOf(row[j].status) = "open" /\ PhaseOf(row'[j].status) = "open"
    BY <1>6, Phases DEF Leased, Outstanding
  <2>2. t.holder \in Nat \ {0}
    BY <1>2, <1>3, <1>6 DEF Leased
  <2> QED
    BY <1>2, <1>6, <2>1, <2>2 DEF Leased, Lease!Step, Lease!Taken
<1>7. CASE Finished(j)
  <2>1. PhaseOf(row[j].status) = "open" /\ PhaseOf(row'[j].status) = "closed"
    BY <1>7, Phases DEF Finished
  <2>2. t = [s EXCEPT !.phase = "closed", !.closer = s.holder]
    BY <1>1, <1>2, <1>7, <2>1, Zenon DEF Finished
  <2>3. s.holder \in Nat \ {0}
    BY <1>2, <1>3, <1>7 DEF Finished
  <2> QED
    BY <1>2, <2>1, <2>2, <2>3 DEF Lease!Step, Lease!Closed
<1>8. CASE Purged(j)
  <2>1. PhaseOf(row[j].status) = "closed" /\ PhaseOf(row'[j].status) = "gone"
    BY <1>8, Phases DEF Purged
  <2>2. t = Lease!Blank("gone")
    BY <1>8, <2>1 DEF Purged, Lease!Blank
  <2> QED
    BY <1>2, <2>1, <2>2 DEF Lease!Step, Lease!Forgotten
<1> QED
  BY <1>4, <1>5, <1>6, <1>7, <1>8 DEF Move

LEMMA RefinedInit == Init => Lease!LInit
  <1> SUFFICES ASSUME Init PROVE LeaseItem = [j \in Requests |-> Lease!Blank("absent")]
    BY DEF Lease!LInit
  <1>1. \A j \in Requests : /\ row[j].status = "ABSENT"
                            /\ row[j].attempts = 0 /\ row[j].by = 0
    BY DEF Init, AbsentRow
  <1> QED
    BY <1>1, Phases DEF LeaseItem, Lease!Blank

LEMMA RefinedStep ==
    LeaseInv /\ LeaseInv' /\ [Next]_vars => [Lease!LNext]_LeaseItem
  <1> SUFFICES ASSUME LeaseInv, LeaseInv', [Next]_vars
               PROVE  Lease!LNext
    OBVIOUS
  <1>1. (LeaseItem \in [Requests -> Lease!Item])'
    BY ItemTyped, PTL DEF LeaseInv
  <1>2. ASSUME NEW j \in Requests
        PROVE  LeaseItem'[j] = LeaseItem[j]
               \/ Lease!Step(LeaseItem[j], LeaseItem'[j])
    <2>1. LeaseItem'[j] = [phase  |-> PhaseOf(row'[j].status),
                           holder |-> row'[j].attempts,
                           closer |-> row'[j].by]
      BY DEF LeaseItem, PhaseOf
    <2> QED
      BY <2>1, RowMoves, MoveIsStep
  <1> QED
    BY <1>1, <1>2 DEF Lease!LNext

(* The queue implements the durable-work pattern, for every set of         *)
(* requests, keys and workers: a job is closed once, by the lease that     *)
(* took it last, and a closed job is never run again.                      *)
THEOREM Refinement == Spec => ImplementsFencedLease
  BY RefinedInit, RefinedStep, LeaseInvariant, PTL
  DEF Spec, ImplementsFencedLease, Lease!LSpec

-----------------------------------------------------------------------------
(* While no lease is lost, a job runs alone                                *)

(* The worker's job shows its token under a live lease.                    *)
Owns(w) == /\ worker[w].job \in Requests
           /\ row[worker[w].job].token = worker[w].token
           /\ row[worker[w].job].live

Alone == \A v, w \in Workers :
            worker[v].pc \in Held /\ worker[w].pc \in Held
            /\ worker[v].job = worker[w].job => v = w

OwnerInv == faults = 0 => /\ \A w \in Workers : worker[w].pc \in Held => Owns(w)
                          /\ Alone

(* Rows under a live lease show the same lease after a write of row q's    *)
(* other columns.                                                          *)
LEMMA LiveColumns ==
    ASSUME NEW q \in Row
    PROVE  /\ LET p == [q EXCEPT !.live = TRUE] IN p.token = q.token /\ p.live = TRUE
           /\ LET p == [q EXCEPT !.due = TRUE] IN p.token = q.token /\ p.live = q.live
           /\ LET p == [q EXCEPT !.key = NoKey] IN p.token = q.token /\ p.live = q.live
           /\ \A s \in SUBSET Requests :
                LET p == [q EXCEPT !.payload = s, !.due = TRUE]
                IN  p.token = q.token /\ p.live = q.live
  BY Zenon DEF Row

(* A step that moves no worker keeps it if it keeps the leases in use.     *)
LEMMA OwnersKeep ==
    ASSUME OwnerInv, faults' = faults, worker' = worker,
           \A w \in Workers :
              worker[w].pc \in Held /\ Owns(w) =>
                 /\ row'[worker[w].job].token = row[worker[w].job].token
                 /\ row'[worker[w].job].live
    PROVE  OwnerInv'
  <1> SUFFICES ASSUME faults = 0 PROVE OwnerInv'
    BY DEF OwnerInv
  <1>1. Alone'
    BY DEF OwnerInv, Alone
  <1>2. ASSUME NEW w \in Workers, worker'[w].pc \in Held PROVE Owns(w)'
    <2>1. Owns(w)
      BY <1>2 DEF OwnerInv
    <2> QED
      BY <1>2, <2>1 DEF Owns
  <1> QED
    BY <1>1, <1>2 DEF OwnerInv

LEMMA EnqueueOwners ==
    ASSUME LeaseInv, OwnerInv, NEW r \in Requests, Enqueue(r)
    PROVE  OwnerInv'
<1>1. row \in [Requests -> Row] /\ client \in [Requests -> Client]
  BY DEF LeaseInv, TypeOK
<1>2. worker' = worker /\ faults' = faults
  BY DEF Enqueue, Widen, FindExisting, Fold, ReleaseKey, Create, CreateUnkeyed
<1>3. ASSUME NEW w \in Workers, worker[w].pc \in Held, Owns(w)
      PROVE  /\ row'[worker[w].job].token = row[worker[w].job].token
             /\ row'[worker[w].job].live
  <2> DEFINE j == worker[w].job
  <2>1. j \in Requests /\ row[j].live /\ row[j].token # 0
    BY <1>3 DEF Owns, LeaseInv, WorkerInv
  <2>2. row[j].status = "RUNNING"
    BY <2>1 DEF LeaseInv, RowInv
  <2> HIDE DEF j
  <2>3. CASE UNCHANGED row
    BY <2>1, <2>3 DEF j
  <2>4. CASE Fold(r)
    <3>1. client[r].payload \in SUBSET Requests
      BY <1>1 DEF Client
    <3>2. row'[j] = row[j] \/ row'[j] = [row[j] EXCEPT
                                  !.payload = client[r].payload, !.due = TRUE]
      BY <1>1, <2>1, <2>4 DEF Fold, FoldedRow
    <3>3. row[j] \in Row
      BY <1>1, <2>1
    <3> DEFINE p == [row[j] EXCEPT !.payload = client[r].payload, !.due = TRUE]
    <3>4. p.token = row[j].token /\ p.live = row[j].live
      BY <3>1, <3>3, LiveColumns
    <3> HIDE DEF p
    <3>5. row'[j] = row[j] \/ row'[j] = p
      BY <3>2 DEF p
    <3>6. row'[j].token = row[j].token /\ row'[j].live = row[j].live
      BY <3>4, <3>5, Zenon
    <3> QED
      BY <2>1, <3>6 DEF j
  <2>5. CASE ReleaseKey(r) /\ ~UNCHANGED row
    <3>1. row'[j] = row[j] \/ row'[j] = [row[j] EXCEPT !.key = NoKey]
      BY <1>1, <2>1, <2>5 DEF ReleaseKey
    <3>2. row[j] \in Row
      BY <1>1, <2>1
    <3>3. row'[j].token = row[j].token /\ row'[j].live = row[j].live
      BY <3>1, <3>2, LiveColumns, Zenon
    <3> QED
      BY <2>1, <3>3 DEF j
  <2>6. ASSUME NEW k, row' = [row EXCEPT ![r] = NewRow(client[r].payload, k)],
               client[r].pc # "accepted"
        PROVE  row'[j] = row[j]
    <3>1. j # r
      BY <2>2, <2>6 DEF LeaseInv, ClientInv
    <3> QED
      BY <1>1, <2>1, <2>6, <3>1
  <2> QED
    BY <2>1, <2>3, <2>4, <2>5, <2>6
       DEF Enqueue, Widen, FindExisting, Create, CreateUnkeyed, j
<1> QED
  BY <1>2, <1>3, OwnersKeep

(* What a worker's step to its next statement leaves in place.             *)
LEMMA WorkerMove ==
    ASSUME TypeOK, NEW w \in Workers, NEW c \in WorkerPC,
           worker' = [worker EXCEPT ![w].pc = c]
    PROVE  /\ worker'[w].pc = c
           /\ worker'[w].job = worker[w].job
           /\ worker'[w].token = worker[w].token
           /\ \A v \in Workers \ {w} : worker'[v] = worker[v]
  <1> DEFINE q == [worker[w] EXCEPT !.pc = c]
  <1>1. worker[w] \in Worker /\ worker' = [worker EXCEPT ![w] = q]
    BY DEF TypeOK
  <1>2. q.pc = c /\ q.job = worker[w].job /\ q.token = worker[w].token
    BY <1>1, WorkerColumns
  <1> HIDE DEF q
  <1> QED
    BY <1>1, <1>2 DEF TypeOK

LEMMA WorkOwners ==
    ASSUME LeaseInv, OwnerInv, NEW w \in Workers, Work(w)
    PROVE  OwnerInv'
<1>1. TypeOK /\ row \in [Requests -> Row] /\ worker \in [Workers -> Worker]
  BY DEF LeaseInv, TypeOK
<1>2. faults' = faults
  BY DEF Work, SelectCandidate, TryLease, HandlerReturns, HandlerThrows,
         Complete, Fail
<1> SUFFICES ASSUME faults = 0 PROVE OwnerInv'
  BY <1>2 DEF OwnerInv
<1>3. \A v \in Workers : worker[v].pc \in Held => Owns(v)
  BY DEF OwnerInv
<1>4. Alone
  BY DEF OwnerInv
<1>5. \A v \in Workers \ {w} : worker'[v] = worker[v]
  BY <1>1 DEF Work, SelectCandidate, TryLease, HandlerReturns, HandlerThrows,
              Complete, Fail
<1>6. IdleWorker.pc = "idle"
  BY DEF IdleWorker
<1>7. ASSUME UNCHANGED row, worker'[w].pc \notin Held
      PROVE  OwnerInv'
  BY <1>3, <1>4, <1>5, <1>7 DEF OwnerInv, Owns, Alone
<1>8. ASSUME NEW j \in Requests, SelectCandidate(w, j) PROVE OwnerInv'
  <2>1. worker'[w].pc = "lease" /\ UNCHANGED row
    BY <1>1, <1>8 DEF SelectCandidate
  <2> QED
    BY <1>7, <2>1 DEF Held
<1>9. ASSUME NEW j \in Requests, TryLease(w, j) PROVE OwnerInv'
  <2>1. CASE ~Claimable(j)
    <3>1. worker'[w] = IdleWorker /\ UNCHANGED row
      BY <1>1, <1>9, <2>1 DEF TryLease
    <3> QED
      BY <1>6, <1>7, <3>1 DEF Held
  <2>2. CASE Claimable(j)
    <3> DEFINE p == LeasedRow(j)
               t == row[j].attempts + 1
               q == [worker[w] EXCEPT !.pc = "run", !.token = t]
    <3>1. row' = [row EXCEPT ![j] = p] /\ worker' = [worker EXCEPT ![w] = q]
          /\ worker[w].job = j /\ ~row[j].live
      BY <1>9, <2>2 DEF TryLease, Claimable
    <3>2. p.token = t /\ p.live = TRUE
      BY <1>1, LeaseColumns
    <3>3. t \in Nat
      BY <1>1 DEF Row
    <3>4. worker[w] \in Worker
      BY <1>1
    <3> HIDE DEF t, p
    <3>5. q.pc = "run" /\ q.job = worker[w].job /\ q.token = t
      BY <3>3, <3>4, WorkerColumns DEF WorkerPC
    <3> HIDE DEF q
    <3>6. \A v \in Workers : worker[v].pc \in Held => worker[v].job # j
      BY <1>3, <3>1 DEF Owns
    <3>7. /\ worker'[w].pc = "run" /\ worker'[w].job = j
          /\ worker'[w].token = t
          /\ row'[j].token = t /\ row'[j].live
      BY <1>1, <3>1, <3>2, <3>5
    <3>8. \A k \in Requests \ {j} : row'[k] = row[k]
      BY <1>1, <3>1
    <3>9. \A v \in Workers : worker'[v].pc \in Held => Owns(v)'
      BY <1>3, <1>5, <3>6, <3>7, <3>8 DEF Owns
    <3>10. Alone'
      BY <1>4, <1>5, <3>6, <3>7 DEF Alone
    <3> QED
      BY <3>9, <3>10 DEF OwnerInv
  <2> QED
    BY <2>1, <2>2
<1>10. CASE HandlerReturns(w) \/ HandlerThrows(w)
  <2>1. UNCHANGED row /\ worker[w].pc = "run"
    BY <1>10 DEF HandlerReturns, HandlerThrows
  <2>2. PICK c \in {"complete", "fail"} : worker' = [worker EXCEPT ![w].pc = c]
    BY <1>10 DEF HandlerReturns, HandlerThrows
  <2>3. worker'[w].job = worker[w].job /\ worker'[w].token = worker[w].token
    BY <1>1, <2>2, WorkerMove DEF WorkerPC
  <2>4. \A v \in Workers : /\ worker'[v].pc \in Held => worker[v].pc \in Held
                           /\ worker'[v].job = worker[v].job
                           /\ worker'[v].token = worker[v].token
    BY <1>5, <2>1, <2>3 DEF Held
  <2> QED
    BY <1>3, <1>4, <2>1, <2>4 DEF OwnerInv, Owns, Alone
<1>11. CASE Complete(w) \/ Fail(w)
  <2>1. /\ worker[w].pc \in Held /\ worker'[w] = IdleWorker
        /\ \A k \in Requests : k # worker[w].job => row'[k] = row[k]
    BY <1>1, <1>11 DEF Complete, Fail, Held, Fenced
  <2>2. \A v \in Workers : worker'[v].pc \in Held =>
           /\ v # w /\ worker[v].pc \in Held /\ worker'[v] = worker[v]
    BY <1>5, <1>6, <2>1 DEF Held
  <2>3. ASSUME NEW v \in Workers, worker'[v].pc \in Held PROVE Owns(v)'
    <3>1. worker[v].job # worker[w].job /\ Owns(v)
      BY <1>3, <1>4, <2>1, <2>2, <2>3 DEF Alone
    <3> QED
      BY <2>1, <2>2, <2>3, <3>1 DEF Owns
  <2>4. Alone'
    BY <1>4, <2>2 DEF Alone
  <2> QED
    BY <2>3, <2>4 DEF OwnerInv
<1> QED
  BY <1>8, <1>9, <1>10, <1>11 DEF Work

(* Heartbeats, the clock and the purge leave the leases in use alone.      *)
LEMMA TimeOwners ==
    ASSUME LeaseInv, OwnerInv,
           \/ \E w \in Workers : Heartbeat(w)
           \/ \E j \in Requests : LeaseExpires(j) \/ BackoffElapses(j) \/ Purge(j)
    PROVE  OwnerInv'
<1>1. row \in [Requests -> Row]
  BY DEF LeaseInv, TypeOK
<1>2. worker' = worker /\ faults' = faults
  BY DEF Heartbeat, LeaseExpires, BackoffElapses, Purge
<1>3. ASSUME NEW j \in Requests,
             \A w \in Workers : worker[w].pc \in Held /\ Owns(w)
                                => worker[w].job # j,
             \A k \in Requests \ {j} : row'[k] = row[k]
      PROVE  OwnerInv'
  BY <1>2, <1>3, OwnersKeep DEF Owns
<1>4. ASSUME NEW j \in Requests,
             \/ row' = [row EXCEPT ![j].live = TRUE]
             \/ row' = [row EXCEPT ![j].due = TRUE]
      PROVE  OwnerInv'
  <2>1. \A k \in Requests \ {j} : row'[k] = row[k]
    BY <1>1, <1>4
  <2>2. row'[j].token = row[j].token /\ (row[j].live => row'[j].live)
    <3>1. row[j] \in Row
      BY <1>1
    <3>2. row'[j] = [row[j] EXCEPT !.live = TRUE]
          \/ row'[j] = [row[j] EXCEPT !.due = TRUE]
      BY <1>1, <1>4
    <3> QED
      BY <3>1, <3>2, LiveColumns, Zenon
  <2> QED
    BY <1>2, <2>1, <2>2, OwnersKeep DEF Owns
<1>5. ASSUME NEW w \in Workers, Heartbeat(w) PROVE OwnerInv'
  BY <1>4, <1>5 DEF Heartbeat, Fenced
<1>6. ASSUME NEW j \in Requests, LeaseExpires(j) PROVE OwnerInv'
  <2>1. \A w \in Workers : worker[w].pc \in Held /\ Owns(w)
                          => worker[w].job # j
    BY <1>6 DEF LeaseExpires, Owned, Fenced, Owns, Held
  <2> QED
    BY <1>1, <1>3, <1>6, <2>1 DEF LeaseExpires
<1>7. ASSUME NEW j \in Requests, BackoffElapses(j) PROVE OwnerInv'
  BY <1>4, <1>7 DEF BackoffElapses
<1>8. ASSUME NEW j \in Requests, Purge(j) PROVE OwnerInv'
  BY <1>1, <1>3, <1>8 DEF Purge
<1> QED
  BY <1>5, <1>6, <1>7, <1>8

LEMMA OwnerStep == LeaseInv /\ OwnerInv /\ [Next]_vars => OwnerInv'
<1> SUFFICES ASSUME LeaseInv, OwnerInv, [Next]_vars PROVE OwnerInv'
  OBVIOUS
<1>1. ASSUME \/ \E w \in Workers : Crash(w) \/ CompleteThrows(w) \/ FailThrows(w)
             \/ \E j \in Requests : LeaseLapses(j)
      PROVE  OwnerInv'
  <2>1. faults' = faults + 1 /\ faults \in Nat
    BY <1>1 DEF Crash, CompleteThrows, FailThrows, LeaseLapses, Fault,
                LeaseInv, TypeOK
  <2>2. faults' # 0
    BY <2>1
  <2> QED
    BY <2>2 DEF OwnerInv
<1>2. CASE UNCHANGED vars
  BY <1>2 DEF vars, OwnerInv, Owns, Alone
<1> QED
  BY <1>1, <1>2, EnqueueOwners, WorkOwners, TimeOwners DEF Next

(* While no process dies and no lease is lost, no two processes ever run   *)
(* one job at once: the compare-and-set under the lease is enough.         *)
THEOREM HealthyJobsRunAlone == Spec => []HealthyJobRunsAlone
<1>1. Init => OwnerInv
  BY DEF Init, OwnerInv, IdleWorker, Held, Alone
<1>2. OwnerInv => HealthyJobRunsAlone
  BY DEF OwnerInv, HealthyJobRunsAlone, Alone, Held
<1> QED
  BY <1>1, <1>2, OwnerStep, LeaseInvariant, PTL DEF Spec

-----------------------------------------------------------------------------
(***************************************************************************)
(* Part 2: the restatement a job runs                                      *)
(***************************************************************************)

-----------------------------------------------------------------------------
(* What each write leaves in the records                                   *)

LEMMA Calendar ==
    /\ LastMonth \in Nat \ {0} /\ Trading \subseteq Months
    /\ 1 \in Months /\ Months \subseteq Nat
    /\ Zero \in ByMonth /\ Zero \in Figures
  BY CalendarAssumption DEF Months, Zero, ByMonth, Figures

(* Writes of columns keep a job within its columns' types.                 *)
LEMMA JobWrites ==
    ASSUME NEW q \in Job
    PROVE  /\ \A b \in BOOLEAN : [q EXCEPT !.keyed = b] \in Job
           /\ [q EXCEPT !.status = "queued"] \in Job
           /\ [q EXCEPT !.status = "failed", !.keyed = FALSE] \in Job
           /\ [q EXCEPT !.status = "complete", !.keyed = FALSE] \in Job
           /\ \A f \in Months, b \in BOOLEAN :
                [q EXCEPT !.from = f, !.inc = b] \in Job
           /\ LeasedJob(q) \in Job
  <1>1. /\ \A b \in BOOLEAN : [q EXCEPT !.keyed = b] \in Job
        /\ [q EXCEPT !.status = "queued"] \in Job
    BY DEF Job
  <1>2. /\ [q EXCEPT !.status = "failed", !.keyed = FALSE] \in Job
        /\ [q EXCEPT !.status = "complete", !.keyed = FALSE] \in Job
    BY DEF Job
  <1>3. \A f \in Months, b \in BOOLEAN : [q EXCEPT !.from = f, !.inc = b] \in Job
    BY Zenon DEF Job
  <1>4. LeasedJob(q) \in Job
    <2>1. q.attempts + 1 \in Nat /\ "running" \in
            {"absent", "queued", "running", "complete", "failed"}
      BY DEF Job
    <2>2. LeasedJob(q) = [q EXCEPT !.status = "running",
                                   !.attempts = q.attempts + 1]
      BY DEF LeasedJob
    <2>3. \A a \in Nat : [q EXCEPT !.status = "running", !.attempts = a]
                           \in Job
      BY <2>1, Zenon DEF Job
    <2> QED
      BY <2>1, <2>2, <2>3
  <1> QED
    BY <1>1, <1>2, <1>3, <1>4

(* What a call reads and widens is within the columns' types.              *)
LEMMA AskReads ==
    ASSUME RestateTypeOK, NEW c \in Calls
    PROVE  /\ \A e \in KeyHolder : e \in Calls \cup {0} /\ RowOf(e) \in Job
           /\ asking[c] \in Call /\ asking[c].ask \in Ask
           /\ WidenedFrom(c) \in Months /\ asking[c].ask.from \in Months
           /\ asking[c].ask.inc \in BOOLEAN
           /\ \A b \in BOOLEAN : NewJob(c, b) \in Job
           /\ NoJob \in Job /\ IdleCall \in Call
           /\ [IdleCall EXCEPT !.pc = "accepted"] \in Call
  <1>1. NoJob \in Job
    BY Calendar DEF NoJob, Job
  <1>2. job \in [Calls -> Job] /\ asking[c] \in Call
    BY DEF RestateTypeOK
  <1>3. \A e \in KeyHolder : e \in Calls \cup {0} /\ RowOf(e) \in Job
    BY <1>1, <1>2 DEF KeyHolder, RowOf
  <1>4. /\ asking[c].ask \in Ask /\ asking[c].seen \in Job
        /\ asking[c].ask.from \in Months /\ asking[c].ask.inc \in BOOLEAN
    BY <1>2 DEF Call, Ask
  <1>5. WidenedFrom(c) \in Months
    BY <1>4 DEF WidenedFrom, Earlier, Job
  <1>6. \A b \in BOOLEAN : NewJob(c, b) \in Job
    BY <1>4, <1>5 DEF NewJob, Job
  <1>7. IdleCall \in Call /\ [IdleCall EXCEPT !.pc = "accepted"] \in Call
    BY <1>1, Calendar DEF IdleCall, Call, CallPC, Ask, NoAsk
  <1> QED
    BY <1>1, <1>2, <1>3, <1>4, <1>5, <1>6, <1>7

(* Writes of the worker's variables keep it within their types.            *)
LEMMA WorkWrites ==
    ASSUME NEW q \in Runner
    PROVE  /\ \A c \in WorkPC : [q EXCEPT !.pc = c] \in Runner
           /\ \A c \in WorkPC, f \in Figures :
                /\ [q EXCEPT !.pc = c, !.reported = f] \in Runner
                /\ [q EXCEPT !.pc = c, !.before = f] \in Runner
                /\ [q EXCEPT !.pc = c, !.after = f] \in Runner
           /\ \A c \in WorkPC, s \in SUBSET Months :
                [q EXCEPT !.pc = c, !.affected = s] \in Runner
           /\ \A s \in SUBSET Months : [q EXCEPT !.affected = s] \in Runner
           /\ \A c \in WorkPC, m \in Months :
                [q EXCEPT !.pc = c, !.month = m] \in Runner
           /\ \A c \in WorkPC, j \in Job :
                [q EXCEPT !.pc = c, !.job = j] \in Runner
           /\ \A c \in WorkPC, i \in Calls, j \in Job :
                [q EXCEPT !.pc = c, !.id = i, !.job = j] \in Runner
  BY Zenon DEF Runner

LEMMA IdleTyped == NoJob \in Job /\ IdleWork \in Runner
  <1>1. NoJob \in Job
    BY Calendar DEF NoJob, Job
  <1>2. Zero \in Figures /\ "idle" \in WorkPC /\ {} \in SUBSET Months
    BY Calendar DEF WorkPC
  <1> QED
    BY <1>1, <1>2, Calendar DEF IdleWork, Runner

(* A month's snapshot, frozen, closed, reopened or counted.                *)
LEMMA FrozenTyped ==
    ASSUME RestateTypeOK, NEW months, NEW figures \in ByMonth
    PROVE  Frozen(months, figures) \in [Months -> Snapshot]
  <1>1. ASSUME NEW m \in Months
        PROVE  [snap[m] EXCEPT !.kept = TRUE, !.cogs = figures[m]] \in Snapshot
    <2>1. snap[m] \in Snapshot
      BY DEF RestateTypeOK
    <2>2. figures[m] \in Nat /\ TRUE \in BOOLEAN
      BY DEF ByMonth
    <2> QED
      BY <2>1, <2>2, Zenon DEF Snapshot
  <1> QED
    BY <1>1 DEF Frozen, RestateTypeOK

-----------------------------------------------------------------------------
(* Type correctness                                                        *)

(* Spending is typed, whatever it is for.                                  *)
LEMMA SpendTyped ==
    ASSUME RestateTypeOK, NEW k \in Causes, Spend(k)
    PROVE  budget' \in [Causes -> Nat] /\ spent' \in [Causes -> Nat]
  BY DEF RestateTypeOK, Spend

LEMMA RestateTypeInit == RestateInit => RestateTypeOK
  <1> SUFFICES ASSUME RestateInit
               PROVE  RestateTypeOK
    OBVIOUS
  <1>1. work \in Runner
    BY IdleTyped DEF RestateInit
  <1>2. snap \in [Months -> Snapshot] /\ log \in [Months -> Seq(Record)]
    BY DEF RestateInit, Snapshot
  <1>3. budget \in [Causes -> Nat] /\ spent \in [Causes -> Nat]
    BY BudgetsAssumption DEF RestateInit
  <1>4. job \in [Calls -> Job]
    BY IdleTyped DEF RestateInit
  <1>5. asking \in [Calls -> Call]
    <2>1. IdleCall \in Call
      BY IdleTyped, Calendar DEF IdleCall, Call, CallPC, Ask, NoAsk
    <2> QED
      BY <2>1 DEF RestateInit
  <1> QED
    BY <1>1, <1>2, <1>3, <1>4, <1>5, Calendar
    DEF RestateInit, RestateTypeOK, IdleRun, NoClosing

(* What the calls of enqueueRestatement leave alone.                       *)
LEMMA AskTouches ==
    ASSUME NEW c \in Calls, RequestRestatement(c)
    PROVE  UNCHANGED <<basis, line, ledger, snap, log, work, rc, closing, moved>>
  BY DEF RequestRestatement, WidenAsk, FindHolder, FoldAsk, ReleaseHolder,
         CreateJob, CreateKeyless, books

LEMMA AskTyped ==
    ASSUME RestateTypeOK, NEW c \in Calls, RequestRestatement(c)
    PROVE  RestateTypeOK'
  <1>j. job \in [Calls -> Job] /\ asking \in [Calls -> Call]
    BY DEF RestateTypeOK
  <1>c. /\ asking[c].ask \in Ask /\ asking[c].seen \in Job
        /\ asking[c].existing \in Calls \cup {0}
    BY <1>j DEF Call
  <1>1. ASSUME asking' \in [Calls -> Call], job' \in [Calls -> Job],
               owed' \in ByMonth, crossed' \in BOOLEAN,
               budget' \in [Causes -> Nat], spent' \in [Causes -> Nat]
        PROVE  RestateTypeOK'
    BY <1>1, AskTouches DEF RestateTypeOK
  <1>2. ASSUME Accept(c)
        PROVE  asking' \in [Calls -> Call] /\ owed' \in ByMonth
    <2>1. asking' \in [Calls -> Call]
      BY <1>2, <1>j, AskReads DEF Accept
    <2>2. basis \in [Months -> Nat] /\ owed \in [Months -> Nat]
      BY Zenon DEF RestateTypeOK, ByMonth
    <2>3. owed' \in ByMonth
      BY <1>2, <2>2 DEF Accept, ByMonth
    <2> QED
      BY <2>1, <2>3
  <1>3. ASSUME NEW ask \in Ask, WidenAsk(c, ask)
        PROVE  RestateTypeOK'
    <2>1. \A e \in KeyHolder : [pc |-> "find", ask |-> ask, seen |-> RowOf(e),
                                existing |-> 0] \in Call
      BY AskReads DEF Call, CallPC
    <2>2. asking' \in [Calls -> Call]
      BY <1>3, <1>j, <2>1 DEF WidenAsk
    <2> QED
      BY <1>1, <1>3, <2>2, SpendTyped DEF WidenAsk, RestateTypeOK, Causes
  <1>4. CASE FindHolder(c)
    <2>1. ASSUME NEW e \in KeyHolder, NEW p \in CallPC
          PROVE  [asking[c] EXCEPT !.existing = e, !.pc = p] \in Call
      BY <1>j, AskReads DEF Call
    <2>2. \A e \in KeyHolder : (IF e = 0 THEN "create"
                                ELSE IF job[e].status = "queued"
                                THEN "fold" ELSE "release") \in CallPC
      BY DEF CallPC
    <2>3. asking' \in [Calls -> Call]
      <3>1. PICK e \in KeyHolder :
              asking' = [asking EXCEPT ![c] =
                           [asking[c] EXCEPT !.existing = e,
                              !.pc = IF e = 0 THEN "create"
                                     ELSE IF job[e].status = "queued"
                                     THEN "fold" ELSE "release"]]
        BY <1>4 DEF FindHolder
      <3> DEFINE p == IF e = 0 THEN "create"
                      ELSE IF job[e].status = "queued" THEN "fold"
                      ELSE "release"
      <3>2. p \in CallPC
        BY <2>2
      <3>3. asking' = [asking EXCEPT ![c] = [asking[c] EXCEPT !.existing = e,
                                                            !.pc = p]]
        BY <3>1
      <3> HIDE DEF p
      <3> QED
        BY <1>j, <2>1, <3>2, <3>3
    <2> QED
      BY <1>1, <1>4, <2>3 DEF FindHolder, RestateTypeOK
  <1>5. CASE FoldAsk(c)
    <2>1. job' \in [Calls -> Job]
      <3>1. \A e \in Calls : [job[e] EXCEPT !.from = WidenedFrom(c),
                                           !.inc = asking[c].ask.inc] \in Job
        BY <1>j, AskReads, JobWrites
      <3> DEFINE e == asking[c].existing
      <3>2. job' = [job EXCEPT ![e] = [job[e] EXCEPT !.from = WidenedFrom(c),
                                                 !.inc = asking[c].ask.inc]]
        BY <1>5 DEF FoldAsk
      <3> HIDE DEF e
      <3> QED
        BY <1>j, <3>1, <3>2
    <2>2. crossed' \in BOOLEAN
      BY <1>5 DEF FoldAsk, RestateTypeOK
    <2> QED
      BY <1>1, <1>2, <1>5, <2>1, <2>2 DEF FoldAsk, RestateTypeOK
  <1>6. CASE ReleaseHolder(c)
    <2>1. job' \in [Calls -> Job]
      <3>1. \A e \in Calls : [job[e] EXCEPT !.keyed = FALSE] \in Job
        BY <1>j, JobWrites
      <3> QED
        BY <1>6, <1>j, <3>1 DEF ReleaseHolder
    <2>2. asking' \in [Calls -> Call]
      <3>1. [asking[c] EXCEPT !.pc = "create"] \in Call
        BY <1>j DEF Call, CallPC
      <3> QED
        BY <1>6, <1>j, <3>1 DEF ReleaseHolder
    <2> QED
      BY <1>1, <1>6, <2>1, <2>2 DEF ReleaseHolder, RestateTypeOK
  <1>7. CASE CreateJob(c)
    <2>1. [asking[c] EXCEPT !.pc = "create_unkeyed"] \in Call
      BY <1>j DEF Call, CallPC
    <2>2. [job EXCEPT ![c] = NewJob(c, TRUE)] \in [Calls -> Job]
      BY <1>j, AskReads
    <2> QED
      BY <1>1, <1>2, <1>7, <1>j, <2>1, <2>2 DEF CreateJob, RestateTypeOK
  <1>8. CASE CreateKeyless(c)
    <2>1. [job EXCEPT ![c] = NewJob(c, FALSE)] \in [Calls -> Job]
      BY <1>j, AskReads
    <2> QED
      BY <1>1, <1>2, <1>8, <1>j, <2>1 DEF CreateKeyless, RestateTypeOK
  <1> QED
    BY <1>3, <1>4, <1>5, <1>6, <1>7, <1>8 DEF RequestRestatement

LEMMA MerchantTyped ==
    ASSUME RestateTypeOK, Merchant
    PROVE  RestateTypeOK'
  <1> USE Calendar
  <1>1. ASSUME NEW m \in Months, EditCost(m)
        PROVE  RestateTypeOK'
    <2>1. basis' \in ByMonth
      <3>1. \A n \in Months : basis[n] \in Nat /\ basis[n] + 1 \in Nat
        <4>1. basis \in [Months -> Nat]
          BY Zenon DEF RestateTypeOK, ByMonth
        <4> QED
          BY <4>1
      <3>2. basis' = [n \in Months |->
                        IF n >= m THEN basis[n] + 1 ELSE basis[n]]
        BY <1>1, Zenon DEF EditCost
      <3> QED
        BY <3>1, <3>2 DEF ByMonth
    <2> QED
      BY <1>1, <2>1, SpendTyped DEF EditCost, RestateTypeOK, Causes
  <1>2. ASSUME NEW m \in Months, CloseRead(m)
        PROVE  RestateTypeOK'
    BY <1>2, SpendTyped DEF CloseRead, RestateTypeOK, Causes, ByMonth, books
  <1>3. ASSUME NEW m \in Months, ReopenPeriod(m)
        PROVE  RestateTypeOK'
    <2>1. snap' \in [Months -> Snapshot]
      BY <1>3 DEF ReopenPeriod, RestateTypeOK, Snapshot
    <2> QED
      BY <1>3, <2>1, SpendTyped DEF ReopenPeriod, RestateTypeOK, Causes, books
  <1>4. ASSUME NEW c \in Calls, RequestRestatement(c)
        PROVE  RestateTypeOK'
    BY <1>4, AskTyped
  <1>5. ASSUME CloseFreeze
        PROVE  RestateTypeOK'
    <2>1. [Zero EXCEPT ![closing.month] = closing.value] \in ByMonth
      BY DEF RestateTypeOK, ByMonth
    <2>2. snap' \in [Months -> Snapshot]
      BY <1>5, <2>1, FrozenTyped DEF CloseFreeze
    <2> QED
      BY <1>5, <2>2 DEF CloseFreeze, RestateTypeOK, books
  <1>6. ASSUME CloseLock
        PROVE  RestateTypeOK'
    <2>1. snap' \in [Months -> Snapshot]
      BY <1>6 DEF CloseLock, RestateTypeOK, Snapshot
    <2> QED
      BY <1>6, <2>1 DEF CloseLock, RestateTypeOK, NoClosing, books
  <1> QED
    BY <1>1, <1>2, <1>3, <1>4, <1>5, <1>6 DEF Merchant

(* A step of the worker leaves the worker typed; the rest is next to it.   *)
LEMMA RunJobTyped ==
    ASSUME RestateTypeOK, RunJob
    PROVE  RestateTypeOK'
  <1> USE Calendar
  <1>w. work \in Runner /\ work.job \in Job
    BY DEF RestateTypeOK, Runner
  <1>l. ledger \in Figures
    BY DEF RestateTypeOK, Figures, ByMonth
  <1>c. \A c \in WorkPC : [work EXCEPT !.pc = c] \in Runner
    BY <1>w, WorkWrites
  <1>j. job \in [Calls -> Job]
    BY DEF RestateTypeOK
  <1>s. ASSUME NEW status \in {"complete", "failed"}, Settle(status)
        PROVE  job' \in [Calls -> Job] /\ work' \in Runner
    <2>1. \A c \in Calls : [job[c] EXCEPT !.status = status, !.keyed = FALSE]
                             \in Job
      BY <1>j, JobWrites
    <2> DEFINE i == work.id
    <2>2. job' = [job EXCEPT ![i] = [job[i] EXCEPT !.status = status,
                                                 !.keyed = FALSE]]
      BY <1>s DEF Settle
    <2> HIDE DEF i
    <2>3. job' \in [Calls -> Job]
      BY <1>j, <2>1, <2>2
    <2> QED
      BY <1>s, <2>3, IdleTyped DEF Settle
  <1>1. ASSUME NEW c \in Calls, SelectJob(c)
        PROVE  RestateTypeOK'
    <2>1. work' \in Runner
      BY <1>1, <1>j, IdleTyped, WorkWrites DEF SelectJob, WorkPC
    <2> QED
      BY <1>1, <2>1 DEF SelectJob, RestateTypeOK, books
  <1>14. ASSUME LeaseJob
         PROVE  RestateTypeOK'
    <2>1. work' \in Runner
      <3>1. LeasedJob(work.job) \in Job
        BY <1>w, JobWrites
      <3> QED
        BY <1>14, <1>w, <3>1, WorkWrites DEF LeaseJob, WorkPC
    <2>2. job' \in [Calls -> Job]
      <3>1. \A c \in Calls : LeasedJob(job[c]) \in Job
        BY <1>j, JobWrites
      <3> QED
        BY <1>14, <1>j, <3>1 DEF LeaseJob
    <2>3. crossed' \in BOOLEAN
      BY <1>14 DEF LeaseJob, RestateTypeOK
    <2> QED
      BY <1>14, <2>1, <2>2, <2>3 DEF LeaseJob, RestateTypeOK, books
  <1>2. ASSUME CheckClosed
        PROVE  RestateTypeOK'
    <2>1. work' \in Runner /\ job' \in [Calls -> Job]
      <3>1. CASE Settle("failed")
        BY <1>s, <3>1
      <3>2. CASE /\ job' = [job EXCEPT ![work.id].status = "queued"]
                 /\ work' = IdleWork
        <4>1. \A c \in Calls : [job[c] EXCEPT !.status = "queued"] \in Job
          BY <1>j, JobWrites
        <4> QED
          BY <1>j, <3>2, <4>1, IdleTyped
      <3>3. CASE Goto("report") /\ UNCHANGED job
        BY <1>c, <1>j, <3>3 DEF Goto, WorkPC
      <3> QED
        BY <1>2, <3>1, <3>2, <3>3 DEF CheckClosed, Refuse
    <2> QED
      BY <1>2, <2>1 DEF CheckClosed, RestateTypeOK, books
  <1>3. ASSUME ReadReported
        PROVE  RestateTypeOK'
    <2>1. work' \in Runner
      BY <1>3, <1>w, <1>l, WorkWrites DEF ReadReported, WorkPC
    <2> QED
      BY <1>3, <2>1 DEF ReadReported, RestateTypeOK, Runner, books
  <1>4. ASSUME Freeze
        PROVE  RestateTypeOK'
    <2>1. snap' \in [Months -> Snapshot]
      BY <1>4, <1>w, FrozenTyped DEF Freeze, Runner, Figures, ByMonth
    <2>2. work' \in Runner
      BY <1>4, <1>c DEF Freeze, Goto, WorkPC
    <2> QED
      BY <1>4, <2>1, <2>2 DEF Freeze, RestateTypeOK, Runner, books
  <1>5. ASSUME CountPending
        PROVE  RestateTypeOK'
    <2>1. work' \in Runner /\ job' \in [Calls -> Job]
      BY <1>5, <1>c, <1>j, <1>s DEF CountPending, Goto, WorkPC
    <2> QED
      BY <1>5, <2>1 DEF CountPending, RestateTypeOK, books
  <1>6. ASSUME NEW pc, NEW wait \in WorkPC, AwaitRecompute(pc, wait)
        PROVE  RestateTypeOK'
    <2>1. work' \in Runner
      BY <1>6, <1>c DEF AwaitRecompute, Goto
    <2>2. rc' \in [pc : {"idle", "load", "write"}, month : Months, value : Nat]
      BY <1>6 DEF AwaitRecompute, StartRun, RestateTypeOK
    <2> QED
      BY <1>6, <2>1, <2>2 DEF AwaitRecompute, RestateTypeOK, Runner, books
  <1>7. ASSUME ReadBefore
        PROVE  RestateTypeOK'
    <2>1. work' \in Runner
      BY <1>7, <1>w, <1>l, WorkWrites DEF ReadBefore, WorkPC
    <2> QED
      BY <1>7, <2>1 DEF ReadBefore, RestateTypeOK, Runner, books
  <1>8. ASSUME Rewrite
        PROVE  RestateTypeOK'
    <2>1. Candidates \in SUBSET Months
      BY DEF Candidates, Window
    <2>2. work' \in Runner /\ job' \in [Calls -> Job]
      <3>1. CASE Candidates = {}
        BY <1>8, <1>s, <3>1 DEF Rewrite
      <3>2. CASE Candidates # {}
        <4>1. work' = [work EXCEPT !.pc = "materialise",
                                   !.affected = Candidates] /\ job' = job
          BY <1>8, <3>2 DEF Rewrite
        <4>2. [work EXCEPT !.pc = "materialise", !.affected = Candidates]
                \in Runner
          BY <1>w, <2>1, WorkWrites DEF WorkPC
        <4> QED
          BY <1>j, <4>1, <4>2
      <3> QED
        BY <3>1, <3>2
    <2>3. /\ basis \in [Months -> Nat] /\ line \in [Months -> Nat]
          /\ moved \in [Months -> Nat]
      BY Zenon DEF RestateTypeOK, ByMonth
    <2>4. line' \in ByMonth
      BY <1>8, <2>3 DEF Rewrite, ByMonth
    <2>5. moved' \in ByMonth
      BY <1>8, <2>3 DEF Rewrite, ByMonth
    <2> QED
      BY <1>8, <2>2, <2>4, <2>5 DEF Rewrite, RestateTypeOK, Runner
  <1>9. ASSUME ReadAfter
        PROVE  RestateTypeOK'
    <2>1. work' \in Runner
      BY <1>9, <1>w, <1>l, WorkWrites DEF ReadAfter, WorkPC
    <2> QED
      BY <1>9, <2>1 DEF ReadAfter, RestateTypeOK, Runner, books
  <1>10. ASSUME TallyMove
         PROVE  RestateTypeOK'
    <2>1. work.affected \ {work.month} \in SUBSET Months
      BY <1>w DEF Runner
    <2>2. work' \in Runner
      BY <1>10, <1>w, <2>1, WorkWrites DEF TallyMove, WorkPC
    <2>3. snap' \in [Months -> Snapshot]
      <3>1. work.month \in Months /\ snap \in [Months -> Snapshot]
        BY <1>w DEF Runner, RestateTypeOK
      <3>2. snap[work.month].count + 1 \in Nat
        <4>1. snap[work.month] \in Snapshot
          BY <3>1
        <4> QED
          BY <4>1 DEF Snapshot
      <3>3. [snap[work.month] EXCEPT !.count = snap[work.month].count + 1]
              \in Snapshot
        BY <3>1, <3>2, Zenon DEF Snapshot
      <3> QED
        BY <1>10, <3>1, <3>3 DEF TallyMove
    <2> QED
      BY <1>10, <2>2, <2>3 DEF TallyMove, RestateTypeOK, Runner, books
  <1>11. ASSUME Return
         PROVE  RestateTypeOK'
    <2>1. work' \in Runner /\ job' \in [Calls -> Job]
      BY <1>11, <1>s DEF Return
    <2> QED
      BY <1>11, <2>1 DEF Return, RestateTypeOK, Runner, books
  <1>12. ASSUME NEW m \in Months, RecordMove(m)
         PROVE  RestateTypeOK'
    <2>1. work.affected \ {m} \in SUBSET Months
      BY <1>w DEF Runner
    <2>2. work' \in Runner
      <3>1. [work EXCEPT !.pc = "tally", !.month = m] \in Runner
        BY <1>w, WorkWrites DEF WorkPC
      <3>2. [work EXCEPT !.affected = work.affected \ {m}] \in Runner
        BY <1>w, <2>1, WorkWrites
      <3> QED
        BY <1>12, <3>1, <3>2 DEF RecordMove
    <2>3. [before |-> work.before[m], after |-> work.after[m]] \in Record
      BY <1>w DEF Runner, Figures, Record
    <2>4. log' \in [Months -> Seq(Record)]
      <3>1. log \in [Months -> Seq(Record)]
        BY DEF RestateTypeOK
      <3>2. Append(log[m], [before |-> work.before[m],
                            after |-> work.after[m]]) \in Seq(Record)
        BY <2>3, <3>1
      <3>3. CASE snap[m].kept
        BY <1>12, <3>1, <3>2, <3>3 DEF RecordMove
      <3>4. CASE ~snap[m].kept
        BY <1>12, <3>1, <3>4 DEF RecordMove
      <3> QED
        BY <3>3, <3>4
    <2> QED
      BY <1>12, <2>2, <2>4 DEF RecordMove, RestateTypeOK, Runner, books
  <1>13. {"baseline_wait", "materialise_wait"} \subseteq WorkPC
    BY DEF WorkPC
  <1> QED
    BY <1>1, <1>2, <1>3, <1>4, <1>5, <1>6, <1>7, <1>8, <1>9, <1>10, <1>11,
       <1>12, <1>13, <1>14 DEF RunJob

LEMMA RecomputeTyped ==
    ASSUME RestateTypeOK, Recompute \/ OtherRecompute
    PROVE  RestateTypeOK'
  <1> USE Calendar
  <1>w. work \in Runner /\ work.pc \in WorkPC
    BY DEF RestateTypeOK, Runner
  <1>r. rc \in [pc : {"idle", "load", "write"}, month : Months, value : Nat]
    BY DEF RestateTypeOK
  <1>1. ASSUME LoadMonth
        PROVE  RestateTypeOK'
    <2>1. line[rc.month] \in Nat
      BY <1>r DEF RestateTypeOK, ByMonth
    <2>2. rc' \in [pc : {"idle", "load", "write"}, month : Months, value : Nat]
      BY <1>1, <1>r, <2>1 DEF LoadMonth
    <2> QED
      BY <1>1, <2>2 DEF LoadMonth, RestateTypeOK, books
  <1>2. ASSUME WriteMonth
        PROVE  RestateTypeOK'
    <2>1. Woken \in Runner
      <3>1. Woken = [work EXCEPT !.pc =
                       CASE work.pc = "baseline_wait"    -> "before"
                         [] work.pc = "materialise_wait" -> "after"
                         [] OTHER                        -> work.pc]
        BY DEF Woken
      <3>2. (CASE work.pc = "baseline_wait"    -> "before"
               [] work.pc = "materialise_wait" -> "after"
               [] OTHER                        -> work.pc) \in WorkPC
        BY <1>w DEF WorkPC
      <3> QED
        BY <1>w, <3>1, <3>2, WorkWrites
    <2>2. work' \in Runner
      BY <1>2, <1>w, <2>1 DEF WriteMonth
    <2>3. ledger' \in ByMonth
      BY <1>2, <1>r DEF WriteMonth, RestateTypeOK, ByMonth
    <2>4. rc' \in [pc : {"idle", "load", "write"}, month : Months, value : Nat]
      BY <1>2, <1>r DEF WriteMonth, IdleRun, Months
    <2> QED
      BY <1>2, <2>2, <2>3, <2>4 DEF WriteMonth, RestateTypeOK, Runner
  <1>3. ASSUME OtherRecompute
        PROVE  RestateTypeOK'
    BY <1>3, SpendTyped
    DEF OtherRecompute, StartRun, RestateTypeOK, Causes, books
  <1> QED
    BY <1>1, <1>2, <1>3 DEF Recompute

LEMMA RestateTypeStep ==
    RestateTypeOK /\ [RestateNext]_restateVars => RestateTypeOK'
  <1> SUFFICES ASSUME RestateTypeOK, [RestateNext]_restateVars
               PROVE  RestateTypeOK'
    OBVIOUS
  <1> USE Calendar
  <1>1. ASSUME NEW m \in Months, ResyncOrder(m)
        PROVE  RestateTypeOK'
    <2>1. line' \in ByMonth
      BY <1>1 DEF ResyncOrder, RestateTypeOK, ByMonth
    <2> QED
      BY <1>1, <2>1, SpendTyped DEF ResyncOrder, RestateTypeOK, Causes
  <1>2. ASSUME ProcessDies
        PROVE  RestateTypeOK'
    <2>1. work' \in Runner
      BY <1>2, IdleTyped DEF ProcessDies
    <2> QED
      BY <1>2, <2>1, SpendTyped
      DEF ProcessDies, RestateTypeOK, Runner, Causes, IdleRun, books
  <1>3. CASE UNCHANGED restateVars
    BY <1>3 DEF restateVars, RestateTypeOK
  <1> QED
    BY <1>1, <1>2, <1>3, MerchantTyped, RunJobTyped, RecomputeTyped
    DEF RestateNext

(* The books, the records, the queue and the worker keep their types, for  *)
(* any budget of edits, requests, crashes and orders sent again.           *)
THEOREM RestateTypeCorrect == RestateSpec => []RestateTypeOK
  <1> QED
    BY RestateTypeInit, RestateTypeStep, PTL DEF RestateSpec

-----------------------------------------------------------------------------
(* What the steps do                                                       *)

(* Most steps leave the jobs, the requests and the moves alone.            *)
LEMMA Steps ==
    ASSUME [RestateNext]_restateVars
    PROVE  \/ RunJob
           \/ WriteMonth
           \/ ProcessDies
           \/ \E c \in Calls : RequestRestatement(c)
           \/ UNCHANGED <<job, asking, work, moved, owed, crossed>>
  BY
  DEF RestateNext, Merchant, Recompute, restateVars, EditCost, CloseRead,
      CloseFreeze,
         CloseLock, ReopenPeriod, LoadMonth, OtherRecompute, ResyncOrder

(* What a month has frozen stays frozen: snapshots are only created,       *)
(* closed, reopened and counted.                                           *)
LEMMA FrozenKeeps ==
    ASSUME RestateTypeOK, NEW months, NEW figures, NEW m \in Months
    PROVE  /\ Frozen(months, figures)[m].kept = (snap[m].kept \/ m \in months)
           /\ snap[m].kept => Frozen(months, figures)[m] = snap[m]
           /\ Frozen(months, figures)[m].cogs =
                IF m \in months /\ ~snap[m].kept THEN figures[m]
                                                 ELSE snap[m].cogs
           /\ Frozen(months, figures)[m].count = snap[m].count
  <1>1. snap[m] \in Snapshot
    BY DEF RestateTypeOK
  <1>2. snap[m].kept \in BOOLEAN
    BY <1>1 DEF Snapshot
  <1>3. CASE m \in months /\ ~snap[m].kept
    <2>1. Frozen(months, figures)[m] =
            [snap[m] EXCEPT !.kept = TRUE, !.cogs = figures[m]]
      BY <1>3 DEF Frozen
    <2> QED
      BY <1>1, <1>2, <1>3, <2>1 DEF Snapshot
  <1>4. CASE ~(m \in months /\ ~snap[m].kept)
    <2>1. Frozen(months, figures)[m] = snap[m]
      BY <1>4 DEF Frozen
    <2> QED
      BY <1>2, <1>4, <2>1
  <1> QED
    BY <1>3, <1>4

LEMMA KeptStays ==
    ASSUME RestateTypeOK, [RestateNext]_restateVars, NEW m \in Months,
           snap[m].kept
    PROVE  snap'[m].kept
  <1>s. snap \in [Months -> Snapshot] /\ snap[m] \in Snapshot
    BY DEF RestateTypeOK
  <1>1. CASE CloseFreeze
    BY <1>1, FrozenKeeps DEF CloseFreeze
  <1>2. CASE CloseLock
    BY <1>2, <1>s DEF CloseLock, Snapshot
  <1>3. ASSUME NEW n \in Months, ReopenPeriod(n)
        PROVE  snap'[m].kept
    BY <1>3, <1>s DEF ReopenPeriod, Snapshot
  <1>4. CASE Freeze
    BY <1>4, FrozenKeeps DEF Freeze
  <1>5. CASE TallyMove
    BY <1>5, <1>s DEF TallyMove, Snapshot
  <1>6. \/ UNCHANGED snap \/ CloseFreeze \/ CloseLock \/ Freeze \/ TallyMove
        \/ \E n \in Months : ReopenPeriod(n)
    BY
    DEF RestateNext, Merchant, RunJob, Recompute, restateVars, EditCost,
        CloseRead,
           RequestRestatement, WidenAsk, FindHolder, FoldAsk, ReleaseHolder,
           CreateJob, CreateKeyless, SelectJob, LeaseJob,
           CheckClosed, ReadReported, CountPending,
           AwaitRecompute, ReadBefore, Rewrite, ReadAfter, RecordMove, Return,
           LoadMonth, WriteMonth, OtherRecompute, ResyncOrder, ProcessDies
  <1> QED
    BY <1>1, <1>2, <1>3, <1>4, <1>5, <1>6

(* The worker's statement after each of its own steps, and the job it has. *)
LEMMA RunJobMoves ==
    ASSUME RestateTypeOK, RunJob
    PROVE  \/ /\ work.pc = "idle" /\ work'.pc = "lease"
              /\ \E c \in Calls : SelectJob(c)
           \/ work.pc = "lease" /\ work'.pc = "check" /\ LeaseJob
           \/ /\ work' = IdleWork
              /\ CheckClosed \/ CountPending \/ Rewrite \/ Return
           \/ /\ work'.job = work.job /\ work'.id = work.id /\ job' = job
              /\ \/ work.pc = "check"       /\ work'.pc = "report"
                 \/ work.pc = "report"      /\ work'.pc = "freeze"
                 \/ work.pc = "freeze"      /\ work'.pc = "count" /\ Freeze
                 \/ work.pc = "count"       /\ work'.pc = "baseline"
                 \/ work.pc = "baseline"    /\ work'.pc = "baseline_wait"
                 \/ work.pc = "before"      /\ work'.pc = "rewrite"
                 \/ work.pc = "rewrite"     /\ work'.pc = "materialise"
                 \/ work.pc = "materialise" /\ work'.pc = "materialise_wait"
                 \/ work.pc = "after"       /\ work'.pc = "record"
                 \/ work.pc = "record"      /\ work'.pc \in {"tally", "record"}
                 \/ work.pc = "tally"       /\ work'.pc = "record"
  <1>w. work \in Runner
    BY DEF RestateTypeOK
  <1> USE <1>w DEF At, Goto
  <1>1. ASSUME NEW c \in Calls, SelectJob(c)
        PROVE  work.pc = "idle" /\ work'.pc = "lease"
    BY <1>1 DEF SelectJob, IdleWork
  <1>14. ASSUME LeaseJob
         PROVE  work.pc = "lease" /\ work'.pc = "check"
    BY <1>14 DEF LeaseJob, Runner
  <1>2. CASE CheckClosed
    BY <1>2 DEF CheckClosed, Refuse, Settle, Runner
  <1>3. CASE ReadReported
    BY <1>3 DEF ReadReported, Runner
  <1>4. CASE Freeze
    BY <1>4 DEF Freeze, Runner
  <1>5. CASE CountPending
    BY <1>5 DEF CountPending, Settle, Runner
  <1>6. CASE AwaitRecompute("baseline", "baseline_wait")
    BY <1>6 DEF AwaitRecompute, Runner
  <1>7. CASE ReadBefore
    BY <1>7 DEF ReadBefore, Runner
  <1>8. CASE Rewrite
    BY <1>8 DEF Rewrite, Settle, Runner
  <1>9. CASE AwaitRecompute("materialise", "materialise_wait")
    BY <1>9 DEF AwaitRecompute, Runner
  <1>10. CASE ReadAfter
    BY <1>10 DEF ReadAfter, Runner
  <1>11. CASE TallyMove
    BY <1>11 DEF TallyMove, Runner
  <1>12. CASE Return
    BY <1>12 DEF Return, Settle
  <1>13. ASSUME NEW m \in Months, RecordMove(m)
         PROVE  /\ work.pc = "record" /\ work'.pc \in {"tally", "record"}
                /\ work'.job = work.job /\ work'.id = work.id /\ job' = job
    BY <1>13 DEF RecordMove, Runner
  <1> QED
    BY <1>1, <1>2, <1>3, <1>4, <1>5, <1>6, <1>7, <1>8, <1>9, <1>10, <1>11,
       <1>12, <1>13, <1>14 DEF RunJob

(* Where a step of anyone else leaves the worker.                          *)
LEMMA WakeMoves ==
    ASSUME RestateTypeOK, WriteMonth
    PROVE  /\ work'.job = work.job /\ work'.id = work.id
           /\ work'.affected = work.affected
           /\ work'.month = work.month /\ work'.before = work.before
           /\ work'.after = work.after /\ work'.reported = work.reported
           /\ \/ work' = work
              \/ /\ rc.month = LastMonth
                 /\ work'.pc = CASE work.pc = "baseline_wait"    -> "before"
                                 [] work.pc = "materialise_wait" -> "after"
                                 [] OTHER                        -> work.pc
  <1>1. work \in Runner
    BY DEF RestateTypeOK
  <1>2. rc.month \in 1..LastMonth /\ LastMonth \in Nat
    BY Calendar DEF RestateTypeOK, Months
  <1>3. work' = work \/ (work' = Woken /\ rc.month = LastMonth)
    BY <1>2 DEF WriteMonth
  <1>4. ASSUME work' = Woken
        PROVE  /\ work'.job = work.job /\ work'.id = work.id
               /\ work'.affected = work.affected
               /\ work'.month = work.month /\ work'.before = work.before
               /\ work'.after = work.after /\ work'.reported = work.reported
               /\ work'.pc = CASE work.pc = "baseline_wait"    -> "before"
                               [] work.pc = "materialise_wait" -> "after"
                               [] OTHER                        -> work.pc
    BY <1>1, <1>4 DEF Woken, Runner
  <1> QED
    BY <1>3, <1>4

-----------------------------------------------------------------------------
(* Nothing moves unfrozen                                                  *)

(* From the freeze to the rewrite the worker goes on with one window, and  *)
(* every month with orders in it has been frozen.                          *)
Moving == {"count", "baseline", "baseline_wait", "before", "rewrite"}
FrozenInv ==
    /\ MovedMonthsAreFrozen
    /\ work.pc \in Moving =>
         \A m \in Window(work.job) \cap Trading : snap[m].kept

LEMMA FrozenInit == RestateInit => FrozenInv
  BY Calendar
  DEF RestateInit, FrozenInv, MovedMonthsAreFrozen, Moving, IdleWork, Zero

(* The worker gets to a statement of Moving from one, with the same job,   *)
(* or by freezing.                                                         *)
LEMMA MovingMoves ==
    ASSUME RestateTypeOK, [RestateNext]_restateVars, work'.pc \in Moving
    PROVE  /\ work'.job.from = work.job.from
           /\ work.pc \in Moving \/ Freeze
  <1>1. CASE RunJob
    BY <1>1, RunJobMoves DEF Moving, IdleWork
  <1>2. CASE WriteMonth
    BY <1>2, WakeMoves DEF Moving
  <1>3. CASE ProcessDies
    BY <1>3 DEF ProcessDies, Moving, IdleWork
  <1>4. CASE \E c \in Calls : RequestRestatement(c)
    BY <1>4, AskTouches
  <1>5. CASE UNCHANGED <<job, asking, work, moved, owed, crossed>>
    BY <1>5
  <1> QED
    BY <1>1, <1>2, <1>3, <1>4, <1>5, Steps

(* Line items move in the rewrite only, and within its window.             *)
LEMMA MovedMoves ==
    ASSUME RestateTypeOK, [RestateNext]_restateVars
    PROVE  \/ moved' = moved
           \/ /\ Rewrite
              /\ \A m \in Months \ Candidates : moved'[m] = moved[m]
  <1>1. \/ moved' = moved
        \/ Rewrite
    BY
    DEF RestateNext, Merchant, RunJob, Recompute, restateVars, EditCost,
        CloseRead,
           CloseFreeze, CloseLock, ReopenPeriod,
           RequestRestatement, WidenAsk, FindHolder, FoldAsk, ReleaseHolder,
           CreateJob, CreateKeyless, SelectJob, LeaseJob,
           CheckClosed, ReadReported, Freeze,
           CountPending, AwaitRecompute, ReadBefore, ReadAfter, RecordMove,
           TallyMove, Return, LoadMonth, WriteMonth, OtherRecompute,
           ResyncOrder, ProcessDies
  <1> QED
    BY <1>1 DEF Rewrite

LEMMA FrozenStep ==
    RestateTypeOK /\ FrozenInv /\ [RestateNext]_restateVars => FrozenInv'
  <1> SUFFICES ASSUME RestateTypeOK, FrozenInv, [RestateNext]_restateVars
               PROVE  FrozenInv'
    OBVIOUS
  <1>1. MovedMonthsAreFrozen'
    <2> SUFFICES ASSUME NEW m \in Months, moved'[m] > 0
                 PROVE  snap'[m].kept
      BY DEF MovedMonthsAreFrozen
    <2>1. CASE moved'[m] = moved[m]
      BY <2>1, KeptStays DEF FrozenInv, MovedMonthsAreFrozen
    <2>2. CASE Rewrite /\ m \in Candidates
      <3>1. work.pc \in Moving /\ m \in Window(work.job) \cap Trading
        BY <2>2 DEF Rewrite, At, Moving, Candidates
      <3> QED
        BY <3>1, KeptStays DEF FrozenInv
    <2> QED
      BY <2>1, <2>2, MovedMoves
  <1>2. ASSUME work'.pc \in Moving,
               NEW m \in Months, m >= work'.job.from, m \in Trading
        PROVE  snap'[m].kept
    <2>1. m \in Window(work.job) \cap Trading
      BY <1>2, MovingMoves DEF Window
    <2>2. CASE work.pc \in Moving
      BY <2>1, <2>2, KeptStays DEF FrozenInv
    <2>3. CASE Freeze
      BY <2>1, <2>3, FrozenKeeps DEF Freeze
    <2> QED
      BY <1>2, <2>2, <2>3, MovingMoves
  <1> QED
    BY <1>1, <1>2 DEF FrozenInv, Window

(* "Any affected month with no PeriodSnapshot gets one" before its line    *)
(* items move, whatever runs, crashes and closes meanwhile.                *)
THEOREM MovedAreFrozen == RestateSpec => []MovedMonthsAreFrozen
  <1>1. RestateInit => RestateTypeOK /\ FrozenInv
    BY RestateTypeInit, FrozenInit
  <1>2. RestateTypeOK /\ FrozenInv /\ [RestateNext]_restateVars
        => (RestateTypeOK /\ FrozenInv)'
    BY RestateTypeStep, FrozenStep
  <1>3. FrozenInv => MovedMonthsAreFrozen
    BY DEF FrozenInv
  <1> QED
    BY <1>1, <1>2, <1>3, PTL DEF RestateSpec

-----------------------------------------------------------------------------
(* Every request is applied                                                *)

(* A row is made by its own call, when that is accepted; a fold has found  *)
(* a row; a worker has the row of an unfinished job.                       *)
CallInv ==
    /\ \A c \in Calls : asking[c].pc # "accepted" => job[c].status = "absent"
    /\ \A c \in Calls : asking[c].pc = "fold" => asking[c].existing # 0
    /\ work.pc # "idle" => work.id \in Calls /\ Unfinished(job[work.id])

(* While no payload is written or leased over a change, what the worker    *)
(* runs is what its row says.                                              *)
HeldInv ==
    ~crossed /\ work.pc \notin {"idle", "lease"} =>
        job[work.id].status = "running" /\ job[work.id].from = work.job.from

(* A month is on the basis it was asked to have, or a job that covers it   *)
(* is unfinished, and not with a worker past its rewrite.                  *)
Recording == {"materialise", "materialise_wait", "after", "record", "tally"}
Covers(c, m) == /\ Unfinished(job[c]) /\ m >= job[c].from
                /\ ~(work.pc \in Recording /\ c = work.id)
Unfulfilled(m) == \E c \in Calls : Covers(c, m)
NoneFailed == \A c \in Calls : job[c].status # "failed"
AppliedInv ==
    /\ CallInv /\ HeldInv
    /\ \A m \in Months : owed[m] <= basis[m]
    /\ ~crossed /\ NoneFailed =>
         \A m \in Trading : line[m] >= owed[m] \/ Unfulfilled(m)

LEMMA AppliedInit == RestateInit => AppliedInv
  BY Calendar DEF RestateInit, AppliedInv, CallInv, HeldInv, Zero, IdleWork,
                  IdleCall, NoJob

LEMMA BooksTyped ==
    ASSUME RestateTypeOK, NEW m \in Months
    PROVE  /\ basis[m] \in Nat /\ line[m] \in Nat /\ ledger[m] \in Nat
           /\ owed[m] \in Nat /\ moved[m] \in Nat
  <1>1. /\ basis \in [Months -> Nat] /\ line \in [Months -> Nat]
        /\ ledger \in [Months -> Nat] /\ owed \in [Months -> Nat]
        /\ moved \in [Months -> Nat]
    BY Zenon DEF RestateTypeOK, ByMonth
  <1> QED
    BY <1>1

LEMMA SnapLogTyped ==
    ASSUME RestateTypeOK, NEW m \in Months
    PROVE  /\ snap[m] \in Snapshot /\ snap[m].count \in Nat
           /\ log[m] \in Seq(Record) /\ Len(log[m]) \in Nat
  <1>1. snap[m] \in Snapshot /\ log[m] \in Seq(Record)
    BY DEF RestateTypeOK
  <1> QED
    BY <1>1 DEF Snapshot

(* The timeline, the line items and what is owed of them change together   *)
(* in one way each.                                                        *)
LEMMA BooksMove ==
    ASSUME RestateTypeOK, [RestateNext]_restateVars, NEW m \in Months
    PROVE  /\ basis'[m] >= basis[m]
           /\ line'[m] = line[m] \/ line'[m] = basis[m]
           /\ owed'[m] = owed[m] \/ owed'[m] = basis[m]
  <1>t. /\ basis \in [Months -> Nat] /\ line \in [Months -> Nat]
        /\ owed \in [Months -> Nat]
    BY Zenon DEF RestateTypeOK, ByMonth
  <1>1. ASSUME NEW f \in Months, EditCost(f)
        PROVE  basis'[m] >= basis[m] /\ line' = line /\ owed' = owed
    BY <1>1, <1>t DEF EditCost
  <1>2. ASSUME NEW c \in Calls, RequestRestatement(c)
        PROVE  /\ UNCHANGED <<basis, line>>
               /\ owed'[m] = owed[m] \/ owed'[m] = basis[m]
    <2>1. owed' = owed \/ Accept(c)
      BY <1>2 DEF RequestRestatement, WidenAsk, FindHolder, FoldAsk,
                  ReleaseHolder, CreateJob, CreateKeyless
    <2> QED
      BY <1>2, <1>t, <2>1, AskTouches DEF Accept
  <1>3. CASE Rewrite
    BY <1>3, <1>t DEF Rewrite
  <1>4. ASSUME NEW n \in Months, ResyncOrder(n)
        PROVE  /\ UNCHANGED <<basis, owed>>
               /\ line'[m] = line[m] \/ line'[m] = basis[m]
    BY <1>4, <1>t DEF ResyncOrder
  <1>5. \/ UNCHANGED <<basis, line, owed>> \/ Rewrite
        \/ \E f \in Months : EditCost(f) \/ ResyncOrder(f)
        \/ \E c \in Calls : RequestRestatement(c)
    BY
    DEF RestateNext, Merchant, RunJob, Recompute, restateVars, books, CloseRead,
           CloseFreeze, CloseLock, ReopenPeriod, SelectJob, LeaseJob, CheckClosed,
           ReadReported, Freeze, CountPending, AwaitRecompute, ReadBefore,
           ReadAfter, RecordMove, TallyMove, Return, LoadMonth, WriteMonth,
           OtherRecompute, ProcessDies
  <1> QED
    BY <1>t, <1>1, <1>2, <1>3, <1>4, <1>5

(* What a call does to the rows: it folds into one or makes its own.       *)
LEMMA AskRows ==
    ASSUME RestateTypeOK, CallInv, NEW c \in Calls, RequestRestatement(c),
           NEW d \in Calls
    PROVE  \/ job'[d].status = job[d].status /\ job'[d].from = job[d].from
           \/ /\ FoldAsk(c) /\ d = asking[c].existing
              /\ job'[d].status = job[d].status
              /\ job'[d].from = WidenedFrom(c)
           \/ /\ d = c /\ job[d].status = "absent"
              /\ job'[d].status = "queued" /\ job'[d].from = WidenedFrom(c)
  <1>j. job \in [Calls -> Job] /\ job[d] \in Job
    BY DEF RestateTypeOK
  <1>1. ASSUME NEW ask \in Ask, WidenAsk(c, ask)
        PROVE  job'[d] = job[d]
    BY <1>1 DEF WidenAsk
  <1>2. CASE FindHolder(c)
    BY <1>2 DEF FindHolder
  <1>3. CASE FoldAsk(c)
    <2> DEFINE e == asking[c].existing
    <2>1. job' = [job EXCEPT ![e] = [job[e] EXCEPT !.from = WidenedFrom(c),
                                                 !.inc = asking[c].ask.inc]]
      BY <1>3 DEF FoldAsk
    <2>2. CASE d = e
      <3>1. job'[d] = [job[d] EXCEPT !.from = WidenedFrom(c),
                                     !.inc = asking[c].ask.inc]
        BY <1>j, <2>1, <2>2
      <3> QED
        BY <1>j, <1>3, <2>2, <3>1 DEF Job
    <2>3. CASE d # e
      BY <1>j, <2>1, <2>3
    <2> QED
      BY <2>2, <2>3
  <1>4. CASE ReleaseHolder(c)
    <2>1. \/ job'[d] = job[d]
          \/ job'[d] = [job[d] EXCEPT !.keyed = FALSE]
      BY <1>j, <1>4 DEF ReleaseHolder
    <2> QED
      BY <1>j, <2>1 DEF Job
  <1>5. CASE CreateJob(c) \/ CreateKeyless(c)
    <2>1. job[c].status = "absent"
      BY <1>5 DEF CreateJob, CreateKeyless, CallInv
    <2>2. \/ job'[d] = job[d]
          \/ d = c /\ job'[d] = NewJob(c, TRUE)
          \/ d = c /\ job'[d] = NewJob(c, FALSE)
      BY <1>j, <1>5 DEF CreateJob, CreateKeyless
    <2>3. \A b \in BOOLEAN : /\ NewJob(c, b).status = "queued"
                              /\ NewJob(c, b).from = WidenedFrom(c)
      BY DEF NewJob
    <2> QED
      BY <2>1, <2>2, <2>3
  <1> QED
    BY <1>1, <1>2, <1>3, <1>4, <1>5 DEF RequestRestatement

(* A call is accepted with its fold or its insert; others are not touched. *)
LEMMA AskAccepts ==
    ASSUME RestateTypeOK, NEW c \in Calls, RequestRestatement(c)
    PROVE  /\ \A d \in Calls : d # c => asking'[d] = asking[d]
           /\ Accept(c) => asking'[c].pc = "accepted"
           /\ \/ owed' = owed /\ asking[c].pc # "accepted"
                 /\ asking'[c].pc # "accepted"
              \/ /\ Accept(c) /\ asking'[c].pc = "accepted"
                 /\ asking[c].pc # "accepted"
                 /\ \/ FoldAsk(c)
                    \/ /\ job'[c].status = "queued"
                       /\ job'[c].from = WidenedFrom(c)
  <1>j. job \in [Calls -> Job] /\ asking \in [Calls -> Call]
        /\ asking[c] \in Call
    BY DEF RestateTypeOK
  <1>1. ASSUME NEW ask \in Ask, WidenAsk(c, ask)
        PROVE  /\ \A d \in Calls : d # c => asking'[d] = asking[d]
               /\ owed' = owed /\ asking[c].pc # "accepted"
               /\ asking'[c].pc # "accepted"
    BY <1>j, <1>1 DEF WidenAsk
  <1>3. ASSUME Accept(c)
        PROVE  /\ \A d \in Calls : d # c => asking'[d] = asking[d]
               /\ asking'[c].pc = "accepted"
    BY <1>j, <1>3 DEF Accept, IdleCall
  <1>2. CASE FindHolder(c)
    <2>1. PICK e \in KeyHolder :
            asking' = [asking EXCEPT ![c] =
                         [asking[c] EXCEPT !.existing = e,
                            !.pc = IF e = 0 THEN "create"
                                   ELSE IF job[e].status = "queued"
                                   THEN "fold" ELSE "release"]]
      BY <1>2 DEF FindHolder
    <2>2. asking'[c].pc = IF e = 0 THEN "create"
                          ELSE IF job[e].status = "queued"
                          THEN "fold" ELSE "release"
      BY <1>j, <2>1 DEF Call
    <2>3. asking'[c].pc # "accepted"
      BY <2>2
    <2> QED
      BY <1>2, <1>3, <1>j, <2>1, <2>3 DEF FindHolder
  <1>4. CASE FoldAsk(c)
    BY <1>3, <1>4 DEF FoldAsk
  <1>5. CASE ReleaseHolder(c)
    <2>1. asking' = [asking EXCEPT ![c] = [asking[c] EXCEPT !.pc = "create"]]
      BY <1>5 DEF ReleaseHolder
    <2>2. asking'[c].pc = "create"
      BY <1>j, <2>1 DEF Call
    <2> QED
      BY <1>3, <1>5, <1>j, <2>1, <2>2 DEF ReleaseHolder
  <1>6. CASE CreateJob(c)
    <2>1. CASE KeyHolder = {0}
      BY <1>j, <1>3, <1>6, <2>1 DEF CreateJob, NewJob
    <2>2. CASE KeyHolder # {0}
      <3>1. /\ asking' = [asking EXCEPT ![c] =
                           [asking[c] EXCEPT !.pc = "create_unkeyed"]]
            /\ owed' = owed
        BY <1>6, <2>2 DEF CreateJob
      <3>2. asking'[c].pc = "create_unkeyed"
        BY <1>j, <3>1 DEF Call
      <3> QED
        BY <1>3, <1>6, <1>j, <3>1, <3>2 DEF CreateJob
    <2> QED
      BY <2>1, <2>2
  <1>7. CASE CreateKeyless(c)
    BY <1>j, <1>3, <1>7 DEF CreateKeyless, NewJob
  <1> QED
    BY <1>1, <1>2, <1>3, <1>4, <1>5, <1>6, <1>7 DEF RequestRestatement

(* The worker writes the status of its own row only.                       *)
LEMMA RunRows ==
    ASSUME RestateTypeOK, RunJob, NEW d \in Calls
    PROVE  /\ job'[d].from = job[d].from
           /\ d # work.id => job'[d] = job[d]
           /\ asking' = asking
  <1>j. job \in [Calls -> Job] /\ job[d] \in Job
    BY DEF RestateTypeOK
  <1>1. ASSUME NEW status, Settle(status)
        PROVE  job'[d].from = job[d].from /\ (d # work.id => job'[d] = job[d])
    <2> DEFINE i == work.id
    <2>1. job' = [job EXCEPT ![i] = [job[i] EXCEPT !.status = status,
                                                 !.keyed = FALSE]]
      BY <1>1 DEF Settle
    <2>2. CASE d = i
      <3>1. job'[d] = [job[d] EXCEPT !.status = status, !.keyed = FALSE]
        BY <1>j, <2>1, <2>2
      <3> QED
        BY <1>j, <2>2, <3>1 DEF Job
    <2>3. CASE d # i
      BY <1>j, <2>1, <2>3
    <2> QED
      BY <2>2, <2>3
  <1>2. CASE LeaseJob
    <2>1. /\ d # work.id => job'[d] = job[d]
          /\ d = work.id => job'[d] = LeasedJob(job[d])
      BY <1>j, <1>2 DEF LeaseJob
    <2>2. LeasedJob(job[d]).from = job[d].from
      BY <1>j DEF LeasedJob, Job
    <2> QED
      BY <1>2, <2>1, <2>2 DEF LeaseJob
  <1>3. CASE CheckClosed
    <2>1. CASE job' = [job EXCEPT ![work.id].status = "queued"]
      <3>1. /\ d # work.id => job'[d] = job[d]
            /\ d = work.id => job'[d] = [job[d] EXCEPT !.status = "queued"]
        BY <1>j, <2>1
      <3> QED
        BY <1>3, <1>j, <3>1 DEF CheckClosed, Job
    <2> QED
      BY <1>1, <1>3, <2>1 DEF CheckClosed, Refuse
  <1>4. CASE CountPending \/ Rewrite \/ Return
    BY <1>1, <1>4 DEF CountPending, Rewrite, Return
  <1> QED
    BY <1>2, <1>3, <1>4
    DEF RunJob, SelectJob, ReadReported, Freeze, AwaitRecompute, ReadBefore,
        ReadAfter, RecordMove, TallyMove

(* A call that goes on to fold has found a row.                            *)
LEMMA AskFinds ==
    ASSUME RestateTypeOK, NEW c \in Calls, RequestRestatement(c),
           asking'[c].pc = "fold"
    PROVE  asking'[c].existing # 0
  <1>j. asking \in [Calls -> Call] /\ asking[c] \in Call
    BY DEF RestateTypeOK
  <1>1. \A ask \in Ask : WidenAsk(c, ask) => asking'[c].pc = "find"
    BY <1>j DEF WidenAsk
  <1>2. ReleaseHolder(c) => asking'[c].pc = "create"
    BY <1>j DEF ReleaseHolder, Call
  <1>3. Accept(c) => asking'[c].pc = "accepted"
    BY AskAccepts
  <1>4. CreateJob(c) => asking'[c].pc \in {"accepted", "create_unkeyed"}
    BY <1>j, <1>3 DEF CreateJob, Call
  <1>5. CASE FindHolder(c)
    <2>1. PICK e \in KeyHolder :
            asking' = [asking EXCEPT ![c] =
                         [asking[c] EXCEPT !.existing = e,
                            !.pc = IF e = 0 THEN "create"
                                   ELSE IF job[e].status = "queued"
                                   THEN "fold" ELSE "release"]]
      BY <1>5 DEF FindHolder
    <2>2. /\ asking'[c].existing = e
          /\ asking'[c].pc = IF e = 0 THEN "create"
                             ELSE IF job[e].status = "queued"
                             THEN "fold" ELSE "release"
      BY <1>j, <2>1 DEF Call
    <2>3. e = 0 => asking'[c].pc = "create"
      BY <2>2
    <2> QED
      BY <2>2, <2>3
  <1> QED
    BY <1>1, <1>2, <1>3, <1>4, <1>5
    DEF RequestRestatement, FoldAsk, CreateKeyless

LEMMA CallStep ==
    ASSUME RestateTypeOK, CallInv, [RestateNext]_restateVars
    PROVE  CallInv'
  <1>j. job \in [Calls -> Job]
    BY DEF RestateTypeOK
  <1>1. ASSUME NEW c \in Calls, RequestRestatement(c)
        PROVE  CallInv'
    <2>1. ASSUME NEW d \in Calls, asking'[d].pc # "accepted"
          PROVE  job'[d].status = "absent"
      <3>1. asking[d].pc # "accepted" /\ job[d].status = "absent"
        BY <1>1, <2>1, AskAccepts DEF CallInv
      <3>2. CASE d # c
        BY <1>1, <3>1, <3>2, AskRows
      <3>3. CASE d = c
        <4>1. job'[c].status = job[c].status
              \/ (job[c].status = "absent" /\ job'[c].status = "queued")
          BY <1>1, AskRows
        <4>2. ~(CreateKeyless(c) \/ (CreateJob(c) /\ KeyHolder = {0}))
          <5>1. ~Accept(c)
            BY <1>1, <2>1, <3>3, AskAccepts
          <5> QED
            BY <5>1 DEF CreateJob, CreateKeyless
        <4>3. ~FoldAsk(c)
          <5>1. ~Accept(c)
            BY <1>1, <2>1, <3>3, AskAccepts
          <5> QED
            BY <5>1 DEF FoldAsk
        <4>4. CASE ReleaseHolder(c)
          <5>1. \/ job'[c] = job[c]
                \/ job'[c] = [job[c] EXCEPT !.keyed = FALSE]
            BY <1>j, <4>4 DEF ReleaseHolder
          <5> QED
            BY <1>j, <3>1, <3>3, <5>1 DEF Job
        <4>5. job' = job \/ ReleaseHolder(c)
          BY <1>1, <4>2, <4>3
          DEF RequestRestatement, WidenAsk, FindHolder, CreateJob
        <4> QED
          BY <3>1, <3>3, <4>4, <4>5
      <3> QED
        BY <3>2, <3>3
    <2>2. ASSUME work'.pc # "idle"
          PROVE  work'.id \in Calls /\ Unfinished(job[work.id])'
      <3>1. work' = work /\ work.id \in Calls /\ Unfinished(job[work.id])
        BY <1>1, <2>2, AskTouches DEF CallInv
      <3>2. Unfinished(job'[work.id])
        <4>1. \/ job'[work.id].status = job[work.id].status
              \/ job[work.id].status = "absent"
          BY <1>1, <3>1, AskRows
        <4> QED
          BY <3>1, <4>1 DEF Unfinished
      <3> QED
        BY <3>1, <3>2 DEF Unfinished
    <2>3. ASSUME NEW d \in Calls, asking'[d].pc = "fold"
          PROVE  asking'[d].existing # 0
      <3>1. CASE d # c
        BY <1>1, <2>3, <3>1, AskAccepts DEF CallInv
      <3>2. CASE d = c
        BY <1>1, <2>3, <3>2, AskFinds
      <3> QED
        BY <3>1, <3>2
    <2> QED
      BY <2>1, <2>2, <2>3 DEF CallInv
  <1>2. CASE RunJob
    <2>1. ASSUME NEW d \in Calls, asking'[d].pc # "accepted"
          PROVE  job'[d].status = "absent"
      <3>1. job[d].status = "absent"
        BY <1>2, <2>1, RunRows DEF CallInv
      <3>2. CASE d # work.id
        BY <1>2, <3>1, <3>2, RunRows
      <3>3. CASE d = work.id
        <4>1. work.pc = "idle"
          BY <3>1, <3>3 DEF CallInv, Unfinished
        <4>2. job' = job
          BY <1>2, <4>1
          DEF RunJob, At, SelectJob, LeaseJob, CheckClosed, ReadReported,
              Freeze, CountPending, AwaitRecompute, ReadBefore, Rewrite,
              ReadAfter, TallyMove, Return, RecordMove
        <4> QED
          BY <3>1, <4>2
      <3> QED
        BY <3>2, <3>3
    <2>2. ASSUME work'.pc # "idle"
          PROVE  work'.id \in Calls /\ Unfinished(job[work.id])'
      <3>1. ASSUME NEW c \in Calls, SelectJob(c)
            PROVE  work'.id = c /\ job' = job /\ Unfinished(job[c])
        BY <3>1 DEF SelectJob, IdleWork
      <3>2. CASE LeaseJob
        <4>1. work.id \in Calls /\ work'.id = work.id
          BY <3>2 DEF LeaseJob, At, CallInv, RestateTypeOK, Runner
        <4>2. job'[work.id] = LeasedJob(job[work.id])
          BY <1>j, <3>2, <4>1 DEF LeaseJob
        <4>3. LeasedJob(job[work.id]).status = "running"
          BY <1>j, <4>1 DEF LeasedJob, Job
        <4> QED
          BY <4>1, <4>2, <4>3 DEF Unfinished
      <3>3. ASSUME work'.id = work.id, job' = job, work.pc # "idle"
            PROVE  work'.id \in Calls /\ Unfinished(job[work.id])'
        BY <3>3 DEF CallInv, Unfinished
      <3>4. work' # IdleWork
        BY <2>2 DEF IdleWork
      <3> QED
        BY <1>2, <3>1, <3>2, <3>3, <3>4, RunJobMoves DEF Unfinished
    <2>3. asking' = asking
      BY <1>2 DEF RunJob, SelectJob, LeaseJob, CheckClosed, ReadReported,
                  Freeze, CountPending, AwaitRecompute, ReadBefore, Rewrite,
                  ReadAfter, TallyMove, Return, RecordMove
    <2> QED
      BY <2>1, <2>2, <2>3 DEF CallInv
  <1>3. CASE WriteMonth
    <2>1. work'.id = work.id /\ (work.pc = "idle" => work'.pc = "idle")
      BY <1>3, WakeMoves
    <2>2. job' = job /\ asking' = asking
      BY <1>3 DEF WriteMonth
    <2> QED
      BY <2>1, <2>2 DEF CallInv, Unfinished
  <1>4. CASE ProcessDies
    BY <1>4 DEF ProcessDies, CallInv, IdleWork
  <1>5. CASE UNCHANGED <<job, asking, work, moved, owed, crossed>>
    BY <1>5 DEF CallInv, Unfinished
  <1> QED
    BY <1>1, <1>2, <1>3, <1>4, <1>5, Steps

LEMMA HeldStep ==
    ASSUME RestateTypeOK, CallInv, HeldInv, [RestateNext]_restateVars
    PROVE  HeldInv'
  <1> SUFFICES ASSUME ~crossed', work'.pc \notin {"idle", "lease"}
               PROVE  /\ job'[work'.id].status = "running"
                      /\ job'[work'.id].from = work'.job.from
    BY DEF HeldInv
  <1>j. job \in [Calls -> Job]
    BY DEF RestateTypeOK
  <1>1. ASSUME ~crossed, work'.id = work.id, work'.job.from = work.job.from,
               work.pc \notin {"idle", "lease"},
               job'[work.id].status = job[work.id].status,
               job'[work.id].from = job[work.id].from
        PROVE  /\ job'[work'.id].status = "running"
               /\ job'[work'.id].from = work'.job.from
    BY <1>1 DEF HeldInv
  <1>2. ASSUME NEW c \in Calls, RequestRestatement(c)
        PROVE  /\ job'[work'.id].status = "running"
               /\ job'[work'.id].from = work'.job.from
    <2>1. work' = work /\ work.id \in Calls /\ Unfinished(job[work.id])
      BY <1>2, AskTouches DEF CallInv
    <2>2. ~crossed
      BY <1>2 DEF RequestRestatement, WidenAsk, FindHolder, FoldAsk,
                  ReleaseHolder, CreateJob, CreateKeyless
    <2>3. job[work.id].status = "running"
      BY <2>1, <2>2 DEF HeldInv
    <2>4. FoldAsk(c) => job[asking[c].existing].status = "queued"
      BY DEF FoldAsk
    <2>5. /\ job'[work.id].status = job[work.id].status
          /\ job'[work.id].from = job[work.id].from
      BY <1>2, <2>1, <2>3, <2>4, AskRows
    <2> QED
      BY <1>1, <2>1, <2>2, <2>5
  <1>3. CASE RunJob
    <2>1. CASE LeaseJob
      <3>1. work.id \in Calls /\ work \in Runner /\ work.job \in Job
        BY <2>1 DEF LeaseJob, At, CallInv, RestateTypeOK, Runner
      <3>2. work'.id = work.id /\ work'.job = LeasedJob(work.job)
        BY <2>1, <3>1 DEF LeaseJob, Runner
      <3>3. job'[work.id] = LeasedJob(job[work.id]) /\ job[work.id] \in Job
        BY <1>j, <2>1, <3>1 DEF LeaseJob
      <3>4. job[work.id].from = work.job.from
        BY <2>1 DEF LeaseJob, AsRead
      <3>5. \A q \in Job : LeasedJob(q).from = q.from /\ LeasedJob(q).status = "running"
        BY DEF LeasedJob, Job
      <3> QED
        BY <3>1, <3>2, <3>3, <3>4, <3>5
    <2>2. CASE ~LeaseJob
      <3>1. work'.id = work.id /\ work'.job = work.job /\ job' = job
            /\ work.pc \notin {"idle", "lease"}
        BY <1>3, <2>2, RunJobMoves DEF IdleWork
      <3>2. crossed' = crossed
        BY <1>3, <2>2
        DEF RunJob, SelectJob, CheckClosed, ReadReported, Freeze,
            CountPending, AwaitRecompute, ReadBefore, Rewrite, ReadAfter,
            TallyMove, Return, RecordMove
      <3> QED
        BY <1>1, <3>1, <3>2
    <2> QED
      BY <2>1, <2>2
  <1>4. CASE WriteMonth
    <2>1. /\ work'.id = work.id /\ work'.job = work.job
          /\ work.pc \in {"idle", "lease"} => work'.pc = work.pc
      BY <1>4, WakeMoves
    <2>2. job' = job /\ crossed' = crossed
      BY <1>4 DEF WriteMonth
    <2> QED
      BY <1>1, <2>1, <2>2
  <1>5. CASE ProcessDies
    BY <1>5 DEF ProcessDies, IdleWork
  <1>6. CASE UNCHANGED <<job, asking, work, moved, owed, crossed>>
    BY <1>1, <1>6
  <1> QED
    BY <1>2, <1>3, <1>4, <1>5, <1>6, Steps

(* What the claim leaves aside is never forgotten.                         *)
LEMMA ExceptionsStay ==
    ASSUME RestateTypeOK, CallInv, [RestateNext]_restateVars
    PROVE  /\ ~crossed' => ~crossed
           /\ NoneFailed' => NoneFailed
  <1>1. ~crossed' => ~crossed
    BY
    DEF RestateNext, Merchant, RunJob, Recompute, restateVars, EditCost,
        CloseRead, RequestRestatement, WidenAsk, FindHolder, FoldAsk,
        ReleaseHolder, CreateJob, CreateKeyless, SelectJob, LeaseJob,
        CloseFreeze, CloseLock, ReopenPeriod, CheckClosed, ReadReported,
        Freeze, CountPending, ReadBefore, AwaitRecompute, Rewrite, ReadAfter,
        RecordMove, TallyMove, Return, LoadMonth, WriteMonth, OtherRecompute,
        ResyncOrder, ProcessDies
  <1>2. ASSUME NEW d \in Calls, job[d].status = "failed"
        PROVE  job'[d].status = "failed"
    <2>1. ASSUME NEW c \in Calls, RequestRestatement(c)
          PROVE  job'[d].status = "failed"
      BY <1>2, <2>1, AskRows
    <2>2. CASE RunJob
      <3>1. CASE work.pc = "idle"
        <4>1. job' = job
          BY <2>2, <3>1
          DEF RunJob, At, SelectJob, LeaseJob, CheckClosed, ReadReported,
              Freeze, CountPending, AwaitRecompute, ReadBefore, Rewrite,
              ReadAfter, TallyMove, Return, RecordMove
        <4> QED
          BY <1>2, <4>1
      <3>2. CASE work.pc # "idle"
        <4>1. d # work.id
          BY <1>2, <3>2 DEF CallInv, Unfinished
        <4> QED
          BY <1>2, <2>2, <4>1, RunRows
      <3> QED
        BY <3>1, <3>2
    <2>3. WriteMonth \/ ProcessDies => job' = job
      BY DEF WriteMonth, ProcessDies
    <2> QED
      BY <1>2, <2>1, <2>2, <2>3, Steps
  <1> QED
    BY <1>1, <1>2 DEF NoneFailed

(* A request leaves a job that covers its window, and none of the windows  *)
(* that were covered is given up.                                          *)
LEMMA AskCovers ==
    ASSUME RestateTypeOK, CallInv, HeldInv,
           NEW c \in Calls, RequestRestatement(c), ~crossed', NEW m \in Months,
           (Accept(c) /\ m >= asking[c].ask.from) \/ Unfulfilled(m)
    PROVE  Unfulfilled(m)'
  <1>j. job \in [Calls -> Job] /\ m \in Nat /\ asking[c].ask.from \in Nat
    BY AskReads, Calendar DEF RestateTypeOK
  <1>w. work' = work
    BY AskTouches
  <1>n. ~crossed
    BY DEF RequestRestatement, WidenAsk, FindHolder, FoldAsk, ReleaseHolder,
           CreateJob, CreateKeyless
  <1>r. work.pc \in Recording =>
          work.id \in Calls /\ job[work.id].status = "running"
    BY <1>n DEF HeldInv, CallInv, Recording
  <1>s. \A d \in Calls : job[d].from \in Nat
    BY <1>j, Calendar DEF Job
  <1>1. ASSUME FoldAsk(c)
        PROVE  LET e == asking[c].existing
               IN  /\ e \in Calls /\ job'[e].status = "queued"
                   /\ \A n \in Nat : n >= job[e].from \/ n >= asking[c].ask.from
                                    => n >= job'[e].from
                   /\ ~(work.pc \in Recording /\ e = work.id)
    <2> DEFINE e == asking[c].existing
    <2>1. /\ job[e].status = "queued" /\ asking[c].seen.status = "queued"
          /\ asking[c].seen.from = job[e].from /\ asking[c].pc = "fold"
      BY <1>1 DEF FoldAsk, AsRead
    <2>2. e \in Calls
      BY <2>1 DEF CallInv, RestateTypeOK, Call
    <2>3. job' = [job EXCEPT ![e] = [job[e] EXCEPT !.from = WidenedFrom(c),
                                                 !.inc = asking[c].ask.inc]]
      BY <1>1 DEF FoldAsk
    <2> HIDE DEF e
    <2>4. job'[e] = [job[e] EXCEPT !.from = WidenedFrom(c),
                                   !.inc = asking[c].ask.inc]
      BY <1>j, <2>2, <2>3
    <2>5. job'[e].status = "queued" /\ job'[e].from = WidenedFrom(c)
      BY <1>j, <2>1, <2>2, <2>4 DEF Job
    <2>6. WidenedFrom(c) = Earlier(job[e].from, asking[c].ask.from)
      BY <2>1 DEF WidenedFrom
    <2>7. \A n \in Nat : n >= job[e].from \/ n >= asking[c].ask.from
                        => n >= Earlier(job[e].from, asking[c].ask.from)
      BY <1>j, <1>s, <2>2 DEF Earlier
    <2>8. ~(work.pc \in Recording /\ e = work.id)
      BY <1>r, <2>1
    <2>9. /\ e \in Calls /\ job'[e].status = "queued"
          /\ \A n \in Nat : n >= job[e].from \/ n >= asking[c].ask.from
                           => n >= job'[e].from
          /\ ~(work.pc \in Recording /\ e = work.id)
      BY <2>2, <2>5, <2>6, <2>7, <2>8
    <2> QED
      BY <2>9 DEF e
  <1>2. ASSUME NEW d \in Calls, Covers(d, m)
        PROVE  Covers(d, m)'
    <2>1. CASE /\ job'[d].status = job[d].status
               /\ job'[d].from = job[d].from
      BY <1>w, <1>2, <2>1 DEF Covers, Unfinished
    <2>2. CASE FoldAsk(c) /\ d = asking[c].existing
      BY <1>j, <1>w, <1>1, <1>2, <2>2 DEF Covers, Unfinished
    <2>3. job[d].status # "absent"
      BY <1>2 DEF Covers, Unfinished
    <2> QED
      BY <2>1, <2>2, <2>3, AskRows
  <1>3. ASSUME Accept(c), m >= asking[c].ask.from
        PROVE  Unfulfilled(m)'
    <2>1. CASE FoldAsk(c)
      <3> DEFINE e == asking[c].existing
      <3>2. /\ e \in Calls /\ job'[e].status = "queued" /\ m >= job'[e].from
            /\ ~(work'.pc \in Recording /\ e = work'.id)
        BY <1>j, <1>w, <1>1, <1>3, <2>1
      <3> HIDE DEF e
      <3>1. \E i \in Calls : Covers(i, m)'
        BY <3>2 DEF Covers, Unfinished
      <3> QED
        BY <3>1 DEF Unfulfilled
    <2>2. CASE ~FoldAsk(c)
      <3>1. job'[c].status = "queued" /\ job'[c].from = WidenedFrom(c)
            /\ asking[c].pc # "accepted"
        <4>1. asking'[c].pc = "accepted"
          BY <1>3, AskAccepts
        <4> QED
          BY <2>2, <4>1, AskAccepts
      <3>2. m >= WidenedFrom(c)
        <4>1. asking[c].seen.from \in Nat
          BY Calendar DEF RestateTypeOK, Call, Job
        <4> QED
          BY <1>j, <1>3, <4>1 DEF WidenedFrom, Earlier
      <3>3. ~(work.pc \in Recording /\ c = work.id)
        <4>1. job[c].status = "absent"
          BY <3>1 DEF CallInv
        <4> QED
          BY <1>r, <4>1
      <3>4. Covers(c, m)'
        BY <1>w, <3>1, <3>2, <3>3 DEF Covers, Unfinished
      <3> QED
        BY <3>4 DEF Unfulfilled
    <2> QED
      BY <2>1, <2>2
  <1> QED
    BY <1>2, <1>3 DEF Unfulfilled

(* A covered month stays covered until a worker has seen or brought its    *)
(* line items on its basis, or its job is given up.                        *)
LEMMA CoverMoves ==
    ASSUME RestateTypeOK, CallInv, HeldInv, [RestateNext]_restateVars,
           ~crossed', NoneFailed', NEW m \in Trading, Unfulfilled(m)
    PROVE  \/ Unfulfilled(m)'
           \/ line'[m] = basis[m] /\ owed' = owed
  <1>m. m \in Months /\ m \in Nat
    BY Calendar
  <1>j. job \in [Calls -> Job] /\ work \in Runner /\ work.job \in Job
    BY DEF RestateTypeOK, Runner
  <1>n. ~crossed
    BY ExceptionsStay
  <1>c. PICK d \in Calls : Covers(d, m)
    BY DEF Unfulfilled
  <1>1. ASSUME NEW c \in Calls, RequestRestatement(c)
        PROVE  Unfulfilled(m)'
    BY <1>1, <1>m, AskCovers
  <1>2. CASE UNCHANGED <<job, asking, work, moved, owed, crossed>>
    BY <1>2 DEF Unfulfilled, Covers, Unfinished
  <1>3. CASE ProcessDies
    BY <1>3, <1>c DEF ProcessDies, Unfulfilled, Covers, Unfinished, IdleWork,
                      Recording
  <1>4. CASE WriteMonth
    <2>1. job' = job /\ work'.id = work.id
          /\ (work'.pc \in Recording => work.pc \in Recording)
      BY <1>4, WakeMoves DEF WriteMonth, Recording
    <2> QED
      BY <1>c, <2>1 DEF Unfulfilled, Covers, Unfinished
  <1>5. ASSUME RunJob, d # work.id, work' = IdleWork \/ work'.id = work.id
                                    \/ \E c \in Calls : SelectJob(c)
        PROVE  Unfulfilled(m)'
    <2>1. job'[d] = job[d]
      BY <1>5, RunRows
    <2>2. ~(work'.pc \in Recording /\ d = work'.id)
      <3>1. CASE work' = IdleWork \/ \E c \in Calls : SelectJob(c)
        <4>1. work' = IdleWork => work'.pc = "idle"
          BY DEF IdleWork
        <4>2. ASSUME NEW c \in Calls, SelectJob(c)
              PROVE  work'.pc = "lease"
          BY <4>2 DEF SelectJob, IdleWork
        <4> QED
          BY <3>1, <4>1, <4>2 DEF Recording
      <3>2. CASE work'.id = work.id
        BY <1>5, <3>2
      <3> QED
        BY <1>5, <3>1, <3>2
    <2> QED
      BY <1>c, <2>1, <2>2 DEF Unfulfilled, Covers, Unfinished
  <1>6. ASSUME NEW c \in Calls, SelectJob(c)
        PROVE  Unfulfilled(m)'
    BY <1>c, <1>6 DEF SelectJob, IdleWork, Unfulfilled, Covers, Unfinished,
                      Recording
  <1>7. CASE LeaseJob
    <2>1. work'.id = work.id /\ work'.pc = "check"
      BY <1>j, <1>7 DEF LeaseJob, Runner
    <2>2. CASE d # work.id
      BY <1>5, <1>7, <2>1, <2>2 DEF RunJob
    <2>3. CASE d = work.id
      <3>1. job'[d] = LeasedJob(job[d])
        BY <1>j, <1>7, <2>3 DEF LeaseJob
      <3>2. job'[d].status = "running" /\ job'[d].from = job[d].from
        BY <1>j, <3>1 DEF LeasedJob, Job
      <3> QED
        BY <1>c, <2>1, <3>2 DEF Unfulfilled, Covers, Unfinished, Recording
    <2> QED
      BY <2>2, <2>3
  <1>h. work.pc \notin {"idle", "lease"} /\ d = work.id
        => m >= work.job.from /\ work.pc \notin Recording
    BY <1>c, <1>n DEF HeldInv, Covers
  <1>8. CASE CheckClosed
    <2>1. CASE d # work.id
      <3>1. work' = IdleWork \/ work'.id = work.id
        BY <1>j, <1>8 DEF CheckClosed, Refuse, Settle, Goto, Runner
      <3> QED
        BY <1>5, <1>8, <2>1, <3>1 DEF RunJob
    <2>2. CASE d = work.id
      <3>1. CASE Settle("failed")
        <4>1. job'[d] = [job[d] EXCEPT !.status = "failed", !.keyed = FALSE]
          BY <1>j, <2>2, <3>1 DEF Settle
        <4>2. job'[d].status = "failed"
          BY <1>j, <4>1 DEF Job
        <4> QED
          BY <4>2 DEF NoneFailed
      <3>2. CASE /\ job' = [job EXCEPT ![work.id].status = "queued"]
                 /\ work' = IdleWork
        <4>1. job'[d] = [job[d] EXCEPT !.status = "queued"]
          BY <1>j, <2>2, <3>2
        <4>2. job'[d].status = "queued" /\ job'[d].from = job[d].from
          BY <1>j, <4>1 DEF Job
        <4> QED
          BY <1>c, <3>2, <4>2 DEF Unfulfilled, Covers, Unfinished, IdleWork,
                                  Recording
      <3>3. CASE Goto("report") /\ UNCHANGED job
        <4>1. work'.pc = "report" /\ job' = job
          BY <1>j, <3>3 DEF Goto, Runner
        <4> QED
          BY <1>c, <4>1 DEF Unfulfilled, Covers, Unfinished, Recording
      <3> QED
        BY <1>8, <3>1, <3>2, <3>3 DEF CheckClosed, Refuse
    <2> QED
      BY <2>1, <2>2
  <1>9. ASSUME CountPending \/ Rewrite \/ Return, work' = IdleWork
        PROVE  Unfulfilled(m)' \/ (line'[m] = basis[m] /\ owed' = owed)
    <2>1. CASE d # work.id
      BY <1>5, <1>9, <2>1 DEF RunJob
    <2>2. CASE d = work.id
      <3>1. work.pc \in {"count", "rewrite"} /\ m >= work.job.from
        BY <1>9, <1>h, <2>2 DEF CountPending, Rewrite, Return, At, Recording
      <3>2. CASE Rewrite
        BY <1>m, <3>1, <3>2 DEF Rewrite, Candidates, Window
      <3>3. CASE CountPending
        <4>1. Candidates = {}
          BY <1>9, <1>j, <3>3 DEF CountPending, Goto, IdleWork, At, Runner
        <4> QED
          BY <1>m, <3>1, <3>3, <4>1 DEF CountPending, Candidates, Window, books
      <3> QED
        BY <1>9, <3>1, <3>2, <3>3 DEF Return, At
    <2> QED
      BY <2>1, <2>2
  <1>10. ASSUME Rewrite, work' # IdleWork
         PROVE  Unfulfilled(m)' \/ (line'[m] = basis[m] /\ owed' = owed)
    <2>1. work'.id = work.id /\ job' = job /\ work.pc = "rewrite"
          /\ owed' = owed
      BY <1>10, <1>j DEF Rewrite, Settle, At, Runner
    <2>2. CASE d # work.id
      BY <1>5, <1>10, <2>1, <2>2 DEF RunJob
    <2>3. CASE d = work.id
      BY <1>10, <1>h, <1>m, <2>1, <2>3 DEF Rewrite, Candidates, Window
    <2> QED
      BY <2>2, <2>3
  <1>11. ASSUME RunJob, work'.id = work.id, job' = job,
                work'.pc \in Recording => work.pc \in Recording
         PROVE  Unfulfilled(m)'
    BY <1>c, <1>11 DEF Unfulfilled, Covers, Unfinished
  <1>12. CASE RunJob
    <2>1. CASE work' = IdleWork
      <3>1. CheckClosed \/ CountPending \/ Rewrite \/ Return
        BY <1>12, <2>1, RunJobMoves DEF IdleWork
      <3> QED
        BY <1>8, <1>9, <2>1, <3>1
    <2>2. CASE work' # IdleWork /\ Rewrite
      BY <1>10, <2>2
    <2>3. CASE work' # IdleWork /\ ~Rewrite
      <3>1. work.pc # "rewrite"
        BY <1>12, <2>3
        DEF RunJob, At, SelectJob, LeaseJob, CheckClosed, ReadReported, Freeze,
            CountPending, AwaitRecompute, ReadBefore, ReadAfter, TallyMove,
            Return, RecordMove
      <3> QED
        BY <1>6, <1>7, <1>11, <1>12, <2>3, <3>1, RunJobMoves DEF Recording
    <2> QED
      BY <2>1, <2>2, <2>3
  <1> QED
    BY <1>1, <1>2, <1>3, <1>4, <1>12, Steps

LEMMA AppliedStep ==
    RestateTypeOK /\ AppliedInv /\ [RestateNext]_restateVars => AppliedInv'
  <1> SUFFICES ASSUME RestateTypeOK, AppliedInv, [RestateNext]_restateVars
               PROVE  AppliedInv'
    OBVIOUS
  <1>t. RestateTypeOK' /\ CallInv /\ HeldInv /\ CallInv' /\ HeldInv'
    BY RestateTypeStep, CallStep, HeldStep DEF AppliedInv
  <1>1. ASSUME NEW m \in Months
        PROVE  owed'[m] <= basis'[m]
    <2>1. owed[m] <= basis[m] /\ basis[m] \in Nat /\ owed[m] \in Nat
      BY BooksTyped DEF AppliedInv
    <2>2. basis'[m] \in Nat
      <3>1. basis' \in [Months -> Nat]
        BY <1>t, Zenon DEF RestateTypeOK, ByMonth
      <3> QED
        BY <3>1
    <2> QED
      BY <2>1, <2>2, BooksMove
  <1>3. ASSUME ~crossed', NoneFailed', NEW m \in Trading
        PROVE  line'[m] >= owed'[m] \/ Unfulfilled(m)'
    <2>1. m \in Months /\ ~crossed /\ NoneFailed
      BY <1>t, <1>3, Calendar, ExceptionsStay
    <2>2. /\ basis[m] \in Nat /\ line[m] \in Nat /\ owed[m] \in Nat
          /\ owed[m] <= basis[m]
      BY <2>1, BooksTyped DEF AppliedInv
    <2>3. line'[m] = line[m] \/ line'[m] = basis[m]
      BY <2>1, BooksMove
    <2>4. CASE Unfulfilled(m)
      BY <1>t, <1>3, <2>2, <2>4, CoverMoves
    <2>5. CASE line[m] >= owed[m]
      <3>1. CASE owed'[m] = owed[m]
        BY <2>2, <2>3, <2>5, <3>1
      <3>2. ASSUME NEW c \in Calls, RequestRestatement(c)
            PROVE  owed'[m] = owed[m] \/ Unfulfilled(m)'
        <4>1. \/ owed'[m] = owed[m]
              \/ Accept(c) /\ m >= asking[c].ask.from
          <5>1. owed' = owed \/ Accept(c)
            BY <3>2, AskAccepts
          <5> QED
            BY <2>1, <5>1 DEF Accept
        <4> QED
          BY <1>t, <1>3, <2>1, <3>2, <4>1, AskCovers
      <3>3. \/ owed' = owed
            \/ \E c \in Calls : RequestRestatement(c)
        BY
        DEF RestateNext, Merchant, RunJob, Recompute, restateVars, EditCost,
            CloseRead, CloseFreeze, CloseLock, ReopenPeriod, SelectJob,
            LeaseJob, CheckClosed, ReadReported, Freeze, CountPending,
            ReadBefore, AwaitRecompute, Rewrite, ReadAfter, RecordMove,
            TallyMove, Return, LoadMonth, WriteMonth, OtherRecompute,
            ResyncOrder, ProcessDies
      <3> QED
        BY <3>1, <3>2, <3>3
    <2> QED
      BY <1>3, <2>1, <2>4, <2>5 DEF AppliedInv
  <1> QED
    BY <1>t, <1>1, <1>3 DEF AppliedInv

(* An accepted request reaches the line items it asked for across bursts,  *)
(* crashes and retries, unless its job is given up or a payload is written *)
(* or leased over one that has changed since it was read.                  *)
THEOREM AskedAreApplied == RestateSpec => []AskedIsApplied
  <1>1. RestateInit => RestateTypeOK /\ AppliedInv
    BY RestateTypeInit, AppliedInit
  <1>2. RestateTypeOK /\ AppliedInv /\ [RestateNext]_restateVars
        => (RestateTypeOK /\ AppliedInv)'
    BY RestateTypeStep, AppliedStep
  <1>3. AppliedInv => AskedIsApplied
    BY DEF AppliedInv, AskedIsApplied, AllAskedApplied, NoneFailed, Rest,
           Unfulfilled, Covers
  <1> QED
    BY <1>1, <1>2, <1>3, PTL DEF RestateSpec

-----------------------------------------------------------------------------
(* The audit trail of undisturbed runs                                     *)

(* With no crash, no order sent again and no recompute from elsewhere: a   *)
(* month that a run has rewritten is unrecorded until its count is up, and *)
(* unlogged until its record is appended; its ledger is unwritten until    *)
(* the run's recompute has come to it.                                     *)
Undisturbed == \A k \in {"crash", "resync", "recompute"} : spent[k] = 0
Unrecorded(m) == work.pc \in Recording /\ m \in work.affected
Unlogged(m)   == Unrecorded(m) /\ ~(work.pc = "tally" /\ m = work.month)
Unwritten(m)  == /\ Unrecorded(m)
                 /\ \/ work.pc = "materialise"
                    \/ work.pc = "materialise_wait" /\ m >= rc.month

(* A recompute is in flight for a run that waits for it, and the figures a *)
(* run has read are the ledger's.                                          *)
ReadInv ==
    /\ rc.pc # "idle" => work.pc \in {"baseline_wait", "materialise_wait"}
    /\ rc.pc = "write" => rc.value = line[rc.month]
    /\ work.pc = "tally" => work.month \in work.affected
    /\ \A m \in Months :
         /\ work.pc = "rewrite" => work.before[m] = line[m]
         /\ work.pc \in {"record", "tally"} => work.after[m] = line[m]

(* Until its first freeze a month has never moved, so that every caller    *)
(* who freezes it freezes the same figure.                                 *)
Unmoved(m) ==
    /\ snap[m].cogs = 0
    /\ ~snap[m].kept =>
         /\ line[m] = 0
         /\ ~Unrecorded(m)
         /\ closing.pc = "freeze" /\ closing.month = m => closing.value = 0
         /\ work.pc = "freeze" => work.reported[m] = 0

(* The trail of a month leads to where its line items are, or were before  *)
(* the move that is about to be logged.                                    *)
Tip(m) == IF log[m] = <<>> THEN 0 ELSE log[m][Len(log[m])].after
Trail(m) ==
    /\ moved[m] = Len(log[m]) + IF Unlogged(m) THEN 1 ELSE 0
    /\ moved[m] = snap[m].count + IF Unrecorded(m) THEN 1 ELSE 0
    /\ Tip(m) = IF Unlogged(m) THEN work.before[m] ELSE line[m]
    /\ log[m] # <<>> => log[m][1].before = 0
    /\ \A i \in 2..Len(log[m]) : log[m][i].before = log[m][i - 1].after
Written(m) == ~Unwritten(m) => ledger[m] = line[m]

TrailInv == /\ ReadInv
            /\ \A m \in Months : Unmoved(m) /\ Written(m) /\ Trail(m)
UndisturbedInv == Undisturbed => TrailInv

LEMMA TrailInit == RestateInit => UndisturbedInv
  <1> SUFFICES ASSUME RestateInit
               PROVE  TrailInv
    BY DEF UndisturbedInv
  <1>1. work.pc = "idle" /\ rc.pc = "idle" /\ closing.pc = "idle"
    BY DEF RestateInit, IdleWork, IdleRun, NoClosing
  <1>2. ASSUME NEW m \in Months
        PROVE  /\ line[m] = 0 /\ ledger[m] = 0 /\ moved[m] = 0
               /\ log[m] = <<>> /\ snap[m].cogs = 0 /\ snap[m].count = 0
    BY <1>2 DEF RestateInit, Zero
  <1>3. \A m \in Months : ~Unrecorded(m)
    BY <1>1 DEF Unrecorded, Recording
  <1>4. ReadInv
    BY <1>1 DEF ReadInv
  <1>5. \A m \in Months : Unmoved(m) /\ Written(m)
    BY <1>1, <1>2, <1>3 DEF Unmoved, Written
  <1>6. ASSUME NEW m \in Months
        PROVE  Trail(m)
    <2>1. Len(log[m]) = 0 /\ 2..Len(log[m]) = {} /\ Tip(m) = 0
      BY <1>2 DEF Tip
    <2>2. ~Unrecorded(m) /\ ~Unlogged(m)
      BY <1>3 DEF Unlogged
    <2> QED
      BY <1>2, <2>1, <2>2 DEF Trail
  <1> QED
    BY <1>4, <1>5, <1>6 DEF TrailInv

(* Disturbances are never forgotten.                                       *)
LEMMA SpentMoves ==
    ASSUME RestateTypeOK, [RestateNext]_restateVars, Undisturbed'
    PROVE  /\ Undisturbed
           /\ ~ProcessDies /\ ~OtherRecompute /\ \A m \in Months : ~ResyncOrder(m)
  <1>1. \A k \in Causes : spent[k] \in Nat /\ spent'[k] \in Nat
    BY RestateTypeStep DEF RestateTypeOK
  <1>2. ASSUME NEW k \in Causes, Spend(k)
        PROVE  /\ \A c \in Causes : spent'[c] >= spent[c]
               /\ spent'[k] > 0
    BY <1>1, <1>2 DEF Spend, RestateTypeOK
  <1>3. \/ UNCHANGED spent
        \/ \E k \in Causes : Spend(k)
    BY
    DEF RestateNext, Merchant, RunJob, Recompute, restateVars, EditCost,
        CloseRead,
           RequestRestatement, WidenAsk, FindHolder, FoldAsk, ReleaseHolder,
           CreateJob, CreateKeyless, SelectJob, LeaseJob,
           CloseFreeze, CloseLock, ReopenPeriod,
           CheckClosed, ReadReported, Freeze, CountPending, ReadBefore,
           AwaitRecompute, Rewrite, ReadAfter, RecordMove, TallyMove, Return,
           LoadMonth, WriteMonth, OtherRecompute, ResyncOrder, ProcessDies,
           Causes
  <1>4. \A c \in Causes : spent'[c] >= spent[c]
    BY <1>1, <1>2, <1>3
  <1>5. Undisturbed
    BY <1>1, <1>4 DEF Undisturbed, Causes
  <1>6. ASSUME NEW k \in {"crash", "resync", "recompute"}
        PROVE  ~Spend(k)
    BY <1>1, <1>2 DEF Undisturbed, Causes
  <1> QED
    BY <1>5, <1>6 DEF ProcessDies, OtherRecompute, ResyncOrder

(* The merchant and the worker's steps outside of the record leave the     *)
(* trail as it is.                                                         *)
LEMMA TrailCarries ==
    ASSUME RestateTypeOK, TrailInv,
           UNCHANGED <<line, ledger, log, moved>>,
           \A m \in Months : snap'[m].count = snap[m].count,
           \A m \in Months : Unrecorded(m)' = Unrecorded(m),
           \A m \in Months : Unlogged(m)' = Unlogged(m),
           \A m \in Months : Unlogged(m) => work'.before[m] = work.before[m]
    PROVE  \A m \in Months : Trail(m)'
  <1> SUFFICES ASSUME NEW m \in Months
               PROVE  Trail(m)'
    OBVIOUS
  <1>1. Trail(m)
    BY DEF TrailInv
  <1>2. Tip(m)' = Tip(m)
    BY DEF Tip
  <1>3. /\ moved'[m] = moved[m] /\ log'[m] = log[m] /\ line'[m] = line[m]
        /\ snap'[m].count = snap[m].count
        /\ Unlogged(m)' = Unlogged(m) /\ Unrecorded(m)' = Unrecorded(m)
        /\ Unlogged(m) => work'.before[m] = work.before[m]
    OBVIOUS
  <1> QED
    BY <1>1, <1>2, <1>3, Zenon DEF Trail

(* Steps that touch neither the figures nor the trail: all but the run's   *)
(* own reads, its rewrite, its recompute and its records.                  *)
LEMMA MerchantKeepsTrail ==
    ASSUME RestateTypeOK, TrailInv, Merchant
    PROVE  TrailInv'
  <1>m. Months \subseteq Nat
    BY Calendar
  <1>1. /\ UNCHANGED <<line, ledger, log, moved, rc>>
        /\ work'.pc = work.pc /\ work'.affected = work.affected
        /\ work'.month = work.month /\ work'.before = work.before
        /\ work'.after = work.after /\ work'.reported = work.reported
    BY AskTouches DEF Merchant, EditCost, CloseRead, CloseFreeze, CloseLock,
                      ReopenPeriod, books
  <1>2. \A m \in Months : /\ Unrecorded(m)' = Unrecorded(m)
                          /\ Unlogged(m)' = Unlogged(m)
                          /\ Unwritten(m)' = Unwritten(m)
    BY <1>1 DEF Unrecorded, Unlogged, Unwritten
  <1>3. ReadInv'
    BY <1>1 DEF TrailInv, ReadInv
  <1>4. ASSUME NEW m \in Months
        PROVE  /\ snap'[m].count = snap[m].count
               /\ snap[m].kept => snap'[m].kept
               /\ snap'[m].cogs = 0
               /\ ~snap'[m].kept => (closing'.pc = "freeze" /\ closing'.month = m
                                     => closing'.value = 0)
    <2>s. snap \in [Months -> Snapshot] /\ snap[m] \in Snapshot
      BY DEF RestateTypeOK
    <2>u. Unmoved(m) /\ Written(m)
      BY DEF TrailInv
    <2>1. ASSUME UNCHANGED <<snap, closing>>
          PROVE  <1>4!2
      BY <2>1, <2>u DEF Unmoved
    <2>2. ASSUME NEW n \in Months, CloseRead(n)
          PROVE  <1>4!2
      <3>1. /\ UNCHANGED <<snap>>
            /\ closing' = [pc |-> "freeze", month |-> n, value |-> ledger[n]]
        BY <2>2 DEF CloseRead
      <3>2. ~snap[m].kept => ledger[m] = 0
        BY <2>u DEF Unmoved, Written, Unwritten
      <3> QED
        BY <2>u, <3>1, <3>2 DEF Unmoved
    <2>3. CASE CloseFreeze
      <3>1. /\ snap' = Frozen({closing.month} \cap Trading,
                              [Zero EXCEPT ![closing.month] = closing.value])
            /\ closing'.pc = "lock"
        BY <2>3 DEF CloseFreeze, RestateTypeOK
      <3>2. m \in {closing.month} /\ ~snap[m].kept
            => [Zero EXCEPT ![closing.month] = closing.value][m] = 0
        BY <2>3, <2>u DEF CloseFreeze, Unmoved, Zero
      <3>3. snap[m].cogs = 0
        BY <2>u DEF Unmoved
      <3> DEFINE months  == {closing.month} \cap Trading
                 figures == [Zero EXCEPT ![closing.month] = closing.value]
      <3>5. m \in months /\ ~snap[m].kept => figures[m] = 0
        BY <3>2
      <3>6. snap' = Frozen(months, figures)
        BY <3>1
      <3> HIDE DEF months, figures
      <3>4. /\ Frozen(months, figures)[m].kept = (snap[m].kept \/ m \in months)
            /\ Frozen(months, figures)[m].cogs =
                 IF m \in months /\ ~snap[m].kept THEN figures[m]
                                                  ELSE snap[m].cogs
            /\ Frozen(months, figures)[m].count = snap[m].count
        BY FrozenKeeps
      <3> QED
        BY <3>1, <3>3, <3>4, <3>5, <3>6
    <2>4. CASE CloseLock
      <3>1. snap[m].cogs = 0
        BY <2>u DEF Unmoved
      <3>2. /\ snap'[m].count = snap[m].count /\ snap'[m].cogs = snap[m].cogs
            /\ snap[m].kept => snap'[m].kept
        BY <2>4, <2>s DEF CloseLock, Snapshot
      <3> QED
        BY <2>4, <3>1, <3>2 DEF CloseLock, NoClosing
    <2>5. ASSUME NEW n \in Months, ReopenPeriod(n)
          PROVE  <1>4!2
      <3>1. snap[m].cogs = 0
        BY <2>u DEF Unmoved
      <3>2. /\ snap'[m].count = snap[m].count /\ snap'[m].cogs = snap[m].cogs
            /\ snap'[m].kept = snap[m].kept
        BY <2>5, <2>s DEF ReopenPeriod, Snapshot
      <3> QED
        BY <2>5, <2>u, <3>1, <3>2 DEF ReopenPeriod, Unmoved
    <2> QED
      BY <2>1, <2>2, <2>3, <2>4, <2>5, AskTouches DEF Merchant, EditCost
  <1>5. ASSUME NEW m \in Months
        PROVE  Unmoved(m)' /\ Written(m)'
    <2>1. Unmoved(m) /\ Written(m)
      BY DEF TrailInv
    <2> QED
      BY <1>1, <1>2, <1>4, <2>1, Zenon DEF Unmoved, Written
  <1>6. \A m \in Months : Trail(m)'
    BY <1>1, <1>2, <1>4, TrailCarries
  <1> QED
    BY <1>3, <1>5, <1>6 DEF TrailInv

(* Steps outside of the record, in which neither figures nor snapshots     *)
(* change, leave the trail as it is if what they read is right.            *)
LEMMA QuietSteps ==
    ASSUME RestateTypeOK, TrailInv,
           UNCHANGED <<line, ledger, log, moved, snap, closing>>,
           \A m \in Months : ~Unrecorded(m),
           work'.pc \notin Recording,
           rc'.pc # "idle" => work'.pc = "baseline_wait",
           rc'.pc = "write" => rc'.value = line[rc'.month],
           work'.pc = "rewrite" =>
             \A m \in Months : work'.before[m] = line[m],
           work'.pc = "freeze" =>
             \A m \in Months : ~snap[m].kept => work'.reported[m] = 0
    PROVE  TrailInv'
  <1>1. \A m \in Months : /\ ~Unrecorded(m)' /\ ~Unlogged(m)'
                          /\ ~Unlogged(m) /\ ~Unwritten(m)
    BY DEF Unrecorded, Unlogged, Unwritten
  <1>2. ReadInv'
    BY DEF ReadInv, Recording
  <1>3. ASSUME NEW m \in Months
        PROVE  Unmoved(m)' /\ Written(m)'
    <2>1. Unmoved(m) /\ Written(m)
      BY DEF TrailInv
    <2> QED
      BY <1>1, <2>1 DEF Unmoved, Written
  <1>4. \A m \in Months : Trail(m)'
    <2>1. \A m \in Months : snap'[m].count = snap[m].count
      OBVIOUS
    <2>2. \A m \in Months : Unrecorded(m)' = Unrecorded(m)
      BY <1>1 DEF Unrecorded
    <2>3. \A m \in Months : Unlogged(m)' = Unlogged(m)
      BY <1>1 DEF Unlogged, Unrecorded
    <2>4. \A m \in Months : Unlogged(m) => work'.before[m] = work.before[m]
      BY <1>1
    <2> QED
      BY <2>1, <2>2, <2>3, <2>4, TrailCarries
  <1> QED
    BY <1>2, <1>3, <1>4 DEF TrailInv

(* The run's steps up to its rewrite, but for the freeze, and its return.  *)
LEMMA ReadKeepsTrail ==
    ASSUME RestateTypeOK, TrailInv,
           \/ \E c \in Calls : SelectJob(c)
           \/ LeaseJob \/ CheckClosed \/ ReadReported \/ CountPending \/ ReadBefore
           \/ AwaitRecompute("baseline", "baseline_wait") \/ Return
    PROVE  TrailInv'
  <1>w. work \in Runner
    BY DEF RestateTypeOK
  <1>1. UNCHANGED <<line, ledger, log, moved, snap, closing>>
    BY DEF SelectJob, LeaseJob, CheckClosed, ReadReported, CountPending,
           ReadBefore, Return,
           AwaitRecompute, books
  <1>2. \A m \in Months : ~Unrecorded(m)
    BY DEF SelectJob, LeaseJob, CheckClosed, ReadReported, CountPending,
           ReadBefore, Return,
           AwaitRecompute, At, Unrecorded, Recording
  <1>3. rc.pc = "idle"
    BY DEF SelectJob, LeaseJob, CheckClosed, ReadReported, CountPending,
           ReadBefore, Return,
           AwaitRecompute, At, TrailInv, ReadInv
  <1>4. \A m \in Months : ledger[m] = line[m]
    BY <1>2 DEF TrailInv, Written, Unwritten
  <1>5. \A m \in Months : ~snap[m].kept => line[m] = 0
    BY DEF TrailInv, Unmoved
  <1>6. ASSUME work'.pc \notin Recording \cup {"freeze", "rewrite"},
               UNCHANGED rc
        PROVE  TrailInv'
    BY <1>1, <1>2, <1>3, <1>6, QuietSteps
  <1>7. ASSUME NEW c \in Calls, SelectJob(c)
        PROVE  TrailInv'
    BY <1>6, <1>7 DEF SelectJob, IdleWork, Recording
  <1>14. CASE LeaseJob
    BY <1>w, <1>6, <1>14 DEF LeaseJob, Recording, Runner
  <1>8. CASE CheckClosed
    BY <1>w, <1>6, <1>8
    DEF CheckClosed, Refuse, Settle, Goto, IdleWork, Recording, Runner
  <1>9. CASE ReadReported
    <2>1. UNCHANGED rc /\ work'.pc = "freeze" /\ work'.reported = ledger
      BY <1>w, <1>9 DEF ReadReported, Runner
    <2> QED
      BY <1>1, <1>2, <1>3, <1>4, <1>5, <2>1, QuietSteps DEF Recording
  <1>10. CASE CountPending
    BY <1>w, <1>6, <1>10
    DEF CountPending, Settle, Goto, IdleWork, Recording, Runner
  <1>11. CASE ReadBefore
    <2>1. UNCHANGED rc /\ work'.pc = "rewrite" /\ work'.before = ledger
      BY <1>w, <1>11 DEF ReadBefore, Runner
    <2> QED
      BY <1>1, <1>2, <1>3, <1>4, <2>1, QuietSteps DEF Recording
  <1>12. CASE AwaitRecompute("baseline", "baseline_wait")
    <2>1. rc'.pc = "load" /\ work'.pc = "baseline_wait"
      BY <1>w, <1>3, <1>12 DEF AwaitRecompute, StartRun, Goto, Runner
    <2> QED
      BY <1>1, <1>2, <2>1, QuietSteps DEF Recording
  <1>13. CASE Return
    BY <1>6, <1>13 DEF Return, Settle, IdleWork, Recording
  <1> QED
    BY <1>7, <1>14, <1>8, <1>9, <1>10, <1>11, <1>12, <1>13

(* The freeze: what is frozen is what was reported, zero for a month that  *)
(* had not been.                                                           *)
LEMMA FreezeKeepsTrail ==
    ASSUME RestateTypeOK, TrailInv, Freeze
    PROVE  TrailInv'
  <1>w. work \in Runner
    BY DEF RestateTypeOK
  <1>1. /\ UNCHANGED <<line, ledger, log, moved, rc, closing>>
        /\ work.pc = "freeze" /\ work'.pc = "count"
        /\ snap' = Frozen(Window(work.job) \cap Trading, work.reported)
    BY <1>w DEF Freeze, Goto, At, Runner, books
  <1>2. \A m \in Months : /\ ~Unrecorded(m) /\ ~Unrecorded(m)'
                          /\ ~Unlogged(m) /\ ~Unlogged(m)'
                          /\ ~Unwritten(m)
    BY <1>1 DEF Unrecorded, Unlogged, Unwritten, Recording
  <1>3. ReadInv'
    BY <1>1 DEF TrailInv, ReadInv
  <1>4. ASSUME NEW m \in Months
        PROVE  /\ snap'[m].count = snap[m].count
               /\ Unmoved(m)' /\ Written(m)'
    <2>1. Unmoved(m) /\ Written(m)
      BY DEF TrailInv
    <2> DEFINE months == Window(work.job) \cap Trading
    <2>2. snap' = Frozen(months, work.reported)
      BY <1>1
    <2> HIDE DEF months
    <2>3. /\ Frozen(months, work.reported)[m].kept
               = (snap[m].kept \/ m \in months)
          /\ Frozen(months, work.reported)[m].cogs =
               IF m \in months /\ ~snap[m].kept THEN work.reported[m]
                                                ELSE snap[m].cogs
          /\ Frozen(months, work.reported)[m].count = snap[m].count
      BY FrozenKeeps
    <2>4. snap'[m].cogs = 0 /\ (snap[m].kept => snap'[m].kept)
      BY <1>1, <2>1, <2>2, <2>3 DEF Unmoved
    <2> QED
      BY <1>1, <1>2, <2>1, <2>2, <2>3, <2>4 DEF Unmoved, Written
  <1>5. \A m \in Months : Trail(m)'
    <2>1. \A m \in Months : snap'[m].count = snap[m].count
      BY <1>4
    <2>2. \A m \in Months : Unrecorded(m)' = Unrecorded(m)
      BY <1>2 DEF Unrecorded
    <2>3. \A m \in Months : Unlogged(m)' = Unlogged(m)
      BY <1>2 DEF Unlogged, Unrecorded
    <2>4. \A m \in Months : Unlogged(m) => work'.before[m] = work.before[m]
      BY <1>2
    <2> QED
      BY <1>1, <2>1, <2>2, <2>3, <2>4, TrailCarries
  <1> QED
    BY <1>3, <1>4, <1>5 DEF TrailInv

(* The rewrite moves frozen months only, and remembers which and whence.   *)
LEMMA RewriteKeepsTrail ==
    ASSUME RestateTypeOK, FrozenInv, TrailInv, Rewrite
    PROVE  TrailInv'
  <1>w. work \in Runner
    BY DEF RestateTypeOK
  <1>1. /\ UNCHANGED <<ledger, log, snap, rc, closing>>
        /\ work.pc = "rewrite" /\ rc.pc = "idle"
    BY DEF Rewrite, At, TrailInv, ReadInv
  <1>2. \/ Candidates = {} /\ work' = IdleWork
        \/ /\ Candidates # {} /\ work'.pc = "materialise"
           /\ work'.affected = Candidates /\ work'.before = work.before
    BY <1>w DEF Rewrite, Settle, Runner
  <1>3. \A m \in Months : /\ ~Unrecorded(m) /\ ~Unlogged(m) /\ ~Unwritten(m)
                          /\ Unrecorded(m)' <=> m \in Candidates
                          /\ Unlogged(m)' <=> m \in Candidates
                          /\ Unwritten(m)' <=> m \in Candidates
    <2>1. CASE work' = IdleWork /\ Candidates = {}
      <3>1. work'.pc = "idle"
        BY <2>1 DEF IdleWork
      <3> QED
        BY <1>1, <2>1, <3>1 DEF Unrecorded, Unlogged, Unwritten, Recording
    <2>2. CASE work'.pc = "materialise" /\ work'.affected = Candidates
      BY <1>1, <2>2 DEF Unrecorded, Unlogged, Unwritten, Recording
    <2> QED
      BY <1>2, <2>1, <2>2
  <1>4. ReadInv'
    BY <1>1, <1>2 DEF ReadInv, IdleWork
  <1>5. ASSUME NEW m \in Months
        PROVE  Unmoved(m)' /\ Written(m)' /\ Trail(m)'
    <2>1. Unmoved(m) /\ Written(m) /\ Trail(m)
      BY DEF TrailInv
    <2>2. work.before[m] = line[m]
      BY <1>1 DEF TrailInv, ReadInv
    <2>3. m \in Candidates => snap[m].kept
      BY <1>1 DEF FrozenInv, Moving, Candidates
    <2>4. CASE m \in Candidates
      <3>1. moved'[m] = moved[m] + 1 /\ moved[m] \in Nat
        BY <2>4, BooksTyped DEF Rewrite
      <3>2. Unmoved(m)' /\ Written(m)'
        BY <1>1, <1>3, <2>1, <2>3, <2>4 DEF Unmoved, Written
      <3>3. Tip(m)' = Tip(m) /\ work'.before[m] = line[m]
        BY <1>1, <1>2, <2>2, <2>4 DEF Tip
      <3>4. /\ moved[m] = Len(log[m]) + 0 /\ moved[m] = snap[m].count + 0
            /\ Tip(m) = line[m]
        BY <1>3, <2>1, Zenon DEF Trail
      <3>5. Len(log[m]) \in Nat /\ snap[m].count \in Nat
        BY SnapLogTyped
      <3>6. /\ Unlogged(m)' /\ Unrecorded(m)'
            /\ log'[m] = log[m] /\ snap'[m].count = snap[m].count
            /\ Tip(m)' = work'.before[m]
        BY <1>1, <1>3, <2>4, <3>3, <3>4
      <3>7. moved'[m] = Len(log[m]) + 1 /\ moved'[m] = snap[m].count + 1
        BY <3>1, <3>4, <3>5
      <3>8. Trail(m)'
        BY <2>1, <3>6, <3>7, Zenon DEF Trail
      <3> QED
        BY <3>2, <3>8
    <2>5. CASE m \notin Candidates
      <3>1. moved'[m] = moved[m] /\ line'[m] = line[m]
        BY <2>5 DEF Rewrite
      <3>2. work'.pc # "freeze"
        BY <1>2 DEF IdleWork
      <3>3. Unmoved(m)' /\ Written(m)'
        BY <1>1, <1>3, <2>1, <2>5, <3>1, <3>2 DEF Unmoved, Written
      <3>4. Tip(m)' = Tip(m)
        BY <1>1 DEF Tip
      <3>5. Trail(m)'
        BY <1>1, <1>3, <2>1, <2>5, <3>1, <3>4 DEF Trail
      <3> QED
        BY <3>3, <3>5
    <2> QED
      BY <2>4, <2>5
  <1> QED
    BY <1>4, <1>5 DEF TrailInv

(* A step that neither rewrites nor records, while a run has moved months  *)
(* or waits: what matters is where the ledger has been written.            *)
LEMMA WaitingSteps ==
    ASSUME RestateTypeOK, TrailInv,
           UNCHANGED <<line, log, moved, snap, closing>>,
           work'.affected = work.affected, work'.before = work.before,
           work.pc \in Recording <=> work'.pc \in Recording,
           work.pc \notin {"tally", "freeze"},
           work'.pc \notin {"tally", "freeze"},
           ReadInv', \A m \in Months : Written(m)'
    PROVE  TrailInv'
  <1>1. \A m \in Months : /\ Unrecorded(m)' = Unrecorded(m)
                          /\ Unlogged(m)' = Unlogged(m)
    BY DEF Unrecorded, Unlogged
  <1>2. ASSUME NEW m \in Months
        PROVE  Unmoved(m)' /\ Trail(m)'
    <2>1. Unmoved(m) /\ Trail(m)
      BY DEF TrailInv
    <2>2. Unmoved(m)'
      BY <1>1, <2>1 DEF Unmoved
    <2>3. Tip(m)' = Tip(m)
      BY DEF Tip
    <2>4. /\ moved'[m] = moved[m] /\ log'[m] = log[m] /\ line'[m] = line[m]
          /\ snap'[m].count = snap[m].count
          /\ work'.before[m] = work.before[m]
      OBVIOUS
    <2> QED
      BY <1>1, <2>1, <2>2, <2>3, <2>4, Zenon DEF Trail
  <1> QED
    BY <1>2 DEF TrailInv

(* The recompute that the run waits for, and the figures read after it.    *)
LEMMA RecomputeKeepsTrail ==
    ASSUME RestateTypeOK, TrailInv,
           \/ AwaitRecompute("materialise", "materialise_wait") \/ ReadAfter
           \/ LoadMonth \/ WriteMonth
    PROVE  TrailInv'
  <1>w. work \in Runner
    BY DEF RestateTypeOK
  <1>r. rc \in [pc : {"idle", "load", "write"}, month : Months, value : Nat]
    BY DEF RestateTypeOK
  <1>m. Months = 1..LastMonth /\ LastMonth \in Nat
    BY Calendar DEF Months
  <1>i. ReadInv /\ \A m \in Months : Written(m)
    BY DEF TrailInv
  <1>1. CASE AwaitRecompute("materialise", "materialise_wait")
    <2>1. /\ UNCHANGED <<line, ledger, log, moved, snap, closing>>
          /\ work.pc = "materialise" /\ work'.pc = "materialise_wait"
          /\ work'.affected = work.affected /\ work'.before = work.before
          /\ rc'.pc = "load" /\ rc'.month = 1
      BY <1>1, <1>w, <1>i
      DEF AwaitRecompute, StartRun, Goto, At, Runner, books, ReadInv
    <2>2. ReadInv'
      BY <2>1 DEF ReadInv
    <2>3. \A m \in Months : Written(m)'
      BY <1>i, <1>m, <2>1 DEF Written, Unwritten, Unrecorded, Recording
    <2> QED
      BY <2>1, <2>2, <2>3, WaitingSteps DEF Recording
  <1>2. CASE ReadAfter
    <2>1. /\ UNCHANGED <<line, ledger, log, moved, snap, closing, rc>>
          /\ work.pc = "after" /\ work'.pc = "record"
          /\ work'.affected = work.affected /\ work'.before = work.before
          /\ work'.after = ledger
      BY <1>2, <1>w DEF ReadAfter, At, Runner, books
    <2>2. \A m \in Months : ledger[m] = line[m]
      BY <1>i, <2>1 DEF Written, Unwritten
    <2>3. ReadInv'
      BY <1>i, <2>1, <2>2 DEF ReadInv
    <2>4. \A m \in Months : Written(m)'
      BY <2>1, <2>2 DEF Written
    <2> QED
      BY <2>1, <2>3, <2>4, WaitingSteps DEF Recording
  <1>3. CASE LoadMonth
    <2>1. /\ UNCHANGED <<line, ledger, log, moved, snap, closing, work>>
          /\ rc'.pc = "write" /\ rc'.month = rc.month
          /\ rc'.value = line[rc.month] /\ rc.pc = "load"
      BY <1>3, <1>r DEF LoadMonth, books
    <2>2. ReadInv'
      BY <1>i, <2>1 DEF ReadInv
    <2>3. \A m \in Months : Written(m)'
      BY <1>i, <2>1 DEF Written, Unwritten, Unrecorded
    <2>4. work.pc \in {"baseline_wait", "materialise_wait"}
      BY <1>i, <2>1 DEF ReadInv
    <2> QED
      BY <2>1, <2>2, <2>3, <2>4, WaitingSteps
  <1>4. CASE WriteMonth
    <2>1. /\ UNCHANGED <<line, log, moved, snap, closing>>
          /\ rc.pc = "write" /\ rc.value = line[rc.month]
          /\ work.pc \in {"baseline_wait", "materialise_wait"}
      BY <1>4, <1>i DEF WriteMonth, ReadInv
    <2>2. ledger' = [ledger EXCEPT ![rc.month] = line[rc.month]]
      BY <1>4, <2>1 DEF WriteMonth
    <2>3. \/ /\ rc.month < LastMonth /\ work' = work
             /\ rc'.pc = "load" /\ rc'.month = rc.month + 1
          \/ /\ rc.month = LastMonth /\ rc'.pc = "idle"
             /\ work'.pc = IF work.pc = "baseline_wait" THEN "before"
                                                        ELSE "after"
      <3>1. CASE rc.month < LastMonth
        BY <1>4, <3>1 DEF WriteMonth
      <3>2. CASE rc.month = LastMonth
        <4>1. rc'.pc = "idle" /\ work' = Woken
          BY <1>4, <1>m, <3>2 DEF WriteMonth, IdleRun
        <4> QED
          BY <1>w, <2>1, <3>2, <4>1 DEF Woken, Runner
      <3> QED
        BY <1>r, <1>m, <3>1, <3>2
    <2>4. work'.affected = work.affected /\ work'.before = work.before
      BY <1>4, WakeMoves
    <2>5. ReadInv'
      BY <1>i, <2>1, <2>3 DEF ReadInv
    <2>6. ASSUME NEW m \in Months
          PROVE  Written(m)'
      <3>1. ledger'[m] = IF m = rc.month THEN line[m] ELSE ledger[m]
        BY <2>2 DEF RestateTypeOK, ByMonth
      <3>2. m # rc.month => (Unwritten(m) => Unwritten(m)')
        BY <1>r, <1>m, <2>1, <2>3, <2>4
        DEF Unwritten, Unrecorded, Recording
      <3> QED
        BY <1>i, <2>1, <3>1, <3>2 DEF Written
    <2> QED
      BY <2>1, <2>3, <2>4, <2>5, <2>6, WaitingSteps DEF Recording
  <1> QED
    BY <1>1, <1>2, <1>3, <1>4

(* Logging a move that starts where the trail ends keeps the trail.        *)
LEMMA Logged ==
    ASSUME NEW s \in Seq(Record), NEW e \in Record,
           e.before = IF s = <<>> THEN 0 ELSE s[Len(s)].after,
           s # <<>> => s[1].before = 0,
           \A i \in 2..Len(s) : s[i].before = s[i - 1].after
    PROVE  /\ Len(Append(s, e)) = Len(s) + 1
           /\ Append(s, e) # <<>>
           /\ Append(s, e)[Len(Append(s, e))] = e
           /\ Append(s, e)[1].before = 0
           /\ \A i \in 2..Len(Append(s, e)) :
                Append(s, e)[i].before = Append(s, e)[i - 1].after
  <1>1. /\ Len(Append(s, e)) = Len(s) + 1 /\ Len(s) \in Nat
        /\ Append(s, e)[Len(s) + 1] = e
        /\ \A i \in 1..Len(s) : Append(s, e)[i] = s[i]
    OBVIOUS
  <1>2. Append(s, e)[1].before = 0
    <2>1. CASE s = <<>>
      BY <1>1, <2>1
    <2>2. CASE s # <<>>
      <3>1. 1 \in 1..Len(s)
        BY <2>2
      <3> QED
        BY <1>1, <2>2, <3>1
    <2> QED
      BY <2>1, <2>2
  <1>3. ASSUME NEW i \in 2..(Len(s) + 1)
        PROVE  Append(s, e)[i].before = Append(s, e)[i - 1].after
    <2>1. CASE i = Len(s) + 1
      <3>1. Len(s) \in 1..Len(s) /\ s # <<>> /\ i - 1 = Len(s)
        BY <1>1, <2>1
      <3> QED
        BY <1>1, <2>1, <3>1
    <2>2. CASE i # Len(s) + 1
      <3>1. i \in 2..Len(s) /\ i \in 1..Len(s) /\ i - 1 \in 1..Len(s)
        BY <1>1, <2>2
      <3> QED
        BY <1>1, <3>1
    <2> QED
      BY <2>1, <2>2
  <1>4. Append(s, e) # <<>>
    BY <1>1
  <1> QED
    BY <1>1, <1>2, <1>3, <1>4

(* One record per move, then its count.                                    *)
LEMMA RecordKeepsTrail ==
    ASSUME RestateTypeOK, TrailInv, NEW n \in Months, RecordMove(n)
    PROVE  TrailInv'
  <1>w. work \in Runner
    BY DEF RestateTypeOK
  <1>i. ReadInv /\ \A m \in Months : Unmoved(m) /\ Written(m) /\ Trail(m)
    BY DEF TrailInv
  <1>1. work.pc = "record" /\ n \in work.affected /\ snap[n].kept
    BY <1>i DEF RecordMove, At, Unmoved, Unrecorded, Recording
  <1>2. /\ UNCHANGED <<line, ledger, moved, snap, rc, closing>>
        /\ log' = [log EXCEPT ![n] = Append(@, [before |-> work.before[n],
                                                after |-> work.after[n]])]
    BY <1>1 DEF RecordMove, books
  <1>3. /\ work'.pc = "tally" /\ work'.month = n
        /\ work'.affected = work.affected
        /\ work'.before = work.before /\ work'.after = work.after
    BY <1>1, <1>w DEF RecordMove, Runner
  <1>4. ReadInv'
    BY <1>i, <1>1, <1>2, <1>3 DEF ReadInv
  <1>5. \A m \in Months : /\ Unrecorded(m)' <=> Unrecorded(m)
                          /\ Unlogged(m) <=> Unrecorded(m)
                          /\ Unlogged(m)' <=> Unrecorded(m) /\ m # n
                          /\ ~Unwritten(m)
    BY <1>1, <1>3 DEF Unrecorded, Unlogged, Unwritten, Recording
  <1>6. ASSUME NEW m \in Months
        PROVE  Unmoved(m)' /\ Written(m)'
    BY <1>i, <1>2, <1>3, <1>5 DEF Unmoved, Written
  <1>7. ASSUME NEW m \in Months, m # n
        PROVE  Trail(m)'
    <2>1. log'[m] = log[m]
      BY <1>2, <1>7 DEF RestateTypeOK
    <2>2. Tip(m)' = Tip(m)
      BY <2>1 DEF Tip
    <2>3. /\ Unlogged(m)' <=> Unlogged(m)
          /\ Unrecorded(m)' <=> Unrecorded(m)
          /\ moved'[m] = moved[m] /\ line'[m] = line[m]
          /\ snap'[m].count = snap[m].count
          /\ work'.before[m] = work.before[m]
      BY <1>2, <1>3, <1>5, <1>7
    <2> QED
      BY <1>i, <2>1, <2>2, <2>3, Zenon DEF Trail
  <1>8. Trail(n)'
    <2> DEFINE e == [before |-> work.before[n], after |-> work.after[n]]
    <2>1. log[n] \in Seq(Record) /\ Len(log[n]) \in Nat
      BY SnapLogTyped
    <2>2. e \in Record /\ e.before = work.before[n] /\ e.after = line[n]
      BY <1>w, <1>i, <1>1 DEF Runner, Figures, Record, ReadInv
    <2>3. log'[n] = Append(log[n], e)
      BY <1>2 DEF RestateTypeOK
    <2> HIDE DEF e
    <2>4. Trail(n) /\ Unlogged(n) /\ Unrecorded(n)
      BY <1>i, <1>1, <1>5 DEF Unrecorded, Recording
    <2>5. /\ moved[n] = Len(log[n]) + 1 /\ moved[n] = snap[n].count + 1
          /\ Tip(n) = work.before[n]
          /\ log[n] # <<>> => log[n][1].before = 0
          /\ \A i \in 2..Len(log[n]) : log[n][i].before = log[n][i - 1].after
      BY <2>4, Zenon DEF Trail
    <2>6. e.before = IF log[n] = <<>> THEN 0 ELSE log[n][Len(log[n])].after
      BY <2>2, <2>5 DEF Tip
    <2>7. /\ Len(log'[n]) = Len(log[n]) + 1 /\ log'[n] # <<>>
          /\ log'[n][Len(log'[n])] = e /\ log'[n][1].before = 0
          /\ \A i \in 2..Len(log'[n]) :
               log'[n][i].before = log'[n][i - 1].after
      BY <2>1, <2>2, <2>3, <2>5, <2>6, Logged
    <2>8. Tip(n)' = line'[n]
      BY <1>2, <2>2, <2>7 DEF Tip
    <2>9. ~Unlogged(n)' /\ Unrecorded(n)'
      BY <1>5, <2>4
    <2>10. /\ moved'[n] = Len(log'[n]) + 0
           /\ moved'[n] = snap'[n].count + 1
      BY <1>2, <2>1, <2>5, <2>7
    <2> QED
      BY <2>7, <2>8, <2>9, <2>10, Zenon DEF Trail
  <1> QED
    BY <1>4, <1>6, <1>7, <1>8 DEF TrailInv

LEMMA TallyKeepsTrail ==
    ASSUME RestateTypeOK, TrailInv, TallyMove
    PROVE  TrailInv'
  <1>w. work \in Runner /\ work.month \in Months
    BY DEF RestateTypeOK, Runner
  <1>i. ReadInv /\ \A m \in Months : Unmoved(m) /\ Written(m) /\ Trail(m)
    BY DEF TrailInv
  <1>1. work.pc = "tally" /\ work.month \in work.affected
    BY <1>i DEF TallyMove, At, ReadInv
  <1>2. /\ UNCHANGED <<line, ledger, log, moved, rc, closing>>
        /\ work'.pc = "record"
        /\ work'.affected = work.affected \ {work.month}
        /\ work'.before = work.before /\ work'.after = work.after
    BY <1>w DEF TallyMove, Runner, books
  <1>3. ReadInv'
    BY <1>i, <1>1, <1>2 DEF ReadInv
  <1>4. \A m \in Months : /\ Unrecorded(m)' <=> Unrecorded(m) /\ m # work.month
                          /\ Unlogged(m)' <=> Unlogged(m)
                          /\ ~Unwritten(m)
    BY <1>1, <1>2 DEF Unrecorded, Unlogged, Unwritten, Recording
  <1>5. ASSUME NEW m \in Months
        PROVE  /\ snap'[m].kept = snap[m].kept /\ snap'[m].cogs = snap[m].cogs
               /\ snap'[m].count =
                    snap[m].count + IF m = work.month THEN 1 ELSE 0
    <2>1. snap \in [Months -> Snapshot] /\ snap[m] \in Snapshot
      BY DEF RestateTypeOK
    <2>2. CASE m = work.month
      BY <2>1, <2>2 DEF TallyMove, Snapshot
    <2>3. CASE m # work.month
      <3>1. snap'[m] = snap[m] /\ snap[m].count \in Nat
        BY <2>1, <2>3 DEF TallyMove, Snapshot
      <3> QED
        BY <2>3, <3>1
    <2> QED
      BY <2>2, <2>3
  <1>6. ASSUME NEW m \in Months
        PROVE  Unmoved(m)' /\ Written(m)'
    BY <1>i, <1>2, <1>4, <1>5 DEF Unmoved, Written
  <1>7. ASSUME NEW m \in Months
        PROVE  Trail(m)'
    <2>1. Tip(m)' = Tip(m) /\ Trail(m)
      BY <1>i, <1>2 DEF Tip
    <2>2. snap[m].count \in Nat
      BY SnapLogTyped
    <2>3. CASE m = work.month
      <3>1. Unrecorded(m) /\ ~Unrecorded(m)'
        BY <1>1, <1>4, <2>3 DEF Unrecorded, Recording
      <3>2. moved[m] = snap[m].count + 1
        BY <2>1, <3>1, Zenon DEF Trail
      <3>3. moved'[m] = snap'[m].count + 0
        BY <1>2, <1>5, <2>2, <2>3, <3>2
      <3> QED
        BY <1>2, <1>4, <2>1, <3>1, <3>3, Zenon DEF Trail
    <2>4. CASE m # work.month
      <3>1. snap'[m].count = snap[m].count
        BY <1>5, <2>2, <2>4
      <3>2. Unrecorded(m)' <=> Unrecorded(m)
        BY <1>4, <2>4
      <3> QED
        BY <1>2, <1>4, <2>1, <3>1, <3>2, Zenon DEF Trail
    <2> QED
      BY <2>3, <2>4
  <1> QED
    BY <1>3, <1>6, <1>7 DEF TrailInv

LEMMA TrailStep ==
    RestateTypeOK /\ FrozenInv /\ UndisturbedInv /\ [RestateNext]_restateVars
    => UndisturbedInv'
  <1> SUFFICES ASSUME RestateTypeOK, FrozenInv, UndisturbedInv,
                      [RestateNext]_restateVars,
                      Undisturbed'
               PROVE  TrailInv'
    BY DEF UndisturbedInv
  <1>1. TrailInv /\ ~ProcessDies /\ ~OtherRecompute
        /\ \A m \in Months : ~ResyncOrder(m)
    BY SpentMoves DEF UndisturbedInv
  <1>2. CASE Merchant
    BY <1>1, <1>2, MerchantKeepsTrail
  <1>3. CASE RunJob
    BY <1>1, <1>3, ReadKeepsTrail, FreezeKeepsTrail, RewriteKeepsTrail,
       RecomputeKeepsTrail, RecordKeepsTrail, TallyKeepsTrail DEF RunJob
  <1>4. CASE Recompute
    BY <1>1, <1>4, RecomputeKeepsTrail DEF Recompute
  <1>5. CASE UNCHANGED restateVars
    BY <1>1, <1>5
    DEF restateVars, TrailInv, ReadInv, Unmoved, Written, Trail, Tip,
        Unrecorded,
        Unlogged, Unwritten
  <1> QED
    BY <1>1, <1>2, <1>3, <1>4, <1>5 DEF RestateNext

(* Undisturbed runs leave an exact trail: as many records as moves, all    *)
(* counted, from what was frozen, each from where the last one ended, up   *)
(* to what the ledger and the line items say.                              *)
THEOREM TrailIsExact == RestateSpec => []UndisturbedTrailIsExact
  <1>1. RestateInit => RestateTypeOK /\ FrozenInv /\ UndisturbedInv
    BY RestateTypeInit, FrozenInit, TrailInit
  <1>2. RestateTypeOK /\ FrozenInv /\ UndisturbedInv /\ [RestateNext]_restateVars
        => (RestateTypeOK /\ FrozenInv /\ UndisturbedInv)'
    BY RestateTypeStep, FrozenStep, TrailStep
  <1>3. RestateTypeOK /\ UndisturbedInv => UndisturbedTrailIsExact
    <2> SUFFICES ASSUME RestateTypeOK, UndisturbedInv, Rest, Undisturbed,
                        NEW m \in Months
                 PROVE  /\ Len(log[m]) = moved[m]
                        /\ snap[m].count = moved[m]
                        /\ log[m] # <<>> => Chained(m)
      BY DEF UndisturbedTrailIsExact, Undisturbed
    <2>1. Unmoved(m) /\ Written(m) /\ Trail(m)
      BY DEF UndisturbedInv, TrailInv
    <2>2. ~Unrecorded(m) /\ ~Unlogged(m) /\ ~Unwritten(m)
      BY DEF Rest, At, Unrecorded, Unlogged, Unwritten, Recording
    <2>3. Len(log[m]) \in Nat /\ snap[m].count \in Nat
      BY SnapLogTyped
    <2>4. /\ moved[m] = Len(log[m]) + 0 /\ moved[m] = snap[m].count + 0
          /\ Tip(m) = line[m]
          /\ log[m] # <<>> => log[m][1].before = 0
          /\ \A i \in 2..Len(log[m]) : log[m][i].before = log[m][i - 1].after
      BY <2>1, <2>2, Zenon DEF Trail
    <2>5. snap[m].cogs = 0 /\ ledger[m] = line[m]
      BY <2>1, <2>2 DEF Unmoved, Written
    <2> QED
      BY <2>3, <2>4, <2>5 DEF Chained, Tip
  <1> QED
    BY <1>1, <1>2, <1>3, PTL DEF RestateSpec
=============================================================================
