------------------------- MODULE WebhookOutboxProofs -------------------------
(***************************************************************************)
(* Machine-checked theorems about WebhookOutbox, for every set of          *)
(* deliveries and processes, every assignment of topics, every number of   *)
(* copies and every bound on faults.                                       *)
(***************************************************************************)
EXTENDS WebhookOutbox, TLAPS

-----------------------------------------------------------------------------
(* What each write leaves in the tables                                    *)

(* Runs, rows' owners and jobs are named by values of their columns.       *)
LEMMA Names ==
    /\ Deliveries \subseteq Runs /\ Processes \subseteq Runs
    /\ \A x \in Runs : x # None /\ x \in Runs \cup {None}
    /\ None \in Runs \cup {None}
  BY NamesAssumption DEF Runs

(* Writes of columns keep a row within its columns' types.                 *)
LEMMA RowWrites ==
    ASSUME NEW q \in Event
    PROVE  /\ \A b \in BOOLEAN : [q EXCEPT !.live = b] \in Event
           /\ [q EXCEPT !.old = TRUE] \in Event
           /\ \A s \in SUBSET Deliveries :
                /\ [q EXCEPT !.due = TRUE, !.after = s] \in Event
                /\ [q EXCEPT !.after = s] \in Event
           /\ [q EXCEPT !.due = FALSE, !.token = None,
                        !.live = FALSE, !.after = {}] \in Event
           /\ \A x \in Runs :
                [q EXCEPT !.token = x, !.live = TRUE, !.taker = x] \in Event
           /\ [q EXCEPT !.status = "processed", !.held = FALSE, !.token = None,
                        !.live = FALSE, !.after = {}] \in Event
           /\ \A x \in Runs : [q EXCEPT !.closer = x] \in Event
  <1>1. \A x \in Runs : x \in Runs \cup {None}
    OBVIOUS
  <1>2. None \in Runs \cup {None}
    OBVIOUS
  <1>3. TRUE \in BOOLEAN /\ FALSE \in BOOLEAN /\ {} \in SUBSET Deliveries
    OBVIOUS
  <1>4. "processed" \in {"none", "pending", "processed", "deleted"}
    OBVIOUS
  <1> QED
    BY <1>1, <1>2, <1>3, <1>4, Zenon DEF Event

(* The row of a fresh claim, and the rows that hold nothing.               *)
FreshRow(d) == [Blank("pending") EXCEPT !.held = TRUE, !.token = d,
                   !.live = TRUE, !.due = TRUE, !.after = Available,
                   !.taker = d]

LEMMA BlankTyped ==
    ASSUME NEW s \in {"none", "pending", "processed", "deleted"}
    PROVE  Blank(s) \in Event
  BY DEF Blank, Event

LEMMA FreshTyped ==
    ASSUME NEW d \in Deliveries
    PROVE  FreshRow(d) \in Event
  <1>1. Available \in SUBSET Deliveries /\ TRUE \in BOOLEAN
    BY DEF Available
  <1>2. d \in Runs \cup {None}
    BY DEF Runs
  <1>3. Blank("pending") \in Event
    BY BlankTyped
  <1> QED
    BY <1>1, <1>2, <1>3, Zenon DEF FreshRow, Event

LEMMA SupersededTyped ==
    ASSUME TypeOK, NEW d \in Deliveries
    PROVE  Superseded(d) \in Event
  <1>1. event[d] \in Event
    BY DEF TypeOK
  <1> QED
    BY <1>1, RowWrites DEF Superseded

(* A move of a run to its next statement keeps its type.                   *)
LEMMA RunWrites ==
    ASSUME NEW q \in Run
    PROVE  /\ \A c \in RunPC : [q EXCEPT !.pc = c] \in Run
           /\ \A c \in RunPC, d \in Deliveries \cup {None} :
                [q EXCEPT !.pc = c, !.job = d] \in Run
           /\ \A p \in Processes, n \in 0..BatchSize :
                [q EXCEPT !.pc = "run", !.home = p, !.done = n] \in Run
           /\ NoRun \in Run
           /\ \A n \in 0..BatchSize :
                [NoRun EXCEPT !.pc = "sweep", !.done = n] \in Run
           /\ [NoRun EXCEPT !.pc = "sweep"] \in Run
  <1>1. "run" \in RunPC
    BY DEF RunPC
  <1>2. \A p \in Processes : p \in Processes \cup {None}
    OBVIOUS
  <1>3. /\ \A c \in RunPC : [q EXCEPT !.pc = c] \in Run
        /\ \A c \in RunPC, d \in Deliveries \cup {None} :
                [q EXCEPT !.pc = c, !.job = d] \in Run
    BY Zenon DEF Run
  <1>4. \A p \in Processes, n \in 0..BatchSize :
                [q EXCEPT !.pc = "run", !.home = p, !.done = n] \in Run
    BY <1>1, <1>2, Zenon DEF Run
  <1>5. 0 \in 0..BatchSize
    BY BoundsAssumption
  <1>6. NoRun \in Run
    BY <1>5 DEF NoRun, Run, RunPC
  <1>7. \A n \in 0..BatchSize : [NoRun EXCEPT !.pc = "sweep", !.done = n] \in Run
    BY <1>6, Zenon DEF Run, RunPC
  <1>8. [NoRun EXCEPT !.pc = "sweep"] \in Run
    BY <1>6, Zenon DEF Run, RunPC
  <1> QED
    BY <1>3, <1>4, <1>6, <1>7, <1>8

LEMMA FinishedTyped ==
    ASSUME TypeOK, NEW x \in Runs
    PROVE  Finished(x) \in Run
  <1>1. run[x] \in Run /\ run[x].done \in 0..BatchSize
    BY DEF TypeOK, Run
  <1> QED
    BY <1>1, RunWrites DEF Finished

-----------------------------------------------------------------------------
(* The type invariant                                                      *)

(* The processors' writes keep the rows' types.                            *)
LEMMA EffectTyped ==
    ASSUME TypeOK, NEW job, Effect(job)
    PROVE  event' \in [Deliveries -> Event] /\ shop' \in BOOLEAN
<1> DEFINE redacted(d) == d # job /\ TopicOf[d] \in {"access", "redact"}
                          /\ event[d].status = "pending"
<1>1. \A d \in Deliveries : /\ event[d] \in Event /\ Superseded(d) \in Event
                            /\ Blank("deleted") \in Event
  BY SupersededTyped, BlankTyped DEF TypeOK
<1>2. CASE /\ event' = [d \in Deliveries |-> IF redacted(d) THEN Superseded(d)
                                                         ELSE event[d]]
           /\ UNCHANGED shop
  <2> HIDE DEF redacted
  <2> QED
    BY <1>1, <1>2 DEF TypeOK
<1>3. CASE /\ event' = [d \in Deliveries |->
                          IF event[d].status = "none" THEN event[d]
                                                      ELSE Blank("deleted")]
           /\ shop' = FALSE
  BY <1>1, <1>3
<1>4. CASE UNCHANGED <<event, shop>>
  BY <1>4 DEF TypeOK
<1> QED
  BY <1>2, <1>3, <1>4, Zenon DEF Effect

(* Receiving and claiming a delivery keep the types.                       *)
LEMMA ReceiveTyped ==
    ASSUME TypeOK, NEW c \in Copies,
           \/ Receive(c) \/ ClaimReplay(c) \/ ClaimOrphan(c) \/ ClaimThrows(c)
           \/ \E p \in Processes : ClaimFresh(c, p)
    PROVE  TypeOK'
<1> USE DEF TypeOK
<1>1. \A s \in CopyPC : [copy EXCEPT ![c] = s] \in [Copies -> CopyPC]
  OBVIOUS
<1>2. CASE \E s \in CopyPC : /\ copy' = [copy EXCEPT ![c] = s]
                             /\ UNCHANGED <<shop, event, run, handled>>
                             /\ faults' \in Nat
  BY <1>1, <1>2
<1>3. CASE Receive(c)
  BY <1>2, <1>3 DEF Receive, CopyPC
<1>4. CASE ClaimReplay(c) \/ ClaimOrphan(c)
  BY <1>2, <1>4 DEF ClaimReplay, ClaimOrphan, CopyPC
<1>5. CASE ClaimThrows(c)
  <2>1. faults' \in Nat
    BY <1>5 DEF ClaimThrows, Fault
  <2> QED
    BY <1>2, <1>5, <2>1 DEF ClaimThrows, CopyPC
<1>6. ASSUME NEW p \in Processes, ClaimFresh(c, p) PROVE TypeOK'
  <2> DEFINE d == c[1]
             q == [pc |-> "run", job |-> d, home |-> p, done |-> 0]
  <2>1. d \in Deliveries /\ d \in Runs
    BY DEF Copies, Runs
  <2>2. q \in Run
    <3>1. 0 \in 0..BatchSize
      BY BoundsAssumption
    <3> QED
      BY <2>1, <3>1 DEF Run, RunPC
  <2>3. /\ event' = [event EXCEPT ![d] = FreshRow(d)]
        /\ run' = [run EXCEPT ![d] = q]
        /\ copy' = [copy EXCEPT ![c] = "acknowledged"]
        /\ UNCHANGED <<shop, handled, faults>>
    BY <1>6 DEF ClaimFresh, FreshRow
  <2>4. FreshRow(d) \in Event
    BY <2>1, FreshTyped
  <2>5. "acknowledged" \in CopyPC
    BY DEF CopyPC
  <2> HIDE DEF d, q
  <2> QED
    BY <1>1, <2>1, <2>2, <2>3, <2>4, <2>5
<1> QED
  BY <1>3, <1>4, <1>5, <1>6

(* A step of a handler's run keeps the types.                              *)
LEMMA HandleTyped ==
    ASSUME TypeOK, NEW x \in Runs,
           \/ Handle(x) \/ Heartbeat(x)
           \/ MarkSucceededThrows(x) \/ MarkFailedThrows(x)
    PROVE  TypeOK'
<1> USE DEF TypeOK
<1>1. run[x] \in Run /\ Finished(x) \in Run
  BY FinishedTyped
<1>2. \A s \in {"mark", "fail"} : [run EXCEPT ![x].pc = s] \in [Runs -> Run]
  <2>1. \A s \in {"mark", "fail"} : [run[x] EXCEPT !.pc = s] \in Run
    BY <1>1, RunWrites DEF RunPC
  <2> QED
    BY <2>1
<1>3. [run EXCEPT ![x] = Finished(x)] \in [Runs -> Run]
  BY <1>1
<1>4. \A d \in Deliveries : event[d] \in Event /\ Superseded(d) \in Event
  BY SupersededTyped
<1>5. Fault => faults' \in Nat
  BY DEF Fault
<1>6. CASE HandlerReturns(x)
  <2>1. event' \in [Deliveries -> Event] /\ shop' \in BOOLEAN
    BY <1>6, EffectTyped DEF HandlerReturns
  <2>2. handled' \in [Deliveries -> 0..2]
    <3> DEFINE more(n) == IF n = 2 THEN 2 ELSE n + 1
    <3>1. \A n \in 0..2 : more(n) \in 0..2
      OBVIOUS
    <3>2. handled' = [handled EXCEPT ![run[x].job] = more(handled[run[x].job])]
      BY <1>6 DEF HandlerReturns
    <3> HIDE DEF more
    <3> QED
      BY <3>1, <3>2
  <2> QED
    BY <1>2, <1>6, <2>1, <2>2 DEF HandlerReturns
<1>7. CASE HandlerThrows(x)
  BY <1>2, <1>5, <1>7 DEF HandlerThrows
<1>8. CASE MarkSucceeded(x)
  <2> DEFINE marked(d) == [Superseded(d) EXCEPT !.closer = x]
  <2>1. \A d \in Deliveries : marked(d) \in Event
    BY <1>4, RowWrites
  <2>2. event' = [d \in Deliveries |-> IF d \in Fenced(x) THEN marked(d)
                                                        ELSE event[d]]
    BY <1>8 DEF MarkSucceeded
  <2> HIDE DEF marked
  <2>3. event' \in [Deliveries -> Event]
    BY <1>4, <2>1, <2>2
  <2> QED
    BY <1>3, <1>8, <2>3 DEF MarkSucceeded
<1>9. CASE MarkFailed(x)
  <2> DEFINE failed(d) == [event[d] EXCEPT !.due = FALSE, !.token = None,
                                           !.live = FALSE, !.after = {}]
             other(d) == [event[d] EXCEPT !.after = @ \ Fenced(x)]
  <2>1. \A d \in Deliveries : failed(d) \in Event
    BY <1>4, RowWrites
  <2>2. ASSUME NEW d \in Deliveries PROVE other(d) \in Event
    <3> DEFINE s == event[d].after \ Fenced(x)
    <3>1. s \in SUBSET Deliveries
      BY <1>4 DEF Event
    <3>2. other(d) = [event[d] EXCEPT !.after = s]
      OBVIOUS
    <3> HIDE DEF s
    <3>3. [event[d] EXCEPT !.after = s] \in Event
      BY <1>4, <3>1, RowWrites, Zenon
    <3> QED
      BY <3>2, <3>3, Zenon
  <2>3. event' = [d \in Deliveries |-> IF d \in Fenced(x) THEN failed(d)
                                                        ELSE other(d)]
    BY <1>9 DEF MarkFailed
  <2> HIDE DEF failed, other
  <2>4. event' \in [Deliveries -> Event]
    BY <2>1, <2>2, <2>3
  <2> QED
    BY <1>3, <1>9, <2>4 DEF MarkFailed
<1>10. CASE Heartbeat(x)
  <2>1. PICK d \in Deliveries : event' = [event EXCEPT ![d].live = TRUE]
    BY <1>10 DEF Heartbeat, Fenced
  <2>2. [event[d] EXCEPT !.live = TRUE] \in Event
    BY <1>4, RowWrites
  <2> QED
    BY <1>10, <2>1, <2>2 DEF Heartbeat
<1>11. CASE MarkSucceededThrows(x) \/ MarkFailedThrows(x)
  BY <1>2, <1>3, <1>5, <1>11 DEF MarkSucceededThrows, MarkFailedThrows
<1> QED
  BY <1>6, <1>7, <1>8, <1>9, <1>10, <1>11 DEF Handle

(* A sweep that has chosen a candidate has room for it in its batch, and   *)
(* every run that works has a delivery, a direct run the one it is named   *)
(* for.                                                                    *)
RunInv(x) ==
    /\ run[x].pc = "lease" => /\ run[x].job \in Deliveries
                              /\ run[x].done \in 0..(BatchSize - 1)
    /\ run[x].pc \in Active => /\ run[x].job \in Deliveries
                               /\ x \in Deliveries => run[x].job = x

TypeInv == TypeOK /\ \A x \in Runs : RunInv(x)

(* A step of a sweep, and the crash of its process, keep the types.        *)
LEMMA SweepTyped ==
    ASSUME TypeInv, NEW p \in Processes, Sweep(p) \/ Crash(p)
    PROVE  TypeOK'
<1> USE DEF TypeOK, TypeInv
<1>1. p \in Runs /\ run[p] \in Run /\ NoRun \in Run
  BY RunWrites DEF Runs
<1>2. \A d \in Deliveries : event[d] \in Event /\ Superseded(d) \in Event
  BY SupersededTyped
<1>3. CASE BeginSweep(p)
  <2>1. [NoRun EXCEPT !.pc = "sweep"] \in Run
    BY <1>1, RunWrites
  <2>2. event' \in [Deliveries -> Event]
    BY <1>2, <1>3 DEF BeginSweep
  <2> QED
    BY <1>3, <2>1, <2>2 DEF BeginSweep
<1>4. ASSUME NEW d \in Deliveries, SelectCandidate(p, d) PROVE TypeOK'
  <2> DEFINE q == [run[p] EXCEPT !.pc = "lease", !.job = d]
  <2>1. q \in Run
    BY <1>1, RunWrites DEF RunPC
  <2>2. run' = [run EXCEPT ![p] = q]
    BY <1>4 DEF SelectCandidate
  <2> HIDE DEF q
  <2> QED
    BY <1>4, <2>1, <2>2 DEF SelectCandidate
<1>5. CASE TryLease(p) /\ ~Due(run[p].job)
  <2> DEFINE q == [run[p] EXCEPT !.pc = "sweep", !.job = None]
  <2>1. q \in Run
    BY <1>1, RunWrites DEF RunPC
  <2>2. run' = [run EXCEPT ![p] = q] /\ UNCHANGED event
    BY <1>5 DEF TryLease
  <2> HIDE DEF q
  <2> QED
    BY <1>5, <2>1, <2>2 DEF TryLease
<1>6. CASE TryLease(p) /\ Due(run[p].job)
  <2> DEFINE d == run[p].job
             n == run[p].done + 1
             q == [run[p] EXCEPT !.pc = "run", !.home = p, !.done = n]
             r == [event[d] EXCEPT !.token = p, !.live = TRUE, !.taker = p]
  <2>1. run' = [run EXCEPT ![p] = q]
    BY <1>6 DEF TryLease
  <2>2. event' = [event EXCEPT ![d] = r]
    BY <1>6 DEF TryLease
  <2>3. d \in Deliveries => r \in Event
    BY <1>1, <1>2, RowWrites
  <2>4. n \in 0..BatchSize
    BY <1>1, <1>6, BoundsAssumption DEF RunInv, TryLease
  <2> HIDE DEF n
  <2>5. q \in Run
    BY <1>1, <2>4, RunWrites
  <2>6. UNCHANGED <<shop, copy, handled, faults>>
    BY <1>6 DEF TryLease
  <2> HIDE DEF d, q, r
  <2> QED
    BY <2>1, <2>2, <2>3, <2>5, <2>6
<1>7. CASE EndSweep(p)
  BY <1>1, <1>7 DEF EndSweep
<1>8. CASE Crash(p)
  BY <1>1, <1>8 DEF Crash, Fault
<1> QED
  BY <1>3, <1>4, <1>5, <1>6, <1>7, <1>8 DEF Sweep, TryLease

(* The passage of time keeps the types.                                    *)
LEMMA TimeTyped ==
    ASSUME TypeOK, NEW d \in Deliveries,
           LeaseExpires(d) \/ LeaseLapses(d) \/ BackoffElapses(d) \/ PayloadAges(d)
    PROVE  TypeOK'
<1> USE DEF TypeOK
<1>1. event[d] \in Event /\ Available \in SUBSET Deliveries
  BY DEF Available
<1>2. CASE LeaseExpires(d) \/ LeaseLapses(d)
  <2>1. faults' \in Nat
    BY <1>2 DEF LeaseExpires, LeaseLapses, Fault
  <2>2. [event[d] EXCEPT !.live = FALSE] \in Event
    BY <1>1, RowWrites
  <2>3. /\ event' = [event EXCEPT ![d] = [event[d] EXCEPT !.live = FALSE]]
        /\ UNCHANGED <<shop, copy, run, handled>>
    BY <1>2 DEF LeaseExpires, LeaseLapses
  <2> QED
    BY <2>1, <2>2, <2>3
<1>3. CASE BackoffElapses(d)
  <2> DEFINE q == [event[d] EXCEPT !.due = TRUE, !.after = Available]
  <2>1. q \in Event
    BY <1>1, RowWrites, Zenon
  <2>2. event' = [event EXCEPT ![d] = q]
    BY <1>3 DEF BackoffElapses
  <2> HIDE DEF q
  <2> QED
    BY <1>3, <2>1, <2>2 DEF BackoffElapses
<1>4. CASE PayloadAges(d)
  BY <1>1, <1>4, RowWrites DEF PayloadAges
<1> QED
  BY <1>2, <1>3, <1>4

-----------------------------------------------------------------------------
(* What each write of a row leaves in its columns                          *)

(* The columns that say how far a delivery has got, whose it was, and      *)
(* whether its payload is still there.                                     *)
SameProgress(p, q) == /\ p.status = q.status /\ p.held = q.held
                      /\ p.taker = q.taker /\ p.closer = q.closer

(* The columns that each write of a row leaves behind.                     *)
LEMMA OtherColumns ==
    ASSUME NEW q \in Event
    PROVE  /\ \A b \in BOOLEAN : LET p == [q EXCEPT !.live = b]
             IN  SameProgress(p, q) /\ p.token = q.token /\ p.live = b
           /\ LET p == [q EXCEPT !.old = TRUE]
              IN  SameProgress(p, q) /\ p.token = q.token /\ p.live = q.live
           /\ \A s \in SUBSET Deliveries :
                /\ LET p == [q EXCEPT !.due = TRUE, !.after = s]
                   IN  SameProgress(p, q) /\ p.token = q.token /\ p.live = q.live
                /\ LET p == [q EXCEPT !.after = s]
                   IN  SameProgress(p, q) /\ p.token = q.token /\ p.live = q.live
           /\ LET p == [q EXCEPT !.due = FALSE, !.token = None,
                                 !.live = FALSE, !.after = {}]
              IN  SameProgress(p, q) /\ p.token = None /\ p.live = FALSE
  BY Zenon DEF SameProgress, Event

LEMMA LeasedColumns ==
    ASSUME NEW q \in Event, NEW x \in Runs
    PROVE  LET p == [q EXCEPT !.token = x, !.live = TRUE, !.taker = x]
           IN  /\ p.status = q.status /\ p.held = q.held
               /\ p.token = x /\ p.live = TRUE
               /\ p.taker = x /\ p.closer = q.closer
  BY Zenon DEF Event

LEMMA SupersededColumns ==
    ASSUME TypeOK, NEW d \in Deliveries
    PROVE  LET p == Superseded(d)
           IN  /\ p.status = "processed" /\ p.held = FALSE
               /\ p.token = None /\ p.live = FALSE
               /\ p.taker = event[d].taker /\ p.closer = event[d].closer
  <1>1. event[d] \in Event
    BY DEF TypeOK
  <1> QED
    BY <1>1, Zenon DEF Superseded, Event

LEMMA MarkedColumns ==
    ASSUME TypeOK, NEW d \in Deliveries, NEW x \in Runs
    PROVE  LET p == [Superseded(d) EXCEPT !.closer = x]
           IN  /\ p.status = "processed" /\ p.held = FALSE
               /\ p.token = None /\ p.live = FALSE
               /\ p.taker = event[d].taker /\ p.closer = x
  <1>1. Superseded(d) \in Event
    BY SupersededTyped
  <1>2. LET p == [Superseded(d) EXCEPT !.closer = x] q == Superseded(d)
        IN  /\ p.status = q.status /\ p.held = q.held
            /\ p.token = q.token /\ p.live = q.live
            /\ p.taker = q.taker /\ p.closer = x
    BY <1>1, Zenon DEF Event
  <1> QED
    BY <1>2, SupersededColumns

LEMMA FreshColumns ==
    ASSUME NEW d \in Deliveries
    PROVE  LET p == FreshRow(d)
           IN  /\ p.status = "pending" /\ p.held = TRUE
               /\ p.token = d /\ p.live = TRUE
               /\ p.taker = d /\ p.closer = None
  <1>1. Blank("pending") \in Event /\ Blank("pending").closer = None
        /\ Blank("pending").status = "pending"
    BY BlankTyped DEF Blank
  <1> QED
    BY <1>1, Zenon DEF FreshRow, Event

-----------------------------------------------------------------------------
(* What a step does to a run                                               *)

(* The row of the run's delivery shows the run's own, live lease.          *)
Holds(x) == /\ event[run[x].job].status = "pending"
            /\ event[run[x].job].token = x
            /\ event[run[x].job].live = TRUE

(* A run ends or is at rest; works on through its statements; has chosen a *)
(* candidate; or begins, under the name of a delivery just claimed or on   *)
(* the candidate a sweep has just leased.                                  *)
AtRest(x)  == run'[x].pc \in {"idle", "sweep"}
GoesOn(x)  == /\ run[x].pc \in Active /\ run'[x].pc \in Active \ {"run"}
              /\ run'[x].job = run[x].job
Chooses(x) == /\ run'[x].pc = "lease" /\ run'[x].job \in Deliveries
              /\ run'[x].done \in 0..(BatchSize - 1)
Begins(x)  == /\ run'[x].pc = "run" /\ run'[x].job \in Deliveries
              /\ x \in Deliveries => run'[x].job = x
              /\ \/ event[run'[x].job].status = "none" \/ Due(run'[x].job)
              /\ Holds(x)'

RunMove(x) == \/ run'[x] = run[x] \/ AtRest(x) \/ GoesOn(x)
              \/ Chooses(x) \/ Begins(x)

(* A finished run is at rest.                                              *)
LEMMA RestingRuns ==
    /\ NoRun.pc = "idle"
    /\ [NoRun EXCEPT !.pc = "sweep"].pc = "sweep"
    /\ \A x \in Runs : Finished(x).pc \in {"idle", "sweep"}
  BY DEF NoRun, Finished

LEMMA RunMoves ==
    ASSUME TypeInv, Next, NEW x \in Runs
    PROVE  RunMove(x)
<1> USE DEF TypeInv, TypeOK
<1>1. run[x] \in Run
  OBVIOUS
<1>2. ASSUME NEW y \in Runs,
             \/ HandlerReturns(y) \/ HandlerThrows(y) \/ MarkSucceededThrows(y)
      PROVE  RunMove(x)
  <2>1. /\ run[y].pc \in Active
        /\ \E s \in {"mark", "fail"} : run' = [run EXCEPT ![y].pc = s]
    BY <1>2 DEF HandlerReturns, HandlerThrows, MarkSucceededThrows, Active
  <2>2. x = y => \E s \in {"mark", "fail"} : run'[x] = [run[x] EXCEPT !.pc = s]
    BY <2>1
  <2>3. \A s \in {"mark", "fail"} : LET q == [run[x] EXCEPT !.pc = s]
                                  IN  q.pc = s /\ q.job = run[x].job
    BY <1>1, Zenon DEF Run
  <2>4. x # y => run'[x] = run[x]
    BY <2>1
  <2> QED
    BY <2>1, <2>2, <2>3, <2>4 DEF RunMove, GoesOn, Active
<1>3. ASSUME NEW y \in Runs,
             MarkSucceeded(y) \/ MarkFailed(y) \/ MarkFailedThrows(y)
      PROVE  RunMove(x)
  <2>1. run' = [run EXCEPT ![y] = Finished(y)]
    BY <1>3 DEF MarkSucceeded, MarkFailed, MarkFailedThrows
  <2> QED
    BY <2>1, RestingRuns DEF RunMove, AtRest
<1>4. ASSUME NEW p \in Processes, BeginSweep(p) \/ EndSweep(p) \/ Crash(p)
      PROVE  RunMove(x)
  BY <1>4, RestingRuns DEF BeginSweep, EndSweep, Crash, RunMove, AtRest
<1>5. ASSUME NEW p \in Processes, NEW d \in Deliveries, SelectCandidate(p, d)
      PROVE  RunMove(x)
  <2>1. /\ run' = [run EXCEPT ![p] = [run[p] EXCEPT !.pc = "lease", !.job = d]]
        /\ run[p].done < BatchSize
    BY <1>5 DEF SelectCandidate
  <2>2. p \in Runs /\ run[p] \in Run /\ run[p].done \in 0..BatchSize
    BY DEF Runs, Run
  <2>3. run[p].done \in 0..(BatchSize - 1)
    BY <2>1, <2>2, BoundsAssumption
  <2>4. LET q == [run[p] EXCEPT !.pc = "lease", !.job = d]
        IN  q.pc = "lease" /\ q.job = d /\ q.done = run[p].done
    BY <2>2, Zenon DEF Run
  <2>5. CASE x = p
    BY <2>1, <2>2, <2>3, <2>4, <2>5 DEF RunMove, Chooses
  <2>6. CASE x # p
    BY <2>1, <2>6 DEF RunMove
  <2> QED
    BY <2>5, <2>6
<1>6. ASSUME NEW p \in Processes, TryLease(p) PROVE RunMove(x)
  <2> DEFINE q == [run[p] EXCEPT !.pc = "run", !.home = p, !.done = @ + 1]
             r == [run[p] EXCEPT !.pc = "sweep", !.job = None]
  <2>1. p \in Runs /\ run[p] \in Run /\ run[p].job \in Deliveries
    BY <1>6 DEF Runs, TryLease, RunInv
  <2>2. q.pc = "run" /\ q.job = run[p].job /\ r.pc = "sweep"
    BY <2>1, Zenon DEF Run
  <2> DEFINE d == run[p].job
             e == [event[d] EXCEPT !.token = p, !.live = TRUE, !.taker = p]
  <2>3. \/ /\ run' = [run EXCEPT ![p] = q]
           /\ Due(d) /\ event' = [event EXCEPT ![d] = e]
        \/ run' = [run EXCEPT ![p] = r]
    BY <1>6 DEF TryLease
  <2>6. e.status = event[d].status /\ e.token = p /\ e.live = TRUE
    BY <2>1, LeasedColumns
  <2> HIDE DEF q, r, e
  <2>7. CASE run' = [run EXCEPT ![p] = r]
    BY <2>2, <2>7 DEF RunMove, AtRest
  <2>4. CASE x = p /\ run' # [run EXCEPT ![p] = r]
    <3>1. run'[x].pc = "run" /\ run'[x].job = d /\ event'[d] = e /\ Due(d)
      BY <2>1, <2>2, <2>3, <2>4
    <3> QED
      BY <2>1, <2>4, <2>6, <3>1, NamesAssumption DEF RunMove, Begins, Holds, Due
  <2>5. CASE x # p
    BY <2>3, <2>5 DEF RunMove
  <2> QED
    BY <2>4, <2>5, <2>7
<1>7. ASSUME NEW c \in Copies, NEW p \in Processes, ClaimFresh(c, p)
      PROVE  RunMove(x)
  <2>1. c[1] \in Deliveries /\ c[1] \in Runs
    BY DEF Copies, Runs
  <2>2. /\ run' = [run EXCEPT ![c[1]] = [pc |-> "run", job |-> c[1],
                                        home |-> p, done |-> 0]]
        /\ event[c[1]].status = "none"
        /\ event'[c[1]] = FreshRow(c[1])
    BY <1>7, <2>1 DEF ClaimFresh, FreshRow
  <2>3. FreshRow(c[1]).status = "pending" /\ FreshRow(c[1]).token = c[1]
        /\ FreshRow(c[1]).live = TRUE
    BY <2>1, FreshColumns
  <2>4. CASE x = c[1]
    BY <2>1, <2>2, <2>3, <2>4 DEF RunMove, Begins, Holds
  <2>5. CASE x # c[1]
    BY <2>2, <2>5 DEF RunMove
  <2> QED
    BY <2>4, <2>5
<1>8. CASE UNCHANGED run
  BY <1>8 DEF RunMove
<1>9. ASSUME NEW c \in Copies,
             Receive(c) \/ ClaimReplay(c) \/ ClaimOrphan(c) \/ ClaimThrows(c)
      PROVE  UNCHANGED run
  BY <1>9 DEF Receive, ClaimReplay, ClaimOrphan, ClaimThrows
<1>10. ASSUME NEW y \in Runs, Heartbeat(y) PROVE UNCHANGED run
  BY <1>10 DEF Heartbeat
<1>11. ASSUME NEW d \in Deliveries, \/ LeaseExpires(d) \/ LeaseLapses(d)
                                    \/ BackoffElapses(d) \/ PayloadAges(d)
       PROVE  UNCHANGED run
  BY <1>11 DEF LeaseExpires, LeaseLapses, BackoffElapses, PayloadAges
<1> QED
  BY <1>2, <1>3, <1>4, <1>5, <1>6, <1>7, <1>8, <1>9, <1>10, <1>11, Zenon
     DEF Next, Handle, Sweep

(* Every step keeps the types and the runs' jobs.                          *)
LEMMA TypeStep == TypeInv /\ [Next]_vars => TypeInv'
<1> SUFFICES ASSUME TypeInv, [Next]_vars PROVE TypeInv'
  OBVIOUS
<1>1. CASE Next
  <2>1. TypeOK'
    BY <1>1, ReceiveTyped, HandleTyped, SweepTyped, TimeTyped, Zenon
       DEF Next, TypeInv
  <2>2. \A x \in Runs : RunMove(x)
    BY <1>1, RunMoves
  <2>3. \A x \in Runs : RunInv(x)'
    BY <2>2 DEF TypeInv, RunInv, RunMove, AtRest, GoesOn, Chooses, Begins, Active
  <2> QED
    BY <2>1, <2>3 DEF TypeInv
<1>2. CASE UNCHANGED vars
  BY <1>2 DEF vars, TypeInv, TypeOK, RunInv
<1> QED
  BY <1>1, <1>2

(* The delivery a run works on.                                            *)
LEMMA JobOf ==
    ASSUME TypeInv, NEW x \in Runs, run[x].pc \in Active
    PROVE  run[x].job \in Deliveries /\ (x \in Deliveries => run[x].job = x)
  <1>1. RunInv(x)
    BY DEF TypeInv
  <1> QED
    BY <1>1 DEF RunInv

LEMMA TypeInit == Init => TypeInv
<1> SUFFICES ASSUME Init PROVE TypeInv
  OBVIOUS
<1>1. NoRun \in Run /\ NoRun.pc = "idle"
  <2>1. 0 \in 0..BatchSize
    BY BoundsAssumption
  <2> QED
    BY <2>1 DEF NoRun, Run, RunPC
<1>2. Blank("none") \in Event
  BY BlankTyped
<1>3. copy \in [Copies -> CopyPC] /\ 0 \in 0..2
  BY DEF Init, CopyPC
<1> QED
  BY <1>1, <1>2, <1>3 DEF Init, TypeInv, TypeOK, RunInv, Active

(* Every variable keeps its type: in particular a sweep never leases more  *)
(* than a batch, and a row is never written outside its columns.           *)
THEOREM TypeCorrect == Spec => []TypeOK
<1>1. TypeInv => TypeOK
  BY DEF TypeInv
<1> QED
  BY <1>1, TypeInit, TypeStep, PTL DEF Spec

-----------------------------------------------------------------------------
(* What a step does to a row                                               *)

(* A row that holds nothing says so in every column.                       *)
Empty(q) == /\ q.held = FALSE /\ q.token = None /\ q.live = FALSE
            /\ q.taker = None /\ q.closer = None

LEMMA BlankColumns ==
    ASSUME NEW s
    PROVE  Blank(s).status = s /\ Empty(Blank(s))
  BY DEF Blank, Empty

(* The invariant of a row: a payload, a token and a lease belong to a      *)
(* pending delivery, the token to the run that took it last.               *)
RowInv(d) ==
    /\ event[d].status \in {"none", "deleted"} => Empty(event[d])
    /\ event[d].status = "pending" =>
         /\ event[d].held = TRUE /\ event[d].closer = None
         /\ event[d].taker \in Runs
         /\ event[d].token \in {None, event[d].taker}
    /\ event[d].status = "processed" =>
         event[d].held = FALSE /\ event[d].token = None /\ event[d].live = FALSE
    /\ event[d].live = TRUE => event[d].token # None

(* A run works on a delivery that has been claimed.                        *)
JobInv(x) == run[x].pc \in Active => event[run[x].job].status # "none"

OutboxInv == /\ TypeInv
             /\ \A d \in Deliveries : RowInv(d)
             /\ \A x \in Runs : JobInv(x)

(* The ways in which a row moves.                                          *)
Kept(d) == /\ SameProgress(event'[d], event[d])
           /\ event'[d].token \in {event[d].token, None}
           /\ event'[d].live = TRUE => event'[d].token # None

Claimed(d) == event[d].status = "none" /\ event'[d] = FreshRow(d)

Leased(d) == /\ event[d].status = "pending" /\ event'[d].status = "pending"
             /\ event'[d].held = event[d].held
             /\ event'[d].closer = event[d].closer
             /\ event'[d].taker \in Runs
             /\ event'[d].token = event'[d].taker

Done(d) == /\ event[d].status = "pending" /\ event'[d].status = "processed"
           /\ event'[d].held = FALSE /\ event'[d].token = None
           /\ event'[d].live = FALSE
           /\ event'[d].taker = event[d].taker

(* Its latest taker marks it; it expires, which takes an order topic, or a *)
(* redaction that is being handled supersedes it.                          *)
Marked(d) == Done(d) /\ event'[d].closer = event[d].taker

Dropped(d) == /\ Done(d) /\ event'[d].closer = event[d].closer
              /\ \/ d \in Expiring
                 \/ \E e \in Deliveries : TopicOf[e] = "redact" /\ handled'[e] > 0

Forgotten(d) == event[d].status # "none" /\ event'[d] = Blank("deleted")

Move(d) == \/ Kept(d) \/ Claimed(d) \/ Leased(d) \/ Marked(d)
           \/ Dropped(d) \/ Forgotten(d)

(* The rows a run fences are the job it holds.                             *)
LEMMA FencedRows ==
    ASSUME OutboxInv, NEW x \in Runs, NEW d \in Fenced(x)
    PROVE  /\ d \in Deliveries /\ d = run[x].job
           /\ event[d].status = "pending"
           /\ event[d].token = x /\ event[d].taker = x
  BY Names DEF Fenced, OutboxInv, RowInv

(* A row that nothing writes is kept.                                      *)
LEMMA UntouchedKept ==
    ASSUME OutboxInv, NEW d \in Deliveries, event'[d] = event[d]
    PROVE  Kept(d)
  BY DEF Kept, SameProgress, OutboxInv, RowInv

(* A handler that returns has been counted.                                *)
LEMMA ReturnCounted ==
    ASSUME TypeOK, NEW x \in Runs, HandlerReturns(x),
           run[x].job \in Deliveries
    PROVE  handled'[run[x].job] > 0
  <1> DEFINE n == handled[run[x].job]
  <1>1. n \in 0..2
    BY DEF TypeOK
  <1>2. handled'[run[x].job] = IF n = 2 THEN 2 ELSE n + 1
    BY DEF HandlerReturns, TypeOK
  <1> QED
    BY <1>1, <1>2

LEMMA ReturnMoves ==
    ASSUME OutboxInv, NEW x \in Runs, HandlerReturns(x), NEW d \in Deliveries
    PROVE  Move(d)
<1> DEFINE job == run[x].job
<1>1. job \in Deliveries
  BY JobOf DEF HandlerReturns, OutboxInv, Active
<1>2. CASE UNCHANGED event
  BY <1>2, UntouchedKept DEF Move
<1>3. CASE TopicOf[job] = "redact" /\ Effect(job)
  <2>1. \/ event'[d] = event[d]
        \/ event[d].status = "pending" /\ event'[d] = Superseded(d)
    <3> DEFINE hit(e) == /\ e # job
                         /\ TopicOf[e] \in {"access", "redact"}
                         /\ event[e].status = "pending"
    <3>1. event' = [e \in Deliveries |-> IF hit(e) THEN Superseded(e)
                                                  ELSE event[e]]
      BY <1>3 DEF Effect
    <3>2. event'[d] = IF hit(d) THEN Superseded(d) ELSE event[d]
      BY <3>1
    <3>3. hit(d) => event[d].status = "pending"
      OBVIOUS
    <3> QED
      BY <3>2, <3>3
  <2>2. handled'[job] > 0
    BY <1>1, ReturnCounted DEF OutboxInv, TypeInv
  <2>3. CASE event[d].status = "pending" /\ event'[d] = Superseded(d)
    BY <1>1, <1>3, <2>2, <2>3, SupersededColumns
       DEF Move, Dropped, Done, OutboxInv, TypeInv
  <2> QED
    BY <2>1, <2>3, UntouchedKept DEF Move
<1>4. CASE TopicOf[job] = "shop_redact" /\ Effect(job)
  <2>1. event'[d] = IF event[d].status = "none" THEN event[d]
                                              ELSE Blank("deleted")
    BY <1>4 DEF Effect
  <2> QED
    BY <2>1, UntouchedKept DEF Move, Forgotten
<1>5. CASE TopicOf[job] \notin {"redact", "shop_redact"} /\ Effect(job)
  BY <1>2, <1>5 DEF Effect
<1> QED
  BY <1>2, <1>3, <1>4, <1>5 DEF HandlerReturns

LEMMA MarkMoves ==
    ASSUME OutboxInv, NEW x \in Runs, NEW d \in Deliveries,
           MarkSucceeded(x) \/ MarkFailed(x) \/ Heartbeat(x)
    PROVE  Move(d)
<1>1. event[d] \in Event /\ TypeOK
  BY DEF OutboxInv, TypeInv, TypeOK
<1>2. CASE MarkSucceeded(x) /\ d \in Fenced(x)
  <2> DEFINE p == [Superseded(d) EXCEPT !.closer = x]
  <2>1. event'[d] = p
    BY <1>2 DEF MarkSucceeded
  <2>2. /\ p.status = "processed" /\ p.held = FALSE
        /\ p.token = None /\ p.live = FALSE
        /\ p.taker = event[d].taker /\ p.closer = x
    BY <1>1, MarkedColumns
  <2> HIDE DEF p
  <2> QED
    BY <1>2, <2>1, <2>2, FencedRows DEF Move, Marked, Done
<1>3. CASE MarkSucceeded(x) /\ d \notin Fenced(x)
  BY <1>3, UntouchedKept DEF MarkSucceeded, Move
<1>4. CASE MarkFailed(x) /\ d \in Fenced(x)
  <2> DEFINE p == [event[d] EXCEPT !.due = FALSE, !.token = None,
                                   !.live = FALSE, !.after = {}]
  <2>1. event'[d] = p
    BY <1>4 DEF MarkFailed
  <2>2. SameProgress(p, event[d]) /\ p.token = None /\ p.live = FALSE
    BY <1>1, OtherColumns
  <2> HIDE DEF p
  <2> QED
    BY <2>1, <2>2 DEF Move, Kept
<1>5. CASE MarkFailed(x) /\ d \notin Fenced(x)
  <2> DEFINE s == event[d].after \ Fenced(x)
             p == [event[d] EXCEPT !.after = s]
  <2>1. event'[d] = p
    BY <1>5 DEF MarkFailed
  <2>2. s \in SUBSET Deliveries
    BY <1>1 DEF Event
  <2> HIDE DEF s
  <2>3. SameProgress(p, event[d]) /\ p.token = event[d].token
        /\ p.live = event[d].live
    BY <1>1, <2>2, OtherColumns
  <2> HIDE DEF p
  <2> QED
    BY <2>1, <2>3 DEF Move, Kept, OutboxInv, RowInv
<1>6. CASE Heartbeat(x)
  <2>1. PICK e \in Fenced(x) : event' = [event EXCEPT ![e].live = TRUE]
    BY <1>6 DEF Heartbeat
  <2>2. e \in Deliveries /\ event[e].token = x
    BY FencedRows
  <2> DEFINE p == [event[d] EXCEPT !.live = TRUE]
  <2>3. event'[d] = IF d = e THEN p ELSE event[d]
    BY <1>1, <2>1 DEF TypeOK
  <2>4. SameProgress(p, event[d]) /\ p.token = event[d].token
    BY <1>1, OtherColumns
  <2> HIDE DEF p
  <2> QED
    BY <2>2, <2>3, <2>4, UntouchedKept, Names DEF Move, Kept
<1> QED
  BY <1>2, <1>3, <1>4, <1>5, <1>6

LEMMA SweepMoves ==
    ASSUME OutboxInv, NEW p \in Processes, Sweep(p), NEW d \in Deliveries
    PROVE  Move(d)
<1>1. event \in [Deliveries -> Event] /\ TypeOK /\ p \in Runs
  BY DEF OutboxInv, TypeInv, TypeOK, Runs
<1>2. CASE UNCHANGED event
  BY <1>2, UntouchedKept DEF Move
<1>3. CASE BeginSweep(p)
  <2>1. event'[d] = IF Expired(d) THEN Superseded(d) ELSE event[d]
    BY <1>3 DEF BeginSweep
  <2>2. CASE Expired(d)
    BY <1>1, <2>1, <2>2, SupersededColumns DEF Move, Dropped, Done, Expired
  <2> QED
    BY <2>1, <2>2, UntouchedKept DEF Move
<1>4. CASE TryLease(p) /\ Due(run[p].job)
  <2> DEFINE e == run[p].job
             q == [event[e] EXCEPT !.token = p, !.live = TRUE, !.taker = p]
  <2>1. event' = [event EXCEPT ![e] = q] /\ event[e].status = "pending"
    BY <1>4 DEF TryLease, Due
  <2>2. e \in Deliveries
    BY <1>1, <1>4 DEF OutboxInv, TypeInv, RunInv, TryLease
  <2>3. /\ q.status = event[e].status /\ q.held = event[e].held
        /\ q.token = p /\ q.live = TRUE
        /\ q.taker = p /\ q.closer = event[e].closer
    BY <1>1, <2>2, LeasedColumns
  <2> HIDE DEF e, q
  <2>4. CASE d = e
    BY <1>1, <2>1, <2>3, <2>4 DEF Move, Leased
  <2>5. CASE d # e
    BY <1>1, <2>1, <2>5, UntouchedKept DEF Move
  <2> QED
    BY <2>4, <2>5
<1> QED
  BY <1>2, <1>3, <1>4 DEF Sweep, EndSweep, SelectCandidate, TryLease

LEMMA TimeMoves ==
    ASSUME OutboxInv, NEW e \in Deliveries, NEW d \in Deliveries,
           LeaseExpires(e) \/ LeaseLapses(e) \/ BackoffElapses(e) \/ PayloadAges(e)
    PROVE  Move(d)
<1>1. event \in [Deliveries -> Event] /\ event[e] \in Event
  BY DEF OutboxInv, TypeInv, TypeOK
<1>2. Available \in SUBSET Deliveries
  BY DEF Available
<1>3. ASSUME NEW q, event' = [event EXCEPT ![e] = q],
             SameProgress(q, event[e]), q.token = event[e].token,
             q.live \in {FALSE, event[e].live}
      PROVE  Move(d)
  <2>1. CASE d = e
    BY <1>1, <1>3, <2>1 DEF Move, Kept, OutboxInv, RowInv
  <2>2. CASE d # e
    BY <1>1, <1>3, <2>2, UntouchedKept DEF Move
  <2> QED
    BY <2>1, <2>2
<1>4. CASE LeaseExpires(e) \/ LeaseLapses(e)
  <2> DEFINE q == [event[e] EXCEPT !.live = FALSE]
  <2>1. event' = [event EXCEPT ![e] = q]
    BY <1>4 DEF LeaseExpires, LeaseLapses
  <2>2. SameProgress(q, event[e]) /\ q.token = event[e].token /\ q.live = FALSE
    BY <1>1, OtherColumns
  <2> HIDE DEF q
  <2> QED
    BY <1>3, <2>1, <2>2
<1>5. CASE BackoffElapses(e)
  <2> DEFINE q == [event[e] EXCEPT !.due = TRUE, !.after = Available]
  <2>1. event' = [event EXCEPT ![e] = q]
    BY <1>5 DEF BackoffElapses
  <2>2. SameProgress(q, event[e]) /\ q.token = event[e].token
        /\ q.live = event[e].live
    BY <1>1, <1>2, OtherColumns
  <2> HIDE DEF q
  <2> QED
    BY <1>3, <2>1, <2>2
<1>6. CASE PayloadAges(e)
  <2> DEFINE q == [event[e] EXCEPT !.old = TRUE]
  <2>1. event' = [event EXCEPT ![e] = q]
    BY <1>6 DEF PayloadAges
  <2>2. SameProgress(q, event[e]) /\ q.token = event[e].token
        /\ q.live = event[e].live
    BY <1>1, OtherColumns
  <2> HIDE DEF q
  <2> QED
    BY <1>3, <2>1, <2>2
<1> QED
  BY <1>4, <1>5, <1>6

(* Every step moves every row in one of these ways.                        *)
LEMMA RowMoves ==
    ASSUME OutboxInv, [Next]_vars, NEW d \in Deliveries
    PROVE  Move(d)
<1>1. CASE UNCHANGED event
  BY <1>1, UntouchedKept DEF Move
<1>2. ASSUME NEW c \in Copies, NEW p \in Processes, ClaimFresh(c, p)
      PROVE  Move(d)
  <2>1. c[1] \in Deliveries /\ event \in [Deliveries -> Event]
    BY DEF Copies, OutboxInv, TypeInv, TypeOK
  <2>2. event' = [event EXCEPT ![c[1]] = FreshRow(c[1])]
        /\ event[c[1]].status = "none"
    BY <1>2 DEF ClaimFresh, FreshRow
  <2>3. CASE d = c[1]
    BY <2>1, <2>2, <2>3 DEF Move, Claimed
  <2>4. CASE d # c[1]
    BY <2>1, <2>2, <2>4, UntouchedKept DEF Move
  <2> QED
    BY <2>3, <2>4
<1>3. ASSUME NEW c \in Copies,
             Receive(c) \/ ClaimReplay(c) \/ ClaimOrphan(c) \/ ClaimThrows(c)
      PROVE  UNCHANGED event
  BY <1>3 DEF Receive, ClaimReplay, ClaimOrphan, ClaimThrows
<1>4. ASSUME NEW x \in Runs,
             HandlerThrows(x) \/ MarkSucceededThrows(x) \/ MarkFailedThrows(x)
      PROVE  UNCHANGED event
  BY <1>4 DEF HandlerThrows, MarkSucceededThrows, MarkFailedThrows
<1>5. ASSUME NEW p \in Processes, Crash(p) PROVE UNCHANGED event
  BY <1>5 DEF Crash
<1>6. CASE UNCHANGED vars
  BY <1>1, <1>6 DEF vars
<1> QED
  BY <1>1, <1>2, <1>3, <1>4, <1>5, <1>6,
     ReturnMoves, MarkMoves, SweepMoves, TimeMoves, Zenon
     DEF Next, Handle

-----------------------------------------------------------------------------
(* The inductive invariant                                                 *)

LEMMA RowStep ==
    ASSUME OutboxInv, NEW d \in Deliveries, Move(d)
    PROVE  RowInv(d)'
<1>1. RowInv(d)
  BY DEF OutboxInv
<1>2. CASE Kept(d)
  BY <1>1, <1>2 DEF Kept, SameProgress, RowInv, Empty
<1>3. CASE Claimed(d)
  <2> DEFINE p == FreshRow(d)
  <2>1. /\ p.status = "pending" /\ p.held = TRUE /\ p.token = d
        /\ p.live = TRUE /\ p.taker = d /\ p.closer = None
    BY FreshColumns
  <2>2. event'[d] = p
    BY <1>3 DEF Claimed
  <2> HIDE DEF p
  <2> QED
    BY <2>1, <2>2, Names DEF RowInv
<1>4. CASE Leased(d)
  BY <1>1, <1>4, Names DEF Leased, RowInv
<1>5. CASE Marked(d) \/ Dropped(d)
  BY <1>5 DEF Marked, Dropped, Done, RowInv
<1>6. CASE Forgotten(d)
  BY <1>6, BlankColumns DEF Forgotten, RowInv, Empty
<1> QED
  BY <1>2, <1>3, <1>4, <1>5, <1>6 DEF Move

(* A row that has been claimed stays claimed.                              *)
LEMMA ClaimedStays ==
    ASSUME NEW d \in Deliveries, Move(d), event[d].status # "none"
    PROVE  event'[d].status # "none"
  BY BlankColumns
     DEF Move, Kept, SameProgress, Claimed, Leased, Marked, Dropped, Done, Forgotten

LEMMA JobStep ==
    ASSUME OutboxInv, Next, NEW x \in Runs
    PROVE  JobInv(x)'
<1>1. RunMove(x) /\ JobInv(x) /\ RunInv(x)
  BY RunMoves DEF OutboxInv, TypeInv
<1>2. \A d \in Deliveries : Move(d)
  BY RowMoves
<1>3. CASE run'[x] = run[x] \/ GoesOn(x)
  <2>1. run'[x].pc \in Active => run[x].pc \in Active /\ run'[x].job = run[x].job
    BY <1>3 DEF GoesOn
  <2> QED
    BY <1>1, <1>2, <2>1, ClaimedStays, JobOf DEF JobInv, OutboxInv
<1>4. CASE AtRest(x) \/ Chooses(x)
  BY <1>4 DEF AtRest, Chooses, JobInv, Active
<1>5. CASE Begins(x)
  BY <1>5 DEF Begins, Holds, JobInv
<1> QED
  BY <1>1, <1>3, <1>4, <1>5 DEF RunMove

LEMMA OutboxStep == OutboxInv /\ [Next]_vars => OutboxInv'
<1> SUFFICES ASSUME OutboxInv, [Next]_vars PROVE OutboxInv'
  OBVIOUS
<1>1. TypeInv'
  BY TypeStep DEF OutboxInv
<1>2. \A d \in Deliveries : RowInv(d)'
  BY RowMoves, RowStep
<1>3. \A x \in Runs : JobInv(x)'
  <2>1. CASE Next
    BY <2>1, JobStep
  <2>2. CASE UNCHANGED vars
    BY <2>2 DEF vars, OutboxInv, JobInv
  <2> QED
    BY <2>1, <2>2
<1> QED
  BY <1>1, <1>2, <1>3 DEF OutboxInv

LEMMA OutboxInit == Init => OutboxInv
<1> SUFFICES ASSUME Init PROVE OutboxInv
  OBVIOUS
<1>1. \A d \in Deliveries : event[d] = Blank("none")
  BY DEF Init
<1>2. \A d \in Deliveries : RowInv(d)
  BY <1>1, BlankColumns DEF RowInv, Empty
<1>3. \A x \in Runs : JobInv(x)
  BY DEF Init, NoRun, JobInv, Active
<1> QED
  BY <1>2, <1>3, TypeInit DEF OutboxInv

LEMMA OutboxInvariant == Spec => []OutboxInv
  BY OutboxInit, OutboxStep, PTL DEF Spec

(* A payload is in the table exactly while its delivery is pending: no     *)
(* success, expiry, redaction or deletion leaves one behind, and none of   *)
(* them takes it from a delivery that is still to be handled.              *)
THEOREM PayloadsArePrivate == Spec => []PayloadOnlyWhilePending
<1>1. OutboxInv => PayloadOnlyWhilePending
  <2> SUFFICES ASSUME OutboxInv, NEW d \in Deliveries
               PROVE  event[d].held <=> event[d].status = "pending"
    BY DEF PayloadOnlyWhilePending
  <2>1. event[d].status \in {"none", "pending", "processed", "deleted"}
        /\ event[d].held \in BOOLEAN
    BY DEF OutboxInv, TypeInv, TypeOK, Event
  <2>2. RowInv(d)
    BY DEF OutboxInv
  <2> QED
    BY <2>1, <2>2 DEF RowInv, Empty
<1> QED
  BY <1>1, OutboxInvariant, PTL

-----------------------------------------------------------------------------
(* Age never discharges a legal action                                     *)

(* What has been handled stays handled.                                    *)
LEMMA HandledStays ==
    ASSUME OutboxInv, [Next]_vars, NEW e \in Deliveries, handled[e] > 0
    PROVE  handled'[e] > 0
<1>1. handled \in [Deliveries -> 0..2]
  BY DEF OutboxInv, TypeInv, TypeOK
<1>2. CASE UNCHANGED handled
  BY <1>2
<1>3. ASSUME NEW x \in Runs, HandlerReturns(x) PROVE handled'[e] > 0
  <2>1. handled' = [handled EXCEPT ![run[x].job] =
                       IF handled[run[x].job] = 2 THEN 2
                                                  ELSE handled[run[x].job] + 1]
    BY <1>3 DEF HandlerReturns
  <2> QED
    BY <1>1, <2>1
<1>4. Next => UNCHANGED handled \/ \E x \in Runs : HandlerReturns(x)
  BY DEF Next, Receive, ClaimReplay, ClaimOrphan, ClaimThrows, ClaimFresh,
         Handle, HandlerThrows, MarkSucceeded, MarkFailed, Heartbeat,
         MarkSucceededThrows, MarkFailedThrows, Sweep, BeginSweep, EndSweep,
         TryLease, SelectCandidate, Crash, LeaseExpires, LeaseLapses,
         BackoffElapses, PayloadAges
<1> QED
  BY <1>2, <1>3, <1>4 DEF vars

LEMMA ComplianceStep ==
    OutboxInv /\ ComplianceNeverLapses /\ [Next]_vars => ComplianceNeverLapses'
<1> SUFFICES ASSUME OutboxInv, ComplianceNeverLapses, [Next]_vars,
                    NEW d \in Compliance, event'[d].status = "processed"
             PROVE  \/ event'[d].closer # None
                    \/ \E e \in Deliveries : /\ TopicOf[e] = "redact"
                                             /\ handled'[e] > 0
  BY DEF ComplianceNeverLapses
<1>1. d \in Deliveries /\ d \notin Expiring
  BY DEF Compliance, Expiring
<1>2. Move(d) /\ RowInv(d)
  BY <1>1, RowMoves DEF OutboxInv
<1>3. CASE Kept(d)
  BY <1>1, <1>3, HandledStays DEF Kept, SameProgress, ComplianceNeverLapses
<1>4. CASE Marked(d)
  BY <1>2, <1>4, Names DEF Marked, Done, RowInv
<1>5. CASE Dropped(d)
  BY <1>1, <1>5 DEF Dropped
<1>6. ~(Claimed(d) \/ Leased(d) \/ Forgotten(d))
  <2>1. FreshRow(d).status = "pending" /\ Blank("deleted").status = "deleted"
    BY <1>1, FreshColumns, BlankColumns
  <2> QED
    BY <2>1 DEF Claimed, Leased, Forgotten
<1> QED
  BY <1>2, <1>3, <1>4, <1>5, <1>6 DEF Move

(* A privacy delivery is never closed by age, by a lost lease or by a      *)
(* sweep: only by its own handler's success or by a handled redaction.     *)
THEOREM ComplianceIsHandled == Spec => []ComplianceNeverLapses
<1>1. Init => ComplianceNeverLapses
  BY BlankColumns DEF Init, ComplianceNeverLapses, Compliance
<1> QED
  BY <1>1, ComplianceStep, OutboxInvariant, PTL DEF Spec

-----------------------------------------------------------------------------
(* The refinement                                                          *)

LEMMA Phases ==
    /\ PhaseOf("none") = "absent" /\ PhaseOf("pending") = "open"
    /\ PhaseOf("processed") = "closed" /\ PhaseOf("deleted") = "gone"
  BY DEF PhaseOf

(* The item of a row, column by column.                                    *)
LEMMA ItemOf ==
    ASSUME NEW d \in Deliveries
    PROVE  LeaseItem[d] = [phase  |-> PhaseOf(event[d].status),
                           holder |-> event[d].taker,
                           closer |-> event[d].closer]
  BY DEF LeaseItem

LEMMA ItemTyped ==
    TypeOK => LeaseItem \in [Deliveries -> Lease!Item]
  <1> SUFFICES ASSUME TypeOK PROVE LeaseItem \in [Deliveries -> Lease!Item]
    OBVIOUS
  <1>1. ASSUME NEW d \in Deliveries PROVE LeaseItem[d] \in Lease!Item
    <2>1. /\ event[d].status \in {"none", "pending", "processed", "deleted"}
          /\ event[d].taker \in Runs \cup {None}
          /\ event[d].closer \in Runs \cup {None}
      BY DEF TypeOK, Event
    <2>2. PhaseOf(event[d].status) \in {"absent", "open", "closed", "gone"}
      BY <2>1, Phases
    <2>3. \A f \in {"absent", "open", "closed", "gone"} :
             \A h, c \in Runs \cup {None} :
                [phase |-> f, holder |-> h, closer |-> c] \in Lease!Item
      BY DEF Lease!Item
    <2> QED
      BY <2>1, <2>2, <2>3, ItemOf
  <1>2. LeaseItem = [d \in Deliveries |-> LeaseItem[d]]
    BY DEF LeaseItem
  <1> QED
    BY <1>1, <1>2

(* A move of a row is a step of its item or leaves it as it is.            *)
LEMMA MoveIsStep ==
    ASSUME OutboxInv, NEW d \in Deliveries, Move(d),
           LeaseItem'[d] = [phase  |-> PhaseOf(event'[d].status),
                            holder |-> event'[d].taker,
                            closer |-> event'[d].closer]
    PROVE  LeaseItem'[d] = LeaseItem[d] \/ Lease!Step(LeaseItem[d], LeaseItem'[d])
<1> DEFINE s == LeaseItem[d]
           t == LeaseItem'[d]
<1>1. s = [phase |-> PhaseOf(event[d].status), holder |-> event[d].taker,
           closer |-> event[d].closer]
  BY ItemOf
<1>2. /\ s.phase = PhaseOf(event[d].status) /\ s.holder = event[d].taker
      /\ s.closer = event[d].closer
      /\ t.phase = PhaseOf(event'[d].status) /\ t.holder = event'[d].taker
      /\ t.closer = event'[d].closer
  BY <1>1
<1>3. RowInv(d)
  BY DEF OutboxInv
<1>4. CASE Kept(d)
  BY <1>1, <1>4 DEF Kept, SameProgress
<1>5. CASE Claimed(d)
  <2>1. FreshRow(d).status = "pending" /\ FreshRow(d).closer = None
    BY FreshColumns
  <2> QED
    BY <1>2, <1>5, <2>1, Phases DEF Claimed, Lease!Step, Lease!Opened
<1>6. CASE Leased(d)
  BY <1>2, <1>6, Phases DEF Leased, Lease!Step, Lease!Taken
<1>7. CASE Marked(d)
  <2>1. t = [s EXCEPT !.phase = "closed", !.closer = s.holder]
    BY <1>1, <1>2, <1>7, Phases DEF Marked, Done
  <2>2. s.phase = "open" /\ s.holder \in Runs
    BY <1>2, <1>3, <1>7, Phases DEF Marked, Done, RowInv
  <2> QED
    BY <2>1, <2>2 DEF Lease!Step, Lease!Closed
<1>8. CASE Dropped(d)
  <2>1. t = [s EXCEPT !.phase = "closed"]
    BY <1>1, <1>2, <1>8, Phases DEF Dropped, Done
  <2>2. s.phase = "open"
    BY <1>2, <1>8, Phases DEF Dropped, Done
  <2> QED
    BY <2>1, <2>2 DEF Lease!Step, Lease!Withdrawn
<1>9. CASE Forgotten(d)
  <2>1. Empty(event'[d]) /\ event'[d].status = "deleted"
    BY <1>9, BlankColumns DEF Forgotten
  <2>2. t = Lease!Blank("gone")
    BY <2>1, Phases DEF Empty, Lease!Blank
  <2>3. CASE event[d].status = "deleted"
    BY <1>1, <1>3, <2>1, <2>3, Phases DEF RowInv, Empty
  <2>4. CASE event[d].status \in {"pending", "processed"}
    BY <1>2, <2>2, <2>4, Phases DEF Lease!Step, Lease!Forgotten
  <2>5. event[d].status \in {"pending", "processed", "deleted"}
    BY <1>9 DEF Forgotten, OutboxInv, TypeInv, TypeOK, Event
  <2> QED
    BY <2>3, <2>4, <2>5
<1> QED
  BY <1>4, <1>5, <1>6, <1>7, <1>8, <1>9 DEF Move

LEMMA RefinedInit == Init => Lease!LInit
  <1> SUFFICES ASSUME Init
               PROVE  LeaseItem = [d \in Deliveries |-> Lease!Blank("absent")]
    BY DEF Lease!LInit
  <1>1. \A d \in Deliveries : event[d].status = "none" /\ Empty(event[d])
    BY BlankColumns DEF Init
  <1> QED
    BY <1>1, Phases DEF LeaseItem, Lease!Blank, Empty

LEMMA RefinedStep ==
    OutboxInv /\ OutboxInv' /\ [Next]_vars => [Lease!LNext]_LeaseItem
  <1> SUFFICES ASSUME OutboxInv, OutboxInv', [Next]_vars
               PROVE  Lease!LNext
    OBVIOUS
  <1>1. (LeaseItem \in [Deliveries -> Lease!Item])'
    BY ItemTyped, PTL DEF OutboxInv, TypeInv
  <1>2. ASSUME NEW d \in Deliveries
        PROVE  LeaseItem'[d] = LeaseItem[d]
               \/ Lease!Step(LeaseItem[d], LeaseItem'[d])
    <2>1. LeaseItem'[d] = [phase  |-> PhaseOf(event'[d].status),
                           holder |-> event'[d].taker,
                           closer |-> event'[d].closer]
      BY DEF LeaseItem, PhaseOf
    <2> QED
      BY <2>1, RowMoves, MoveIsStep
  <1> QED
    BY <1>1, <1>2 DEF Lease!LNext

(* The outbox implements the durable-work pattern, whatever crashes and    *)
(* stalls: only the run that took a delivery last can mark it, and what is *)
(* closed is never run again.                                              *)
THEOREM Refinement == Spec => ImplementsFencedLease
  BY RefinedInit, RefinedStep, OutboxInvariant, PTL
  DEF Spec, ImplementsFencedLease, Lease!LSpec

-----------------------------------------------------------------------------
(* While nothing fails, a delivery is handled once                         *)

Closed(d) == event[d].status \in {"processed", "deleted"}

(* The invariant of a healthy system: a run that works shows its own live  *)
(* lease, until the system closes its delivery; it works alone; it has not *)
(* been handled yet; and what has been handled is being marked or closed.  *)
Owning == \A x \in Runs : run[x].pc \in Active => Holds(x) \/ Closed(run[x].job)

Alone == \A x, y \in Runs :
            run[x].pc \in Active /\ run[y].pc \in Active
            /\ run[x].job = run[y].job => x = y

Unhandled == \A x \in Runs : run[x].pc = "run" => handled[run[x].job] = 0

OnlyPoisonFails == \A x \in Runs : run[x].pc = "fail" => run[x].job \in Poison

Marking(d) == \E x \in Runs : run[x].pc = "mark" /\ run[x].job = d

HandledOnce ==
    \A d \in Deliveries :
        \/ handled[d] = 0
        \/ handled[d] = 1 /\ d \notin Poison /\ (Closed(d) \/ Marking(d))

Healthy == Owning /\ Alone /\ Unhandled /\ OnlyPoisonFails /\ HandledOnce

HealthyInv == faults = 0 => Healthy

(* The steps of a healthy system.                                          *)
Smooth == \/ \E c \in Copies : \/ Receive(c) \/ ClaimReplay(c) \/ ClaimOrphan(c)
                               \/ \E p \in Processes : ClaimFresh(c, p)
          \/ \E x \in Runs : \/ HandlerReturns(x) \/ MarkSucceeded(x)
                             \/ MarkFailed(x) \/ Heartbeat(x)
                             \/ HandlerThrows(x) /\ run[x].job \in Poison
          \/ \E p \in Processes : Sweep(p)
          \/ \E d \in Deliveries : \/ LeaseExpires(d) \/ BackoffElapses(d)
                                   \/ PayloadAges(d)

LEMMA NoFault ==
    ASSUME TypeOK, Next, faults' = 0
    PROVE  faults = 0 /\ Smooth
<1>1. ~Fault
  BY DEF Fault, TypeOK
<1>2. Smooth
  BY <1>1, Zenon DEF Next, Smooth, Handle, HandlerThrows, ClaimThrows,
     MarkSucceededThrows, MarkFailedThrows, Crash, LeaseLapses
<1>3. Smooth => UNCHANGED faults
  BY DEF Smooth, Receive, ClaimReplay, ClaimOrphan, ClaimFresh,
         HandlerReturns, HandlerThrows, MarkSucceeded, MarkFailed, Heartbeat,
         Sweep, BeginSweep, EndSweep, TryLease, SelectCandidate, LeaseExpires,
         BackoffElapses, PayloadAges
<1> QED
  BY <1>2, <1>3

(* A delivery that is closed stays closed.                                 *)
LEMMA ClosedStays ==
    ASSUME NEW d \in Deliveries, Move(d), Closed(d)
    PROVE  Closed(d)'
  BY BlankColumns
     DEF Closed, Move, Kept, SameProgress, Claimed, Leased, Marked, Dropped,
         Done, Forgotten

(* A run that goes on keeps its live lease, unless its delivery is closed: *)
(* nobody leases a live row, and the lease of a living run does not end.   *)
LEMMA LeaseHeld ==
    ASSUME OutboxInv, Smooth, NEW x \in Runs, run[x].pc \in Active, Holds(x),
           run'[x].pc \in Active, NEW d \in Deliveries, d = run[x].job
    PROVE  \/ Closed(d)'
           \/ /\ event'[d].status = "pending" /\ event'[d].token = x
              /\ event'[d].live = TRUE
<1>1. event[d] \in Event /\ TypeOK
  BY DEF OutboxInv, TypeInv, TypeOK
<1>3. event \in [Deliveries -> Event] /\ run \in [Runs -> Run]
  BY DEF OutboxInv, TypeInv, TypeOK
<1>2. event[d].status = "pending" /\ event[d].token = x /\ event[d].live = TRUE
  BY DEF Holds
<1>4. CASE event'[d] = event[d]
  BY <1>2, <1>4
<1>5. ASSUME NEW q, event' = [event EXCEPT ![d] = q], SameProgress(q, event[d]),
             q.token = event[d].token, q.live \in {TRUE, event[d].live}
      PROVE  event'[d].status = "pending" /\ event'[d].token = x
             /\ event'[d].live = TRUE
  BY <1>1, <1>2, <1>3, <1>5 DEF SameProgress
<1>6. ASSUME NEW e \in Deliveries \ {d}, NEW q, event' = [event EXCEPT ![e] = q]
      PROVE  event'[d] = event[d]
  BY <1>1, <1>3, <1>6
<1>7. ASSUME NEW c \in Copies, NEW p \in Processes, ClaimFresh(c, p)
      PROVE  event'[d] = event[d]
  BY <1>1, <1>2, <1>3, <1>7 DEF ClaimFresh, Copies
<1>8. ASSUME NEW y \in Runs, HandlerReturns(y) PROVE Closed(d)' \/ event'[d] = event[d]
  <2>1. Move(d)
    BY <1>1, <1>8, ReturnMoves
  <2>2. \/ event'[d] = event[d] \/ event'[d] = Superseded(d)
        \/ event'[d] = Blank("deleted")
    <3>1. CASE UNCHANGED event
      BY <3>1
    <3>2. CASE Effect(run[y].job)
      BY <1>1, <1>3, <3>2, Zenon DEF Effect
    <3> QED
      BY <1>8, <3>1, <3>2 DEF HandlerReturns
  <2> QED
    BY <1>1, <2>2, SupersededColumns, BlankColumns DEF Closed
<1>9. ASSUME NEW y \in Runs, MarkSucceeded(y)
      PROVE  Closed(d)' \/ event'[d] = event[d]
  <2> DEFINE p == [Superseded(d) EXCEPT !.closer = y]
  <2>1. event'[d] = IF d \in Fenced(y) THEN p ELSE event[d]
    BY <1>1, <1>3, <1>9 DEF MarkSucceeded
  <2>2. p.status = "processed"
    BY <1>1, MarkedColumns
  <2> HIDE DEF p
  <2> QED
    BY <2>1, <2>2 DEF Closed
<1>10. ASSUME NEW y \in Runs, MarkFailed(y)
       PROVE  event'[d].status = "pending" /\ event'[d].token = x
              /\ event'[d].live = TRUE
  <2>1. y # x
    <3>1. y = x => run'[x] = Finished(x)
      BY <1>1, <1>3, <1>10 DEF MarkFailed
    <3> QED
      BY <3>1, RestingRuns DEF Active
  <2>2. d \notin Fenced(y)
    BY <1>2, <2>1 DEF Fenced
  <2> DEFINE s == event[d].after \ Fenced(y)
             p == [event[d] EXCEPT !.after = s]
  <2>3. event'[d] = p
    BY <1>1, <1>3, <1>10, <2>2 DEF MarkFailed
  <2>4. s \in SUBSET Deliveries
    BY <1>1 DEF Event
  <2> HIDE DEF s
  <2>5. SameProgress(p, event[d]) /\ p.token = event[d].token
        /\ p.live = event[d].live
    BY <1>1, <2>4, SMT DEF SameProgress, Event
  <2> HIDE DEF p
  <2> QED
    BY <1>2, <2>3, <2>5 DEF SameProgress
<1>11. ASSUME NEW p \in Processes, BeginSweep(p) PROVE event'[d] = event[d]
  BY <1>1, <1>2, <1>3, <1>11 DEF BeginSweep, Expired
<1>12. ASSUME NEW p \in Processes, TryLease(p) PROVE event'[d] = event[d]
  <2>1. Due(run[p].job) => run[p].job \in Deliveries \ {d}
    BY <1>1, <1>2, <1>12 DEF Due, OutboxInv, TypeInv, RunInv, TryLease, Runs
  <2> DEFINE e == run[p].job
             q == [event[e] EXCEPT !.token = p, !.live = TRUE, !.taker = p]
  <2>2. Due(e) => event' = [event EXCEPT ![e] = q]
    BY <1>12 DEF TryLease
  <2>4. ~Due(e) => UNCHANGED event
    BY <1>12 DEF TryLease
  <2> HIDE DEF e, q
  <2>3. CASE Due(e)
    BY <1>6, <2>1, <2>2, <2>3 DEF e
  <2> QED
    BY <2>3, <2>4
<1>13. ASSUME NEW y \in Runs, Heartbeat(y)
       PROVE  event'[d].status = "pending" /\ event'[d].token = x
              /\ event'[d].live = TRUE
  <2> DEFINE p == [event[d] EXCEPT !.live = TRUE]
  <2>1. event'[d] = p \/ event'[d] = event[d]
    BY <1>1, <1>3, <1>13 DEF Heartbeat, Fenced
  <2>2. SameProgress(p, event[d]) /\ p.token = event[d].token /\ p.live = TRUE
    BY <1>1, OtherColumns
  <2> HIDE DEF p
  <2> QED
    BY <1>2, <2>1, <2>2 DEF SameProgress
<1>14. ASSUME NEW e \in Deliveries, LeaseExpires(e) PROVE event'[d] = event[d]
  <2>1. d \in Fenced(x)
    BY <1>1, <1>2 DEF Fenced
  <2>2. e # d
    BY <1>14, <2>1 DEF LeaseExpires, Owned
  <2> QED
    BY <1>6, <1>14, <2>2 DEF LeaseExpires
<1>15. ASSUME NEW e \in Deliveries, BackoffElapses(e) \/ PayloadAges(e)
       PROVE  event'[d].status = "pending" /\ event'[d].token = x
              /\ event'[d].live = TRUE
  <2> DEFINE p == [event[d] EXCEPT !.due = TRUE, !.after = Available]
             q == [event[d] EXCEPT !.old = TRUE]
  <2>1. event'[d] \in {p, q, event[d]}
    BY <1>1, <1>3, <1>15 DEF BackoffElapses, PayloadAges
  <2>2. Available \in SUBSET Deliveries
    BY DEF Available
  <2>3. /\ SameProgress(p, event[d]) /\ p.token = event[d].token
        /\ p.live = event[d].live
        /\ SameProgress(q, event[d]) /\ q.token = event[d].token
        /\ q.live = event[d].live
    BY <1>1, <2>2, SMT DEF SameProgress, Event
  <2> HIDE DEF p, q
  <2> QED
    BY <1>2, <2>1, <2>3 DEF SameProgress
<1>16. CASE UNCHANGED event
  BY <1>4, <1>16
<1>17. ASSUME \/ \E c \in Copies : Receive(c) \/ ClaimReplay(c) \/ ClaimOrphan(c)
              \/ \E y \in Runs : HandlerThrows(y)
              \/ \E p \in Processes : \/ EndSweep(p)
                                      \/ \E e \in Deliveries : SelectCandidate(p, e)
       PROVE  UNCHANGED event
  BY <1>17 DEF Receive, ClaimReplay, ClaimOrphan, HandlerThrows, EndSweep,
               SelectCandidate
<1> QED
  BY <1>4, <1>7, <1>8, <1>9, <1>10, <1>11, <1>12, <1>13, <1>14, <1>15, <1>16,
     <1>17, Zenon DEF Smooth, Sweep

(* A run that marks a success does, and with it its delivery is closed.    *)
LEMMA MarkingLasts ==
    ASSUME OutboxInv, Smooth, NEW x \in Runs, run[x].pc = "mark",
           Holds(x) \/ Closed(run[x].job)
    PROVE  run'[x] = run[x] \/ event'[run[x].job].status \in {"processed", "deleted"}
<1> DEFINE d == run[x].job
<1>1. d \in Deliveries /\ TypeOK /\ run \in [Runs -> Run]
  <2>1. d \in Deliveries
    BY JobOf DEF OutboxInv, Active
  <2> QED
    BY <2>1 DEF OutboxInv, TypeInv, TypeOK
<1>2. ASSUME NEW y \in Runs, MarkSucceeded(y), y = x
      PROVE  event'[d].status \in {"processed", "deleted"}
  <2> DEFINE p == [Superseded(d) EXCEPT !.closer = x]
  <2>1. event'[d] = IF d \in Fenced(x) THEN p ELSE event[d]
    BY <1>1, <1>2 DEF MarkSucceeded
  <2>2. p.status = "processed"
    BY <1>1, MarkedColumns
  <2>3. Holds(x) => d \in Fenced(x)
    BY <1>1 DEF Holds, Fenced
  <2> HIDE DEF p
  <2> QED
    BY <2>1, <2>2, <2>3 DEF Closed
<1>3. ASSUME NEW y \in Runs, MarkSucceeded(y) \/ MarkFailed(y), y # x
      PROVE  run'[x] = run[x]
  BY <1>1, <1>3 DEF MarkSucceeded, MarkFailed
<1>4. ASSUME NEW y \in Runs, HandlerReturns(y) \/ HandlerThrows(y) \/ MarkFailed(y)
      PROVE  run'[x] = run[x]
  BY <1>1, <1>4 DEF HandlerReturns, HandlerThrows, MarkFailed
<1>5. ASSUME NEW p \in Processes, Sweep(p) PROVE run'[x] = run[x]
  BY <1>1, <1>5 DEF Sweep, BeginSweep, EndSweep, TryLease, SelectCandidate
<1>6. ASSUME NEW c \in Copies, NEW p \in Processes, ClaimFresh(c, p)
      PROVE  run'[x] = run[x]
  <2>1. x # c[1]
    <3>1. c[1] \in Deliveries /\ event[c[1]].status = "none"
      BY <1>6 DEF ClaimFresh, Copies
    <3>2. event[d].status # "none" /\ (x \in Deliveries => d = x)
      BY JobOf DEF OutboxInv, JobInv, Active
    <3> QED
      BY <3>1, <3>2
  <2> QED
    BY <1>1, <1>6, <2>1 DEF ClaimFresh
<1>7. ASSUME \/ \E c \in Copies : Receive(c) \/ ClaimReplay(c) \/ ClaimOrphan(c)
             \/ \E y \in Runs : Heartbeat(y)
             \/ \E e \in Deliveries : \/ LeaseExpires(e) \/ BackoffElapses(e)
                                      \/ PayloadAges(e)
      PROVE  UNCHANGED run
  BY <1>7 DEF Receive, ClaimReplay, ClaimOrphan, Heartbeat, LeaseExpires,
              BackoffElapses, PayloadAges
<1> QED
  BY <1>2, <1>3, <1>4, <1>5, <1>6, <1>7, Zenon DEF Smooth

(* The invariant of a healthy system is kept, part by part.                *)
LEMMA OwningStep ==
    ASSUME OutboxInv, Healthy, Next, Smooth
    PROVE  Owning'
<1> SUFFICES ASSUME NEW x \in Runs, run'[x].pc \in Active
             PROVE  (Holds(x) \/ Closed(run[x].job))'
  BY DEF Owning
<1>1. RunMove(x)
  BY RunMoves DEF OutboxInv
<1>2. CASE run'[x] = run[x] \/ GoesOn(x)
  <2>1. run[x].pc \in Active /\ run'[x].job = run[x].job
    BY <1>2 DEF GoesOn
  <2>2. run[x].job \in Deliveries
    BY <2>1, JobOf DEF OutboxInv
  <2>3. CASE Holds(x)
    <3>1. \/ Closed(run[x].job)'
          \/ /\ event'[run[x].job].status = "pending"
             /\ event'[run[x].job].token = x
             /\ event'[run[x].job].live = TRUE
      BY <2>1, <2>2, <2>3, LeaseHeld DEF Closed
    <3> QED
      BY <2>1, <3>1 DEF Holds, Closed
  <2>4. CASE Closed(run[x].job)
    <3>1. event'[run[x].job].status \in {"processed", "deleted"}
      BY <2>2, <2>4, RowMoves, ClosedStays DEF Closed
    <3> QED
      BY <2>1, <3>1 DEF Closed
  <2> QED
    BY <2>1, <2>3, <2>4 DEF Healthy, Owning
<1>3. CASE Begins(x)
  BY <1>3 DEF Begins
<1> QED
  BY <1>1, <1>2, <1>3 DEF RunMove, AtRest, Chooses, Active

(* A delivery that a run of a healthy system can begin has none.           *)
LEMMA BegunIsFree ==
    ASSUME OutboxInv, Healthy, NEW d \in Deliveries,
           event[d].status = "none" \/ Due(d)
    PROVE  /\ \A y \in Runs : run[y].pc \in Active => run[y].job # d
           /\ handled[d] = 0
<1>1. ~Closed(d)
  BY DEF Closed, Due
<1>2. ASSUME NEW y \in Runs, run[y].pc \in Active, run[y].job = d PROVE FALSE
  <2>1. event[d].status # "none" /\ Holds(y)
    BY <1>1, <1>2 DEF OutboxInv, JobInv, Healthy, Owning
  <2> QED
    BY <1>2, <2>1 DEF Holds, Due
<1> QED
  BY <1>1, <1>2 DEF Healthy, HandledOnce, Marking, Active

LEMMA AloneStep ==
    ASSUME OutboxInv, Healthy, Next, Smooth
    PROVE  Alone'
<1> SUFFICES ASSUME NEW x \in Runs, NEW y \in Runs,
                    run'[x].pc \in Active, run'[y].pc \in Active,
                    run'[x].job = run'[y].job
             PROVE  x = y
  BY DEF Alone
<1>1. ASSUME NEW z \in Runs, run'[z].pc \in Active
      PROVE  \/ run[z].pc \in Active /\ run'[z].job = run[z].job
             \/ Begins(z)
  BY <1>1, RunMoves DEF OutboxInv, RunMove, GoesOn, AtRest, Chooses, Active
<1>2. ASSUME NEW v \in Runs, NEW w \in Runs, Begins(v),
             run[w].pc \in Active, run[w].job = run'[v].job
      PROVE  FALSE
  BY <1>2, BegunIsFree DEF Begins
<1>3. CASE Begins(x) /\ Begins(y)
  BY <1>3 DEF Begins, Holds
<1> QED
  BY <1>1, <1>2, <1>3 DEF Healthy, Alone

(* What handlers returning does to the counts.                             *)
LEMMA CountMoves ==
    ASSUME OutboxInv, Smooth
    PROVE  \/ UNCHANGED handled
           \/ \E x \in Runs :
                /\ run[x].pc = "run" /\ run[x].job \notin Poison
                /\ run[x].job \in Deliveries
                /\ run' = [run EXCEPT ![x] = [run[x] EXCEPT !.pc = "mark"]]
                /\ run'[x].pc = "mark" /\ run'[x].job = run[x].job
                /\ handled' = [handled EXCEPT ![run[x].job] =
                                  IF @ = 2 THEN 2 ELSE @ + 1]
<1>1. ASSUME NEW x \in Runs, HandlerReturns(x)
      PROVE  /\ run[x].pc = "run" /\ run[x].job \notin Poison
             /\ run[x].job \in Deliveries
             /\ run' = [run EXCEPT ![x] = [run[x] EXCEPT !.pc = "mark"]]
             /\ run'[x].pc = "mark" /\ run'[x].job = run[x].job
             /\ handled' = [handled EXCEPT ![run[x].job] =
                               IF @ = 2 THEN 2 ELSE @ + 1]
  <2>1. run \in [Runs -> Run] /\ run[x] \in Run
    BY DEF OutboxInv, TypeInv, TypeOK
  <2> DEFINE q == [run[x] EXCEPT !.pc = "mark"]
  <2>2. q.pc = "mark" /\ q.job = run[x].job
    BY <2>1, Zenon DEF Run
  <2>3. run' = [run EXCEPT ![x] = q]
    BY <1>1 DEF HandlerReturns
  <2>4. run[x].job \in Deliveries
    BY <1>1, JobOf DEF HandlerReturns, OutboxInv, Active
  <2>5. run'[x] = q
    BY <2>1, <2>3
  <2> HIDE DEF q
  <2>6. run'[x].pc = "mark" /\ run'[x].job = run[x].job
    BY <2>2, <2>5
  <2> USE DEF q
  <2> QED
    BY <1>1, <2>3, <2>4, <2>6 DEF HandlerReturns
<1>2. Smooth => UNCHANGED handled \/ \E x \in Runs : HandlerReturns(x)
  BY DEF Smooth, Receive, ClaimReplay, ClaimOrphan, ClaimFresh,
         HandlerThrows, MarkSucceeded, MarkFailed, Heartbeat,
         Sweep, BeginSweep, EndSweep, TryLease, SelectCandidate, LeaseExpires,
         BackoffElapses, PayloadAges
<1> QED
  BY <1>1, <1>2

LEMMA UnhandledStep ==
    ASSUME OutboxInv, Healthy, Next, Smooth
    PROVE  Unhandled'
<1> SUFFICES ASSUME NEW x \in Runs, run'[x].pc = "run"
             PROVE  handled'[run'[x].job] = 0
  BY DEF Unhandled
<1>1. \/ run'[x] = run[x] /\ run[x].job \in Deliveries /\ handled[run[x].job] = 0
      \/ Begins(x) /\ handled[run'[x].job] = 0
  <2>1. RunMove(x)
    BY RunMoves DEF OutboxInv
  <2>2. CASE run'[x] = run[x]
    BY <2>2, JobOf DEF Healthy, Unhandled, OutboxInv, Active
  <2>3. CASE Begins(x)
    BY <2>3, BegunIsFree DEF Begins
  <2> QED
    BY <2>1, <2>2, <2>3 DEF RunMove, GoesOn, AtRest, Chooses, Active
<1>2. CASE UNCHANGED handled
  BY <1>1, <1>2
<1>3. ASSUME NEW y \in Runs, run[y].pc = "run", run[y].job \in Deliveries,
             run' = [run EXCEPT ![y] = [run[y] EXCEPT !.pc = "mark"]],
             run'[y].pc = "mark",
             handled' = [handled EXCEPT ![run[y].job] = IF @ = 2 THEN 2 ELSE @ + 1]
      PROVE  handled'[run'[x].job] = 0
  <2>1. x # y /\ run'[x] = run[x]
    BY <1>3
  <2>2. run[x].job # run[y].job
    BY <1>3, <2>1 DEF Healthy, Alone, Active
  <2>3. run[x].job \in Deliveries /\ handled[run[x].job] = 0
    BY <2>1, JobOf DEF Healthy, Unhandled, OutboxInv, Active
  <2> QED
    BY <1>3, <2>1, <2>2, <2>3
<1> QED
  BY <1>2, <1>3, CountMoves

LEMMA FailStep ==
    ASSUME OutboxInv, Healthy, Next, Smooth
    PROVE  OnlyPoisonFails'
<1> SUFFICES ASSUME NEW x \in Runs, run'[x].pc = "fail"
             PROVE  run'[x].job \in Poison
  BY DEF OnlyPoisonFails
<1>1. CASE run'[x] = run[x]
  BY <1>1 DEF Healthy, OnlyPoisonFails
<1>2. CASE run'[x] # run[x]
  <2>1. GoesOn(x)
    BY <1>2, RunMoves DEF RunMove, AtRest, Chooses, Begins, OutboxInv
  <2>2. run \in [Runs -> Run]
    BY DEF OutboxInv, TypeInv, TypeOK
  <2>3. HandlerThrows(x) /\ run[x].job \in Poison
    <3>1. ASSUME NEW y \in Runs, HandlerReturns(y) PROVE FALSE
      <4>1. y = x /\ run'[x] = [run[x] EXCEPT !.pc = "mark"]
        BY <1>2, <2>2, <3>1 DEF HandlerReturns
      <4>2. run[x] \in Run
        BY <2>2
      <4>3. [run[x] EXCEPT !.pc = "mark"].pc = "mark"
        BY <4>2, Zenon DEF Run
      <4> QED
        BY <4>1, <4>3
    <3>2. ASSUME NEW y \in Runs, MarkSucceeded(y) \/ MarkFailed(y) PROVE FALSE
      <4>1. y = x /\ run'[x] = Finished(x)
        BY <1>2, <2>2, <3>2 DEF MarkSucceeded, MarkFailed
      <4> QED
        BY <4>1, RestingRuns
    <3>3. ASSUME NEW y \in Runs, HandlerThrows(y), run[y].job \in Poison
          PROVE  y = x
      BY <1>2, <2>2, <3>3 DEF HandlerThrows
    <3>4. ASSUME NEW p \in Processes, Sweep(p) PROVE FALSE
      <4>1. run[p].pc \in {"idle", "sweep", "lease"}
            /\ \A z \in Runs : z # p => run'[z] = run[z]
        BY <2>2, <3>4
           DEF Sweep, BeginSweep, EndSweep, TryLease, SelectCandidate
      <4> QED
        BY <1>2, <2>1, <4>1 DEF GoesOn, Active
    <3>5. ASSUME NEW c \in Copies, NEW p \in Processes, ClaimFresh(c, p)
          PROVE  FALSE
      <4>1. run' = [run EXCEPT ![c[1]] = [pc |-> "run", job |-> c[1],
                                          home |-> p, done |-> 0]]
        BY <3>5 DEF ClaimFresh
      <4> QED
        BY <1>2, <2>2, <4>1
    <3>6. ASSUME \/ \E c \in Copies : Receive(c) \/ ClaimReplay(c) \/ ClaimOrphan(c)
                 \/ \E y \in Runs : Heartbeat(y)
                 \/ \E e \in Deliveries : \/ LeaseExpires(e) \/ BackoffElapses(e)
                                          \/ PayloadAges(e)
          PROVE  FALSE
      BY <1>2, <3>6 DEF Receive, ClaimReplay, ClaimOrphan, Heartbeat,
                        LeaseExpires, BackoffElapses, PayloadAges
    <3> QED
      BY <3>1, <3>2, <3>3, <3>4, <3>5, <3>6, Zenon DEF Smooth
  <2> QED
    BY <2>1, <2>3 DEF GoesOn
<1> QED
  BY <1>1, <1>2

LEMMA OnceStep ==
    ASSUME OutboxInv, Healthy, Next, Smooth
    PROVE  HandledOnce'
<1> SUFFICES ASSUME NEW d \in Deliveries
             PROVE  \/ handled'[d] = 0
                    \/ /\ handled'[d] = 1 /\ d \notin Poison
                       /\ Closed(d)' \/ Marking(d)'
  BY DEF HandledOnce
<1>1. \/ handled[d] = 0
      \/ handled[d] = 1 /\ d \notin Poison /\ (Closed(d) \/ Marking(d))
  BY DEF Healthy, HandledOnce
<1>2. Closed(d) => Closed(d)'
  BY RowMoves, ClosedStays
<1>3. ASSUME Marking(d) PROVE Closed(d)' \/ Marking(d)'
  <2>1. PICK x \in Runs : run[x].pc = "mark" /\ run[x].job = d
    BY <1>3 DEF Marking
  <2>2. Holds(x) \/ Closed(d)
    BY <2>1 DEF Healthy, Owning, Active
  <2>3. run'[x] = run[x] \/ event'[d].status \in {"processed", "deleted"}
    BY <2>1, <2>2, MarkingLasts
  <2> QED
    BY <2>1, <2>3 DEF Marking, Closed
<1>4. CASE handled'[d] = handled[d]
  BY <1>1, <1>2, <1>3, <1>4
<1>5. ASSUME NEW x \in Runs,
             run[x].pc = "run", run[x].job \notin Poison,
             run'[x].pc = "mark", run'[x].job = run[x].job,
             handled' = [handled EXCEPT ![run[x].job] = IF @ = 2 THEN 2 ELSE @ + 1]
      PROVE  \/ handled'[d] = handled[d]
             \/ handled'[d] = 1 /\ d \notin Poison /\ Marking(d)'
  <2>1. handled \in [Deliveries -> 0..2]
    BY DEF OutboxInv, TypeInv, TypeOK
  <2>2. handled[run[x].job] = 0
    BY <1>5 DEF Healthy, Unhandled
  <2> QED
    BY <1>5, <2>1, <2>2 DEF Marking
<1> QED
  BY <1>4, <1>5, CountMoves

LEMMA HealthyStep == OutboxInv /\ HealthyInv /\ [Next]_vars => HealthyInv'
<1> SUFFICES ASSUME OutboxInv, HealthyInv, [Next]_vars, faults' = 0
             PROVE  Healthy'
  BY DEF HealthyInv
<1>1. CASE Next
  <2>1. Healthy /\ Smooth
    BY <1>1, NoFault DEF HealthyInv, OutboxInv, TypeInv
  <2> QED
    BY <1>1, <2>1, OwningStep, AloneStep, UnhandledStep, FailStep, OnceStep
       DEF Healthy
<1>2. CASE UNCHANGED vars
  BY <1>2 DEF vars, HealthyInv, Healthy, Owning, Alone, Unhandled,
              OnlyPoisonFails, HandledOnce, Marking, Holds, Closed
<1> QED
  BY <1>1, <1>2

(* While nothing fails, no delivery is handled twice, however often it is  *)
(* sent and however many processes sweep: the lease is fence enough.       *)
THEOREM HealthyHandledOnce == Spec => []HealthyDeliveryHandledOnce
<1>1. Init => HealthyInv
  BY DEF Init, NoRun, HealthyInv, Healthy, Owning, Alone, Unhandled,
         OnlyPoisonFails, HandledOnce, Active
<1>2. OutboxInv /\ HealthyInv => HealthyDeliveryHandledOnce
  <2> SUFFICES ASSUME HealthyInv, faults = 0, NEW d \in Deliveries
               PROVE  handled[d] <= 1
    BY DEF HealthyDeliveryHandledOnce
  <2>1. handled[d] \in {0, 1}
    BY DEF HealthyInv, Healthy, HandledOnce
  <2> QED
    BY <2>1
<1> QED
  BY <1>1, <1>2, HealthyStep, OutboxInvariant, PTL DEF Spec

=============================================================================
