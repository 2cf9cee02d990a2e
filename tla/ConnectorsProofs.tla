-------------------------- MODULE ConnectorsProofs --------------------------
(***************************************************************************)
(* Machine-checked theorems about Connectors: the health checks of an      *)
(* advertising connector, the daily spend it brings and the costs of the   *)
(* carriers, for every set of processes, worker slots, credentials, days,  *)
(* readers, labels and parcels, and every story; and, for what the parcels *)
(* get and for the tax of an order, about splitting cents by weight.       *)
(***************************************************************************)
EXTENDS Connectors, TaxSplit, FiniteSetTheorems, WellFoundedInduction, TLAPS

-----------------------------------------------------------------------------
(* The inductive invariants                                                *)

(* A check at work, and one whose outcome is not written yet.              *)
Working(c)   == c.pc \notin {"idle", "read"}
Undecided(c) == c.pc \notin {"idle", "read", "alert", "over"}

(* The alerts of an outage by its kinds: one that is about to be sent      *)
(* counts.  The first refusal and the third failure alert.                 *)
Announced(out, sending) == IF sending THEN out.alerts + 1 ELSE out.alerts
Tally(out, row, sending) ==
    /\ (~out.auth /\ ~out.soft) =>
          row.failures = 0 /\ row.status # "disconnected" /\ Announced(out, sending) = 0
    /\ (~out.auth /\ out.soft) =>
          /\ row.status # "disconnected"
          /\ Announced(out, sending) = IF row.failures >= 3 THEN 1 ELSE 0
    /\ (out.auth /\ ~out.soft) =>
          /\ row.status = "disconnected"
          /\ Announced(out, sending) = IF row.failures >= 3 THEN 2 ELSE 1
    /\ (out.auth /\ out.soft) => Announced(out, sending) >= 1

(* Of checks that keep apart the one at work has the lease, and what it    *)
(* has read of the row is so until it has written its outcome.             *)
CheckInv(p, c, row, held) ==
    /\ Working(c) => held = [by |-> p, live |-> TRUE]
    /\ Undecided(c) => c.seen.status = row.status /\ c.seen.failures = row.failures

Sending(checks) == \E p \in Processes : checks[p].pc = "alert"

ApartInv(checks, row, held, out) ==
    /\ \A p \in Processes : CheckInv(p, checks[p], row, held)
    /\ Tally(out, row, Sending(checks))
HealthInv == apart => ApartInv(check, link, lease, outage)

(* What a recompute is about to store is stale already when it is; that    *)
(* of the days it overtook is not known.                                   *)
SpendInv ==
    /\ StaleProfitIsSeen
    /\ run.pc = "read" =>
          \A d \in Days \ overtaken : run.rows[d] # spend[d] => d \in run.owed

Ingest == [pc : {"idle", "begun", "ready", "fetched", "tell"}, day : Days, seen : Link,
           rows : Nat, afterRun : BOOLEAN, after : BOOLEAN]
Run    == [pc : {"idle", "begun", "read"}, owed : SUBSET Days, rows : [Days -> Nat],
           rider : BOOLEAN]

(* SpendTypeOK, with the whole of what the slots and the run know.         *)
SpendColumns ==
    /\ today \in Days /\ truth \in [Days -> Nat \ {0}]
    /\ window \in [Days -> [state : {"none", "pending", "failed", "synced"}, hash : Nat]]
    /\ spend \in [Days -> Nat] /\ profit \in [Days -> Nat]
    /\ stale \subseteq Days /\ overtaken \subseteq Days
    /\ deepAt \in 0..MaxDay /\ pinned \in BOOLEAN
    /\ job \in [Days -> JobStates] /\ recalc \in JobStates
    /\ ingest \in [Slots -> Ingest] /\ run \in Run

-----------------------------------------------------------------------------
(* What each write leaves in the rows                                      *)

LEMMA LinkWrites ==
    ASSUME NEW q \in Link
    PROVE  /\ \A b \in BOOLEAN : [q EXCEPT !.fresh = b] \in Link
           /\ \A b \in BOOLEAN : [q EXCEPT !.due = b] \in Link
           /\ \A e \in Expiries : [q EXCEPT !.expiry = e] \in Link
           /\ \A c \in Creds : [q EXCEPT !.standby = c] \in Link
           /\ \A t \in Statuses : [q EXCEPT !.status = t] \in Link
           /\ \A c \in Creds : Renewed(q, c) \in Link
           /\ \A t \in Statuses, n \in 0..MaxFailures, b \in BOOLEAN :
                [q EXCEPT !.status = t, !.failures = n, !.due = b] \in Link
           /\ \A c \in Creds, e \in Expiries, r \in Creds \cup {NoCred} :
                [q EXCEPT !.access = c, !.fresh = TRUE, !.expiry = e, !.refresh = r,
                          !.standby = NoCred] \in Link
           /\ \A c \in Creds, e \in Expiries, r \in Creds \cup {NoCred} :
                [q EXCEPT !.access = c, !.fresh = TRUE, !.expiry = e, !.refresh = r,
                          !.status = "connected", !.failures = 0, !.due = TRUE] \in Link
<1>1. /\ 0 \in 0..MaxFailures /\ {"connected", "error", "disconnected"} = Statuses
      /\ {"later", "soon", "none"} = Expiries
  BY AdHealthAssumption DEF Statuses, Expiries
<1>2. /\ \A b \in BOOLEAN : [q EXCEPT !.fresh = b] \in Link
      /\ \A b \in BOOLEAN : [q EXCEPT !.due = b] \in Link
      /\ \A e \in Expiries : [q EXCEPT !.expiry = e] \in Link
      /\ \A c \in Creds : [q EXCEPT !.standby = c] \in Link
      /\ \A t \in Statuses : [q EXCEPT !.status = t] \in Link
      /\ \A t \in Statuses, n \in 0..MaxFailures, b \in BOOLEAN :
           [q EXCEPT !.status = t, !.failures = n, !.due = b] \in Link
  BY Zenon DEF Link
<1>3. \A c \in Creds, e \in Expiries :
         [q EXCEPT !.access = c, !.fresh = TRUE, !.expiry = e] \in Link
  BY Zenon DEF Link
<1>4. \A c \in Creds, e \in Expiries, r, s \in Creds \cup {NoCred} :
         [q EXCEPT !.access = c, !.fresh = TRUE, !.expiry = e, !.refresh = r, !.standby = s]
           \in Link
  BY Zenon DEF Link
<1>5. \A c \in Creds, e \in Expiries, r \in Creds \cup {NoCred}, t \in Statuses,
         n \in 0..MaxFailures :
         [q EXCEPT !.access = c, !.fresh = TRUE, !.expiry = e, !.refresh = r, !.status = t,
                   !.failures = n, !.due = TRUE] \in Link
  BY Zenon DEF Link
<1>6. NoCred \in Creds \cup {NoCred} /\ "connected" \in Statuses
  BY DEF Statuses
<1>7. \A c \in Creds : Renewed(q, c) \in Link
  BY <1>1, <1>3 DEF Renewed
<1>8. \A c \in Creds, e \in Expiries, r \in Creds \cup {NoCred} :
         [q EXCEPT !.access = c, !.fresh = TRUE, !.expiry = e, !.refresh = r,
                   !.standby = NoCred] \in Link
  BY <1>4, <1>6
<1>9. \A c \in Creds, e \in Expiries, r \in Creds \cup {NoCred} :
         [q EXCEPT !.access = c, !.fresh = TRUE, !.expiry = e, !.refresh = r,
                   !.status = "connected", !.failures = 0, !.due = TRUE] \in Link
  BY <1>1, <1>5, <1>6
<1> QED
  BY <1>2, <1>7, <1>8, <1>9

(* What a renewed row keeps.                                               *)
LEMMA RenewedKeeps ==
    ASSUME NEW q \in Link, NEW c
    PROVE  Renewed(q, c).status = q.status /\ Renewed(q, c).failures = q.failures
  BY DEF Renewed, Link

LEMMA CheckWrites ==
    ASSUME NEW c \in Check
    PROVE  LET stages == {"idle", "read", "held", "probe", "again", "second", "spare",
                          "well", "ill", "alert", "over"}
           IN  /\ \A to \in stages : [c EXCEPT !.pc = to] \in Check
               /\ \A to \in stages, b \in BOOLEAN :
                    /\ [c EXCEPT !.pc = to, !.strike = b] \in Check
                    /\ [c EXCEPT !.pc = to, !.auth = b] \in Check
               /\ \A to \in stages, t \in Creds, b \in BOOLEAN :
                    [c EXCEPT !.pc = to, !.token = t, !.fresh = b] \in Check
  BY DEF Check

LEMMA NoCheckTyped == NoLink \in Link /\ NoCheck \in Check
  BY AdHealthAssumption DEF NoLink, NoCheck, Link, Check, Statuses, Expiries

LEMMA CheckFields ==
    ASSUME NEW c \in Check
    PROVE  /\ c.seen \in Link /\ c.token \in Creds \cup {NoCred}
           /\ c.fresh \in BOOLEAN /\ c.strike \in BOOLEAN /\ c.auth \in BOOLEAN
           /\ c.seen.failures \in 0..MaxFailures /\ c.seen.status \in Statuses
           /\ c.seen.refresh \in Creds \cup {NoCred} /\ c.seen.standby \in Creds \cup {NoCred}
  BY DEF Check, Link

LEMMA RowFields ==
    ASSUME NEW q \in Link
    PROVE  /\ q.status \in Statuses /\ q.failures \in 0..MaxFailures
           /\ q.access \in Creds \cup {NoCred} /\ q.fresh \in BOOLEAN
           /\ q.refresh \in Creds \cup {NoCred}
  BY DEF Link

Stages == {"idle", "read", "held", "probe", "again", "second", "spare", "well", "ill",
           "alert", "over"}

(* A step of a check leaves the other checks as they are.                  *)
LEMMA ChecksTyped ==
    ASSUME HealthTypeOK, NEW p \in Processes
    PROVE  /\ check[p] \in Check
           /\ \A c \in Check : [check EXCEPT ![p] = c] \in [Processes -> Check]
           /\ \A to \in Stages : [check EXCEPT ![p].pc = to] \in [Processes -> Check]
<1>1. check[p] \in Check /\ check \in [Processes -> Check]
  BY DEF HealthTypeOK
<1>2. \A c \in Check : [check EXCEPT ![p] = c] \in [Processes -> Check]
  BY <1>1
<1>3. ASSUME NEW to \in Stages
      PROVE  [check EXCEPT ![p].pc = to] \in [Processes -> Check]
  <2>1. [check[p] EXCEPT !.pc = to] \in Check
    BY <1>1, CheckWrites DEF Stages
  <2>2. [check EXCEPT ![p].pc = to] = [check EXCEPT ![p] = [check[p] EXCEPT !.pc = to]]
    OBVIOUS
  <2> QED
    BY <1>2, <2>1, <2>2, Zenon
<1> QED
  BY <1>1, <1>2, <1>3

LEMMA WorldTyped ==
    ASSUME HealthTypeOK,
           \/ \E c \in Creds : Revoke(c) \/ Restore(c)
                               \/ \E s \in BOOLEAN : StoreConnectorCredentials(c, s)
           \/ Nears \/ Expire \/ Due \/ Lapse
    PROVE  HealthTypeOK'
<1>1. link \in Link /\ NoCred \in Creds \cup {NoCred} /\ usable \subseteq Creds
  BY DEF HealthTypeOK
<1>2. CASE \E c \in Creds : Revoke(c) \/ Restore(c)
  BY <1>1, <1>2 DEF Revoke, Restore, HealthTypeOK
<1>3. CASE Nears \/ Expire \/ Due
  <2>1. link' \in Link
    BY <1>1, <1>3, LinkWrites DEF Nears, Expire, Due, Expiries
  <2> QED
    BY <1>3, <2>1 DEF Nears, Expire, Due, HealthTypeOK
<1>4. CASE \E c \in Creds, s \in BOOLEAN : StoreConnectorCredentials(c, s)
  <2>1. PICK c \in Creds, s \in BOOLEAN : StoreConnectorCredentials(c, s)
    BY <1>4
  <2>2. link' \in Link
    <3>1. Stated(google) \subseteq Expiries
      BY DEF Stated, Expiries
    <3>2. (IF google THEN c ELSE NoCred) \in Creds \cup {NoCred}
      BY <1>1
    <3>3. PICK e \in Stated(google) :
            link' = IF s THEN [link EXCEPT !.standby = c]
                    ELSE [link EXCEPT !.access = c, !.fresh = TRUE, !.expiry = e,
                                      !.refresh = IF google THEN c ELSE NoCred,
                                      !.status = "connected", !.failures = 0, !.due = TRUE]
      BY <2>1 DEF StoreConnectorCredentials
    <3> QED
      BY <1>1, <3>1, <3>2, <3>3, LinkWrites
  <2>3. outage' \in [alerts : 0..4, auth : BOOLEAN, soft : BOOLEAN]
    <3>1. outage' = outage \/ outage' = Calm
      BY <2>1 DEF StoreConnectorCredentials
    <3>2. Calm \in [alerts : 0..4, auth : BOOLEAN, soft : BOOLEAN]
      BY DEF Calm
    <3> QED
      BY <3>1, <3>2, Zenon DEF HealthTypeOK
  <2>4. apart' = (apart /\ \A p \in Processes : check[p].pc = "idle")
    BY <2>1 DEF StoreConnectorCredentials
  <2>5. apart' \in BOOLEAN
    BY <2>4
  <2> QED
    BY <2>1, <2>2, <2>3, <2>5 DEF StoreConnectorCredentials, HealthTypeOK
<1>5. CASE Lapse
  BY <1>5 DEF Lapse, HealthTypeOK
<1> QED
  BY <1>2, <1>3, <1>4, <1>5

LEMMA SweepTyped ==
    ASSUME HealthTypeOK, NEW p \in Processes,
           SweepReads(p) \/ ClaimConnectorWork(p) \/ ReleaseConnectorWork(p)
           \/ Stalls(p) \/ Dies(p)
    PROVE  HealthTypeOK'
<1>1. /\ check[p] \in Check
      /\ \A c \in Check : [check EXCEPT ![p] = c] \in [Processes -> Check]
      /\ \A to \in Stages : [check EXCEPT ![p].pc = to] \in [Processes -> Check]
  BY ChecksTyped
<1>2. CASE SweepReads(p)
  <2> DEFINE c == [pc |-> "read", seen |-> link, token |-> link.access, fresh |-> link.fresh,
                   strike |-> FALSE, auth |-> FALSE]
  <2>1. c \in Check
    BY RowFields DEF HealthTypeOK, Check
  <2> HIDE DEF c
  <2>2. check' \in [Processes -> Check]
    BY <1>1, <1>2, <2>1 DEF SweepReads, c
  <2> QED
    BY <1>2, <2>2 DEF SweepReads, HealthTypeOK
<1>3. CASE ClaimConnectorWork(p)
  <2>1. check' \in [Processes -> Check]
    BY <1>1, <1>3, NoCheckTyped DEF ClaimConnectorWork, Goes, Ends, Stages
  <2>2. lease' \in [by : Processes \cup {NoProcess}, live : BOOLEAN]
    <3>1. lease \in [by : Processes \cup {NoProcess}, live : BOOLEAN]
      BY DEF HealthTypeOK
    <3>2. lease' = [by |-> p, live |-> TRUE] \/ lease' = lease
      BY <1>3 DEF ClaimConnectorWork
    <3>3. [by |-> p, live |-> TRUE] \in [by : Processes \cup {NoProcess}, live : BOOLEAN]
      OBVIOUS
    <3> QED
      BY <3>1, <3>2, <3>3, Zenon
  <2>3. apart' \in BOOLEAN
    <3>1. apart' = (apart /\ check[p].seen = link) \/ apart' = apart
      BY <1>3 DEF ClaimConnectorWork
    <3> QED
      BY <3>1 DEF HealthTypeOK
  <2> QED
    BY <1>3, <2>1, <2>2, <2>3 DEF ClaimConnectorWork, HealthTypeOK
<1>4. CASE ReleaseConnectorWork(p)
  <2>1. check' \in [Processes -> Check]
    BY <1>1, <1>4, NoCheckTyped DEF ReleaseConnectorWork, Ends
  <2> QED
    BY <1>4, <2>1 DEF ReleaseConnectorWork, HealthTypeOK
<1>5. CASE Stalls(p)
  BY <1>5 DEF Stalls, HealthTypeOK
<1>6. CASE Dies(p)
  <2>1. check' \in [Processes -> Check]
    BY <1>1, <1>6, NoCheckTyped DEF Dies
  <2> QED
    BY <1>6, <2>1 DEF Dies, HealthTypeOK
<1> QED
  BY <1>2, <1>3, <1>4, <1>5, <1>6

LEMMA ProbesTyped ==
    ASSUME HealthTypeOK, NEW p \in Processes,
           ProactiveRefresh(p) \/ Probe(p) \/ RefreshAgain(p) \/ ProbeAgain(p) \/ TryStandby(p)
    PROVE  HealthTypeOK'
<1>1. /\ check[p] \in Check
      /\ \A c \in Check : [check EXCEPT ![p] = c] \in [Processes -> Check]
      /\ \A to \in Stages : [check EXCEPT ![p].pc = to] \in [Processes -> Check]
  BY ChecksTyped
<1>2. /\ \A to \in Stages : [check[p] EXCEPT !.pc = to] \in Check
      /\ \A to \in Stages, b \in BOOLEAN : /\ [check[p] EXCEPT !.pc = to, !.strike = b] \in Check
                                          /\ [check[p] EXCEPT !.pc = to, !.auth = b] \in Check
      /\ \A to \in Stages, t \in Creds, b \in BOOLEAN :
           [check[p] EXCEPT !.pc = to, !.token = t, !.fresh = b] \in Check
  BY <1>1, CheckWrites DEF Stages
<1>3. link \in Link /\ usable \subseteq Creds
  BY DEF HealthTypeOK
<1>4. Refreshed(p) => check[p].seen.refresh \in Creds /\ link' \in Link
  BY <1>3, LinkWrites DEF Refreshed
<1>5. CASE ProactiveRefresh(p)
  <2>1. link' \in Link
    BY <1>3, <1>4, <1>5 DEF ProactiveRefresh
  <2>2. \/ check' = [check EXCEPT ![p].pc = "probe"]
        \/ Refreshed(p) /\ check' = [check EXCEPT ![p] = [check[p] EXCEPT !.pc = "probe",
                                        !.token = check[p].seen.refresh, !.fresh = TRUE]]
        \/ check' = [check EXCEPT ![p] = [check[p] EXCEPT !.pc = "probe", !.strike = TRUE]]
    BY <1>5 DEF ProactiveRefresh, Goes
  <2>3. "probe" \in Stages
    BY DEF Stages
  <2>4. /\ [check[p] EXCEPT !.pc = "probe", !.strike = TRUE] \in Check
        /\ \A t \in Creds : [check[p] EXCEPT !.pc = "probe", !.token = t, !.fresh = TRUE] \in Check
    BY <1>2, <2>3
  <2>5. Refreshed(p) => [check[p] EXCEPT !.pc = "probe", !.token = check[p].seen.refresh,
                                         !.fresh = TRUE] \in Check
    BY <1>4, <2>4
  <2>6. check' \in [Processes -> Check]
    BY <1>1, <2>2, <2>3, <2>4, <2>5
  <2> QED
    BY <1>5, <2>1, <2>6 DEF ProactiveRefresh, Holding, HealthTypeOK
<1>6. CASE Probe(p)
  <2>1. PICK answer \in Answered :
             check' = [check EXCEPT ![p] = [@ EXCEPT
                         !.pc = CASE answer = "auth" -> "again"
                                  [] answer = "ok" /\ ~check[p].strike -> "well"
                                  [] OTHER -> "ill",
                         !.auth = (answer = "auth")]]
    BY <1>6 DEF Probe
  <2>2. check' \in [Processes -> Check]
    BY <1>1, <1>2, <2>1 DEF Stages
  <2> QED
    BY <1>6, <2>2 DEF Probe, Holding, HealthTypeOK
<1>7. CASE RefreshAgain(p)
  <2>1. link' \in Link
    BY <1>3, <1>4, <1>7 DEF RefreshAgain
  <2>2. \/ check' = [check EXCEPT ![p].pc = "spare"]
        \/ Refreshed(p) /\ check' = [check EXCEPT ![p] = [check[p] EXCEPT !.pc = "second",
                                        !.token = check[p].seen.refresh, !.fresh = TRUE]]
    BY <1>7 DEF RefreshAgain, Goes
  <2>3. {"second", "spare"} \subseteq Stages
    BY DEF Stages
  <2>4. \A t \in Creds : [check[p] EXCEPT !.pc = "second", !.token = t, !.fresh = TRUE] \in Check
    BY <1>2, <2>3
  <2>5. Refreshed(p) => [check[p] EXCEPT !.pc = "second", !.token = check[p].seen.refresh,
                                         !.fresh = TRUE] \in Check
    BY <1>4, <2>4
  <2>6. check' \in [Processes -> Check]
    BY <1>1, <2>2, <2>3, <2>5
  <2> QED
    BY <1>7, <2>1, <2>6 DEF RefreshAgain, Holding, HealthTypeOK
<1>8. CASE ProbeAgain(p)
  <2>1. PICK answer \in Answered :
             check' = [check EXCEPT ![p] = [@ EXCEPT
                         !.pc = CASE answer = "ok" -> "well" [] answer = "outage" -> "ill"
                                  [] OTHER -> "spare",
                         !.auth = (answer \in {"auth", "thrown"})]]
    BY <1>8 DEF ProbeAgain
  <2> DEFINE refused == answer \in {"auth", "thrown"}
             to == CASE answer = "ok" -> "well" [] answer = "outage" -> "ill"
                     [] OTHER -> "spare"
  <2>2. check' = [check EXCEPT ![p] = [check[p] EXCEPT !.pc = to, !.auth = refused]]
    BY <2>1
  <2>3. refused \in BOOLEAN /\ to \in Stages
    BY DEF Stages
  <2> HIDE DEF refused, to
  <2>4. [check[p] EXCEPT !.pc = to, !.auth = refused] \in Check
    BY <1>2, <2>3
  <2>5. check' \in [Processes -> Check]
    BY <1>1, <2>2, <2>4
  <2> QED
    BY <1>8, <2>5 DEF ProbeAgain, Holding, HealthTypeOK
<1>9. CASE TryStandby(p)
  <2>1. link' \in Link
    <3>1. ASSUME check[p].seen.standby \in usable,
                 NEW e \in IF google THEN Expiries ELSE {"later"}
          PROVE  [link EXCEPT !.access = check[p].seen.standby, !.fresh = TRUE,
                     !.expiry = e,
                     !.refresh = IF google THEN check[p].seen.standby ELSE NoCred,
                     !.standby = NoCred] \in Link
      <4>1. /\ check[p].seen.standby \in Creds
            /\ (IF google THEN check[p].seen.standby ELSE NoCred) \in Creds \cup {NoCred}
        BY <1>3, <3>1
      <4>2. e \in Expiries
        BY DEF Expiries
      <4> QED
        BY <1>3, <4>1, <4>2, LinkWrites
    <3> QED
      BY <1>3, <1>9, <3>1 DEF TryStandby
  <2>2. check' \in [Processes -> Check]
    BY <1>1, <1>9 DEF TryStandby, Goes, Stages
  <2> QED
    BY <1>9, <2>1, <2>2 DEF TryStandby, Holding, HealthTypeOK
<1> QED
  BY <1>5, <1>6, <1>7, <1>8, <1>9

LEMMA OutcomeTyped ==
    ASSUME HealthTypeOK, NEW p \in Processes,
           CheckPassed(p) \/ PersistConnectorFailure(p) \/ SendConnectorAlert(p)
    PROVE  HealthTypeOK'
<1>1. /\ check[p] \in Check
      /\ \A to \in Stages : [check EXCEPT ![p].pc = to] \in [Processes -> Check]
  BY ChecksTyped
<1>2. link \in Link /\ outage \in [alerts : 0..4, auth : BOOLEAN, soft : BOOLEAN]
  BY DEF HealthTypeOK
<1>3. 0 \in 0..MaxFailures /\ {"connected", "error", "disconnected"} = Statuses
  BY AdHealthAssumption DEF Statuses
<1>4. CASE CheckPassed(p)
  <2>1. check' \in [Processes -> Check] /\ link' \in Link
    BY <1>1, <1>2, <1>3, <1>4, LinkWrites DEF CheckPassed, Goes, Stages
  <2> QED
    BY <1>4, <2>1 DEF CheckPassed, HealthTypeOK, Calm
<1>5. CASE PersistConnectorFailure(p)
  <2> DEFINE failures == IF check[p].seen.failures < MaxFailures
                         THEN check[p].seen.failures + 1 ELSE MaxFailures
  <2>1. failures \in 0..MaxFailures /\ check[p].auth \in BOOLEAN
    BY <1>1, CheckFields, AdHealthAssumption
  <2>2. /\ link' = [link EXCEPT !.status = IF check[p].auth THEN "disconnected"
                                           ELSE IF failures >= 3 THEN "error" ELSE "connected",
                                !.failures = failures, !.due = FALSE]
        /\ check' = [check EXCEPT ![p].pc =
                       IF ShouldAlert(check[p], failures) THEN "alert" ELSE "over"]
        /\ outage' = [outage EXCEPT !.auth = @ \/ check[p].auth, !.soft = @ \/ ~check[p].auth]
    BY <1>5 DEF PersistConnectorFailure
  <2> HIDE DEF failures
  <2>3. link' \in Link
    BY <1>2, <1>3, <2>1, <2>2, LinkWrites
  <2>4. check' \in [Processes -> Check]
    BY <1>1, <2>2 DEF Stages
  <2>5. outage' \in [alerts : 0..4, auth : BOOLEAN, soft : BOOLEAN]
    BY <1>2, <2>1, <2>2
  <2> QED
    BY <1>5, <2>3, <2>4, <2>5 DEF PersistConnectorFailure, HealthTypeOK
<1>6. CASE SendConnectorAlert(p)
  <2>1. check' \in [Processes -> Check]
    BY <1>1, <1>6 DEF SendConnectorAlert, Goes, Stages
  <2>2. outage' \in [alerts : 0..4, auth : BOOLEAN, soft : BOOLEAN]
    BY <1>2, <1>6 DEF SendConnectorAlert
  <2> QED
    BY <1>6, <2>1, <2>2 DEF SendConnectorAlert, HealthTypeOK
<1> QED
  BY <1>4, <1>5, <1>6

LEMMA HealthTyped == HealthTypeOK /\ HealthNext => HealthTypeOK'
  BY WorldTyped, SweepTyped, ProbesTyped, OutcomeTyped DEF HealthNext, CheckStep

-----------------------------------------------------------------------------
(* The types of the spend                                                  *)

LEMMA IdleTyped ==
    /\ 1 \in Days /\ Days \subseteq Nat
    /\ Idle \in Ingest
    /\ Nothing \in [Days -> Nat]
    /\ \A b \in BOOLEAN : [pc |-> "begun", owed |-> {}, rows |-> Nothing, rider |-> b] \in Run
    /\ [pc |-> "idle", owed |-> {}, rows |-> Nothing, rider |-> FALSE] \in Run
<1>1. 1 \in Days /\ Days \subseteq Nat
  BY AdSpendAssumption DEF Days
<1>2. Nothing \in [Days -> Nat]
  BY DEF Nothing
<1> QED
  BY <1>1, <1>2, NoCheckTyped DEF Idle, Ingest, Run

LEMMA IngestWrites ==
    ASSUME NEW i \in Ingest
    PROVE  LET stages == {"idle", "begun", "ready", "fetched", "tell"}
           IN  /\ \A to \in stages : [i EXCEPT !.pc = to] \in Ingest
               /\ \A to \in stages, n \in Nat :
                    [[i EXCEPT !.pc = to] EXCEPT !.rows = n] \in Ingest
               /\ \A b \in BOOLEAN : /\ [i EXCEPT !.afterRun = b] \in Ingest
                                     /\ [i EXCEPT !.after = b] \in Ingest
               /\ i.seen \in Link /\ i.day \in Days /\ i.rows \in Nat
               /\ i.after \in BOOLEAN /\ i.afterRun \in BOOLEAN
<1>1. \A to \in {"idle", "begun", "ready", "fetched", "tell"} : [i EXCEPT !.pc = to] \in Ingest
  BY Zenon DEF Ingest
<1>2. \A to \in {"idle", "begun", "ready", "fetched", "tell"}, n \in Nat :
          [[i EXCEPT !.pc = to] EXCEPT !.rows = n] \in Ingest
  <2>1. \A n \in Nat, j \in Ingest : [j EXCEPT !.rows = n] \in Ingest
    BY Zenon DEF Ingest
  <2> QED
    BY <1>1, <2>1, Zenon
<1>3. \A b \in BOOLEAN : [i EXCEPT !.afterRun = b] \in Ingest /\ [i EXCEPT !.after = b] \in Ingest
  BY Zenon DEF Ingest
<1>4. i.seen \in Link /\ i.day \in Days /\ i.rows \in Nat /\ i.after \in BOOLEAN
      /\ i.afterRun \in BOOLEAN
  BY Zenon DEF Ingest
<1> QED
  BY <1>1, <1>2, <1>3, <1>4, Zenon

LEMMA HealthKept ==
    ASSUME HealthTypeOK, link' \in Link, apart' \in BOOLEAN,
           UNCHANGED <<google, usable, lease, check, outage>>
    PROVE  HealthTypeOK'
  BY DEF HealthTypeOK

LEMMA Columns == SpendColumns => SpendTypeOK
<1> SUFFICES ASSUME SpendColumns PROVE SpendTypeOK
  OBVIOUS
<1>1. \A i \in Ingest : /\ i.pc \in {"idle", "begun", "ready", "fetched", "tell"}
                        /\ i.day \in Days /\ i.seen \in Link
  BY DEF Ingest
<1>2. \A s \in Slots : ingest[s] \in Ingest
  BY DEF SpendColumns
<1>3. run.pc \in {"idle", "begun", "read"} /\ run.owed \subseteq Days
  BY DEF SpendColumns, Run
<1> QED
  BY <1>1, <1>2, <1>3 DEF SpendTypeOK, SpendColumns

LEMMA ApartTyped ==
    ASSUME HealthTypeOK, Disturbs PROVE apart' \in BOOLEAN
<1>1. apart' = (apart /\ link.status # "disconnected"
                      /\ \A p \in Processes : check[p].pc = "idle")
  BY DEF Disturbs
<1> QED
  BY <1>1

LEMMA JobsTyped ==
    ASSUME job \in [Days -> JobStates], NEW d \in Days, NEW state \in JobStates, JobEnds(d, state)
    PROVE  job' \in [Days -> JobStates]
  BY DEF JobEnds, JobStates

LEMMA FailsTyped ==
    ASSUME HealthTypeOK, SpendColumns, NEW s \in Slots,
           NEW answer \in {"auth", "transient", "rate"}, IngestFails(s, answer)
    PROVE  /\ link' \in Link /\ apart' \in BOOLEAN
           /\ window' \in [Days -> [state : {"none", "pending", "failed", "synced"}, hash : Nat]]
           /\ job' \in [Days -> JobStates]
           /\ ingest' \in [Slots -> Ingest]
<1> DEFINE d == ingest[s].day
<1>1. d \in Days /\ ingest \in [Slots -> Ingest]
  BY IngestWrites DEF SpendColumns
<1>2. ingest' \in [Slots -> Ingest]
  BY <1>1, IdleTyped DEF IngestFails
<1>3. MarkWindowFailed(d) =>
          window' \in [Days -> [state : {"none", "pending", "failed", "synced"}, hash : Nat]]
  BY <1>1 DEF MarkWindowFailed, SpendColumns
<1>4. link \in Link /\ apart \in BOOLEAN /\ {"none", "waiting", "active"} = JobStates
  BY DEF HealthTypeOK, JobStates
<1> HIDE DEF d
<1>5. CASE answer = "auth"
  <2>1. /\ link' = [link EXCEPT !.status = "error"]
        /\ MarkWindowFailed(d) /\ JobEnds(d, "none") /\ Disturbs
    BY <1>5 DEF IngestFails, d
  <2>2. link' \in Link
    BY <1>4, <2>1, LinkWrites DEF Statuses
  <2>3. job' \in [Days -> JobStates]
    BY <1>1, <1>4, <2>1, JobsTyped DEF SpendColumns
  <2> QED
    BY <1>2, <1>3, <2>1, <2>2, <2>3, ApartTyped
<1>6. CASE answer = "transient"
  <2>1. /\ MarkWindowFailed(d) /\ UNCHANGED <<link, apart>>
        /\ \E left \in {"waiting", "none"} : JobEnds(d, left)
    BY <1>6 DEF IngestFails, d
  <2>2. job' \in [Days -> JobStates]
    BY <1>1, <1>4, <2>1, JobsTyped DEF SpendColumns
  <2> QED
    BY <1>2, <1>3, <1>4, <2>1, <2>2
<1>7. CASE answer = "rate"
  <2>1. JobEnds(d, "waiting") /\ UNCHANGED <<link, apart, window>>
    BY <1>7 DEF IngestFails, d
  <2>2. job' \in [Days -> JobStates]
    BY <1>1, <1>4, <2>1, JobsTyped DEF SpendColumns
  <2> QED
    BY <1>2, <1>4, <2>1, <2>2 DEF SpendColumns
<1> QED
  BY <1>5, <1>6, <1>7

LEMMA RunWrites ==
    ASSUME NEW q \in Run
    PROVE  /\ [q EXCEPT !.rider = TRUE] \in Run
           /\ \A f \in [Days -> Nat] : [q EXCEPT !.pc = "read", !.rows = f] \in Run
           /\ \A D \in SUBSET Days : [q EXCEPT !.owed = D] \in Run
           /\ q.pc \in {"idle", "begun", "read"} /\ q.owed \subseteq Days
           /\ q.rows \in [Days -> Nat]
  BY Zenon DEF Run

(* Nothing but allowed changes of the health checks.                       *)
Quiet == UNCHANGED <<google, usable, link, lease, check, outage, apart>>

LEMMA QuietTyped == HealthTypeOK /\ Quiet => HealthTypeOK'
  BY DEF Quiet, HealthTypeOK

LEMMA CycleTyped ==
    ASSUME HealthTypeOK, SpendColumns, RunSchedulingCycle
    PROVE  HealthTypeOK' /\ SpendColumns'
<1>1. HealthTypeOK'
  BY QuietTyped DEF Quiet, RunSchedulingCycle, healthVars
<1>2. window' \in [Days -> [state : {"none", "pending", "failed", "synced"}, hash : Nat]]
  BY DEF RunSchedulingCycle, SpendColumns
<1>3. job' \in [Days -> JobStates] /\ recalc' \in JobStates
  BY DEF RunSchedulingCycle, SpendColumns, Queued, JobStates
<1>4. deepAt' \in 0..MaxDay
  BY AdSpendAssumption DEF RunSchedulingCycle, SpendColumns, Days
<1> QED
  BY <1>1, <1>2, <1>3, <1>4 DEF RunSchedulingCycle, SpendColumns

LEMMA SlotWrites ==
    ASSUME SpendColumns, NEW s \in Slots
    PROVE  /\ ingest[s] \in Ingest /\ ingest[s].day \in Days /\ ingest[s].rows \in Nat
           /\ ingest[s].seen \in Link
           /\ \A i \in Ingest : [ingest EXCEPT ![s] = i] \in [Slots -> Ingest]
           /\ \A to \in {"idle", "begun", "ready", "fetched", "tell"} : At(s, to) \in Ingest
           /\ \A n \in Nat : [At(s, "fetched") EXCEPT !.rows = n] \in Ingest
<1>1. ingest[s] \in Ingest /\ ingest \in [Slots -> Ingest]
  BY DEF SpendColumns
<1> QED
  BY <1>1, IngestWrites DEF At

LEMMA StartTyped ==
    ASSUME HealthTypeOK, SpendColumns, NEW s \in Slots, NEW d \in Days, StartIngest(s, d)
    PROVE  HealthTypeOK' /\ SpendColumns'
<1>1. HealthTypeOK'
  BY QuietTyped DEF Quiet, StartIngest, healthVars
<1>2. job' \in [Days -> JobStates]
  BY DEF StartIngest, SpendColumns, JobStates
<1>3. [pc |-> "begun", day |-> d, seen |-> link, rows |-> 0, afterRun |-> TRUE,
       after |-> TRUE] \in Ingest
  BY DEF HealthTypeOK, Ingest
<1>4. ingest' \in [Slots -> Ingest]
  BY <1>3, SlotWrites DEF StartIngest, Does, SpendColumns
<1> QED
  BY <1>1, <1>2, <1>4 DEF StartIngest, SpendColumns

(* The credential a slot has refreshed is what it goes on with.            *)
LEMMA FreshTyped ==
    ASSUME HealthTypeOK, SpendColumns, NEW s \in Slots, FreshAuth(s)
    PROVE  HealthTypeOK' /\ SpendColumns'
<1> DEFINE i == ingest[s]
           fresh == [At(s, "ready") EXCEPT !.seen = Renewed(@, i.seen.refresh)]
<1>1. /\ i \in Ingest /\ i.seen \in Link /\ At(s, "ready") \in Ingest
      /\ \A j \in Ingest : [ingest EXCEPT ![s] = j] \in [Slots -> Ingest]
  BY SlotWrites
<1>2. link \in Link /\ apart \in BOOLEAN /\ usable \subseteq Creds
  BY DEF HealthTypeOK
<1>3. ASSUME i.seen.refresh \in usable
      PROVE  fresh \in Ingest /\ Renewed(link, i.seen.refresh) \in Link
  <2>1. i.seen.refresh \in Creds
    BY <1>2, <1>3
  <2>2. Renewed(link, i.seen.refresh) \in Link /\ Renewed(i.seen, i.seen.refresh) \in Link
    BY <1>1, <1>2, <2>1, LinkWrites
  <2>3. fresh = [At(s, "ready") EXCEPT !.seen = Renewed(i.seen, i.seen.refresh)]
    BY <1>1 DEF At, Ingest
  <2>4. \A q \in Link, j \in Ingest : [j EXCEPT !.seen = q] \in Ingest
    BY Zenon DEF Ingest
  <2> QED
    BY <1>1, <2>2, <2>3, <2>4
<1> HIDE DEF i, fresh
<1>4. CASE ~NeedsRefresh(i.seen)
  <2>1. ingest' = [ingest EXCEPT ![s] = At(s, "ready")] /\ UNCHANGED <<link, apart, window, job>>
    BY <1>4 DEF FreshAuth, Does, i
  <2>2. ingest' \in [Slots -> Ingest]
    BY <1>1, <2>1
  <2> QED
    BY <1>2, <2>1, <2>2, HealthKept DEF FreshAuth, SpendColumns
<1>5. CASE /\ i.seen.refresh \in usable
           /\ link' = Renewed(link, i.seen.refresh)
           /\ Does(s, "begun", fresh) /\ Disturbs /\ UNCHANGED <<window, job>>
  <2>1. ingest' \in [Slots -> Ingest] /\ link' \in Link
    BY <1>1, <1>3, <1>5 DEF Does
  <2> QED
    BY <1>5, <2>1, HealthKept, ApartTyped DEF FreshAuth, SpendColumns
<1>6. CASE \E answer \in {"auth", "transient", "rate"} : IngestFails(s, answer)
  <2>1. /\ link' \in Link /\ apart' \in BOOLEAN
        /\ window' \in [Days -> [state : {"none", "pending", "failed", "synced"}, hash : Nat]]
        /\ job' \in [Days -> JobStates] /\ ingest' \in [Slots -> Ingest]
    BY <1>6, FailsTyped
  <2> QED
    BY <2>1, HealthKept DEF FreshAuth, SpendColumns
<1> QED
  BY <1>4, <1>5, <1>6 DEF FreshAuth, i, fresh

LEMMA FetchTyped ==
    ASSUME HealthTypeOK, SpendColumns, NEW s \in Slots, FetchDailySpend(s) \/ CommitFails(s)
    PROVE  HealthTypeOK' /\ SpendColumns'
<1>1. /\ ingest[s].day \in Days
      /\ \A j \in Ingest : [ingest EXCEPT ![s] = j] \in [Slots -> Ingest]
      /\ \A n \in Nat : [At(s, "fetched") EXCEPT !.rows = n] \in Ingest
  BY SlotWrites
<1>2. link \in Link /\ apart \in BOOLEAN
  BY DEF HealthTypeOK
<1>3. CASE /\ FetchDailySpend(s) /\ pinned' = TRUE /\ UNCHANGED <<link, apart, window, job>>
           /\ Does(s, "ready", [At(s, "fetched") EXCEPT !.rows = truth[ingest[s].day]])
  <2>1. truth[ingest[s].day] \in Nat
    BY <1>1 DEF SpendColumns
  <2>2. ingest' \in [Slots -> Ingest]
    BY <1>1, <1>3, <2>1 DEF Does
  <2> QED
    BY <1>2, <1>3, <2>2, HealthKept DEF FetchDailySpend, SpendColumns
<1>4. CASE /\ FetchDailySpend(s) \/ CommitFails(s)
           /\ UNCHANGED pinned
           /\ \E answer \in {"auth", "transient", "rate"} : IngestFails(s, answer)
  <2>1. /\ link' \in Link /\ apart' \in BOOLEAN
        /\ window' \in [Days -> [state : {"none", "pending", "failed", "synced"}, hash : Nat]]
        /\ job' \in [Days -> JobStates] /\ ingest' \in [Slots -> Ingest]
    BY <1>4, FailsTyped
  <2> QED
    BY <1>4, <2>1, HealthKept DEF FetchDailySpend, CommitFails, SpendColumns
<1>5. \A http, code : Classified(http, code) \in {"auth", "transient", "rate"}
  BY DEF Classified
<1> QED
  BY <1>3, <1>4, <1>5 DEF FetchDailySpend, CommitFails

LEMMA CommitTyped ==
    ASSUME HealthTypeOK, SpendColumns, NEW s \in Slots, CommitSpend(s)
    PROVE  HealthTypeOK' /\ SpendColumns'
<1> DEFINE d == ingest[s].day
<1>1. /\ d \in Days /\ ingest[s].rows \in Nat
      /\ \A j \in Ingest : [ingest EXCEPT ![s] = j] \in [Slots -> Ingest]
      /\ At(s, "tell") \in Ingest
  BY SlotWrites
<1>2. link' \in Link /\ apart' \in BOOLEAN
  <2>1. link' = [link EXCEPT !.status = "connected"] /\ Disturbs /\ link \in Link
    BY DEF CommitSpend, HealthTypeOK
  <2> QED
    BY <2>1, LinkWrites, ApartTyped DEF Statuses
<1>3. HealthTypeOK'
  BY <1>2, HealthKept DEF CommitSpend
<1>4. ingest' \in [Slots -> Ingest]
  BY <1>1 DEF CommitSpend, Does
<1>5. /\ spend' \in [Days -> Nat]
      /\ window' \in [Days -> [state : {"none", "pending", "failed", "synced"}, hash : Nat]]
      /\ overtaken' \subseteq Days
  BY <1>1 DEF CommitSpend, SpendColumns
<1>6. stale' \subseteq Days
  BY <1>1 DEF CommitSpend, ChangedAt, SpendColumns
<1>7. run' \in Run
  <2>1. \E D \in SUBSET Days : run' = [run EXCEPT !.owed = D]
    <3>1. run.owed \subseteq Days
      BY RunWrites DEF SpendColumns
    <3>2. run' = [run EXCEPT !.owed = IF ingest[s].afterRun /\ run.pc # "idle"
                                      THEN run.owed \cup {d} ELSE run.owed \ {d}]
      BY DEF CommitSpend, ChangedAt
    <3> QED
      BY <1>1, <3>1, <3>2
  <2>2. run \in Run
    BY DEF SpendColumns
  <2>3. \A D \in SUBSET Days : [run EXCEPT !.owed = D] \in Run
    BY <2>2, RunWrites
  <2> QED
    BY <2>1, <2>3
<1> QED
  BY <1>3, <1>4, <1>5, <1>6, <1>7 DEF CommitSpend, SpendColumns

LEMMA EndsTyped ==
    ASSUME HealthTypeOK, SpendColumns, NEW s \in Slots, SameAgain(s) \/ RequestRecompute(s)
    PROVE  HealthTypeOK' /\ SpendColumns'
<1>1. HealthTypeOK'
  BY QuietTyped DEF Quiet, SameAgain, RequestRecompute, healthVars
<1>2. ingest[s].day \in Days /\ \A j \in Ingest : [ingest EXCEPT ![s] = j] \in [Slots -> Ingest]
  BY SlotWrites
<1>3. ingest' \in [Slots -> Ingest]
  BY <1>2, IdleTyped DEF SameAgain, RequestRecompute, Does
<1>4. job' \in [Days -> JobStates] /\ recalc' \in JobStates
  <2>1. "none" \in JobStates /\ Queued(recalc) \in JobStates
    BY DEF Queued, JobStates, SpendColumns
  <2> QED
    BY <1>2, <2>1, JobsTyped DEF SameAgain, RequestRecompute, SpendColumns
<1> QED
  BY <1>1, <1>3, <1>4 DEF SameAgain, RequestRecompute, SpendColumns

LEMMA RunTyped ==
    ASSUME HealthTypeOK, SpendColumns,
           StartRecompute \/ OtherRecompute \/ ReadSpend \/ FinishRecompute
    PROVE  HealthTypeOK' /\ SpendColumns'
<1>1. HealthTypeOK'
  BY QuietTyped DEF Quiet, StartRecompute, OtherRecompute, ReadSpend, FinishRecompute, healthVars
<1>2. ingest \in [Slots -> Ingest] /\ run \in Run /\ {"none", "waiting", "active"} = JobStates
  BY DEF SpendColumns, JobStates
<1>3. ASSUME NEW b \in BOOLEAN, Begun(b)
      PROVE  run' \in Run /\ ingest' \in [Slots -> Ingest]
  <2>1. \A s \in Slots : [ingest[s] EXCEPT !.afterRun = FALSE] \in Ingest
    BY <1>2, IngestWrites
  <2> QED
    BY <1>3, <2>1, IdleTyped DEF Begun
<1>4. CASE StartRecompute
  BY <1>1, <1>2, <1>3, <1>4, RunWrites DEF StartRecompute, SpendColumns
<1>5. CASE OtherRecompute
  BY <1>1, <1>3, <1>5 DEF OtherRecompute, SpendColumns
<1>6. CASE ReadSpend
  BY <1>1, <1>2, <1>6, RunWrites DEF ReadSpend, SpendColumns
<1>7. CASE FinishRecompute
  <2>1. \A s \in Slots : [ingest[s] EXCEPT !.after = @ /\ ingest[s].afterRun] \in Ingest
    <3> SUFFICES ASSUME NEW s \in Slots
                 PROVE  [ingest[s] EXCEPT !.after = @ /\ ingest[s].afterRun] \in Ingest
      OBVIOUS
    <3>1. ingest[s] \in Ingest /\ (ingest[s].after /\ ingest[s].afterRun) \in BOOLEAN
      BY <1>2
    <3> QED
      BY <3>1, IngestWrites
  <2>2. ingest' \in [Slots -> Ingest]
    BY <1>7, <2>1 DEF FinishRecompute
  <2>3. profit' \in [Days -> Nat] /\ stale' \subseteq Days /\ overtaken' \subseteq Days
    BY <1>2, <1>7, RunWrites DEF FinishRecompute, SpendColumns
  <2>4. run' \in Run /\ recalc' \in JobStates
    BY <1>2, <1>7, IdleTyped DEF FinishRecompute, SpendColumns
  <2> QED
    BY <1>1, <1>7, <2>2, <2>3, <2>4 DEF FinishRecompute, SpendColumns
<1> QED
  BY <1>4, <1>5, <1>6, <1>7

LEMMA OutsideTyped ==
    ASSUME HealthTypeOK, SpendColumns,
           (\E d \in Days : Restates(d)) \/ DayPasses \/ FlushRedis \/ WorkerDies
    PROVE  HealthTypeOK' /\ SpendColumns'
<1>1. HealthTypeOK'
  BY QuietTyped DEF Quiet, Restates, DayPasses, FlushRedis, WorkerDies, healthVars
<1>2. CASE \E d \in Days : Restates(d)
  <2>1. truth' \in [Days -> Nat \ {0}]
    BY <1>2 DEF Restates, SpendColumns
  <2> QED
    BY <1>1, <1>2, <2>1 DEF Restates, SpendColumns
<1>3. CASE DayPasses
  <2>1. today' \in Days
    BY <1>3, AdSpendAssumption DEF DayPasses, SpendColumns, Days
  <2> QED
    BY <1>1, <1>3, <2>1 DEF DayPasses, SpendColumns
<1>4. CASE FlushRedis
  BY <1>1, <1>4 DEF FlushRedis, SpendColumns, JobStates
<1>5. CASE WorkerDies
  <2>1. job' \in [Days -> JobStates] /\ recalc' \in JobStates
    BY <1>5 DEF WorkerDies, SpendColumns, JobStates
  <2>2. ingest' \in [Slots -> Ingest] /\ run' \in Run
    BY <1>5, IdleTyped DEF WorkerDies
  <2> QED
    BY <1>1, <1>5, <2>1, <2>2 DEF WorkerDies, SpendColumns
<1> QED
  BY <1>2, <1>3, <1>4, <1>5

LEMMA SpendTyped == HealthTypeOK /\ SpendColumns /\ SpendNext => HealthTypeOK' /\ SpendColumns'
  BY CycleTyped, StartTyped, FreshTyped, FetchTyped, CommitTyped, EndsTyped, RunTyped,
     OutsideTyped DEF SpendNext, IngestStep

LEMMA AdsInit == Init => HealthTypeOK /\ SpendColumns
<1> SUFFICES ASSUME NEW s \in Stories, HealthInit(s.cred, s.standby, s.google, s.expiry),
                    SpendInit(s.today)
             PROVE  HealthTypeOK /\ SpendColumns
  BY DEF Init
<1>1. /\ s.cred \in Creds /\ s.standby \in Creds \cup {NoCred}
      /\ s.google \in BOOLEAN /\ s.today \in Days /\ s.expiry \in Expiries
  BY StoriesAssumption DEF Stated, Expiries
<1>2. 0 \in 0..MaxFailures /\ "connected" \in Statuses /\ May("dues") \in BOOLEAN
  BY AdHealthAssumption DEF Statuses, May
<1>3. link \in Link
  BY <1>1, <1>2 DEF HealthInit, Link
<1>4. HealthTypeOK
  BY <1>1, <1>3, NoCheckTyped DEF HealthInit, HealthTypeOK, Calm
<1>5. SpendColumns
  <2>1. /\ truth \in [Days -> Nat \ {0}]
        /\ window \in [Days -> [state : {"none", "pending", "failed", "synced"}, hash : Nat]]
        /\ spend \in [Days -> Nat] /\ profit \in [Days -> Nat]
        /\ stale \subseteq Days /\ overtaken \subseteq Days
    BY DEF SpendInit
  <2>2. deepAt \in 0..MaxDay /\ pinned \in BOOLEAN /\ today \in Days
    <3>1. deepAt = 0 /\ pinned = FALSE /\ today = s.today
      BY DEF SpendInit
    <3>2. 0 \in 0..MaxDay
      BY AdSpendAssumption
    <3> QED
      BY <1>1, <3>1, <3>2
  <2>3. job \in [Days -> JobStates] /\ recalc \in JobStates
    BY DEF SpendInit, JobStates
  <2>4. ingest \in [Slots -> Ingest] /\ run \in Run
    BY IdleTyped DEF SpendInit
  <2> QED
    BY <2>1, <2>2, <2>3, <2>4 DEF SpendColumns
<1> QED
  BY <1>4, <1>5

LEMMA AdsTyped == HealthTypeOK /\ SpendColumns /\ [Next]_vars => HealthTypeOK' /\ SpendColumns'
<1> SUFFICES ASSUME HealthTypeOK, SpendColumns, [Next]_vars
             PROVE  HealthTypeOK' /\ SpendColumns'
  OBVIOUS
<1>1. CASE HealthNext /\ UNCHANGED spendVars
  BY <1>1, HealthTyped DEF spendVars, SpendColumns
<1>2. CASE SpendNext
  BY <1>2, SpendTyped
<1>3. CASE UNCHANGED <<healthVars, spendVars>>
  BY <1>3 DEF healthVars, spendVars, HealthTypeOK, SpendColumns
<1> QED
  BY <1>1, <1>2, <1>3 DEF Next, Ads, Carrying, vars

(* The connector's row, its checks, the ledger of days and the slots keep  *)
(* their types: what one actor writes another can read.                    *)
THEOREM AdsTypeCorrect == Spec => [](HealthTypeOK /\ SpendTypeOK)
<1>1. HealthTypeOK /\ SpendColumns => HealthTypeOK /\ SpendTypeOK
  BY Columns
<1> QED
  BY <1>1, AdsInit, AdsTyped, PTL DEF Spec

-----------------------------------------------------------------------------
(* What a recompute misses                                                 *)

(* A commit stamps its day, for the profit that is stored and for that of  *)
(* the run under way, unless the stamp is too old for one of them.         *)
LEMMA CommitIsSeen ==
    ASSUME SpendColumns, SpendInv, NEW s \in Slots, CommitSpend(s)
    PROVE  SpendInv'
<1> DEFINE i == ingest[s]
           d == ingest[s].day
           missed == ~i.after \/ (~i.afterRun /\ run.pc = "read")
<1>1. d \in Days /\ run \in Run /\ overtaken \subseteq Days /\ i.after \in BOOLEAN
      /\ i.afterRun \in BOOLEAN
  BY IngestWrites DEF SpendColumns
<1>2. /\ spend' = [spend EXCEPT ![d] = i.rows]
      /\ overtaken' = IF missed THEN overtaken \cup {d} ELSE overtaken \ {d}
      /\ stale' = IF i.after THEN stale \cup {d} ELSE stale \ {d}
      /\ run' = [run EXCEPT !.owed = IF i.afterRun /\ run.pc # "idle"
                                     THEN run.owed \cup {d} ELSE run.owed \ {d}]
      /\ profit' = profit
  BY DEF CommitSpend, ChangedAt
<1>3. run'.pc = run.pc /\ run'.rows = run.rows
  BY <1>1, <1>2 DEF Run
<1>4. run'.owed = IF i.afterRun /\ run.pc # "idle" THEN run.owed \cup {d} ELSE run.owed \ {d}
  BY <1>1, <1>2 DEF Run
<1>5. \A e \in Days \ {d} : spend'[e] = spend[e]
  BY <1>2 DEF SpendColumns
<1>6. \A e \in Days \ {d} : /\ e \in overtaken' <=> e \in overtaken
                            /\ e \in stale' <=> e \in stale
                            /\ e \in run'.owed <=> e \in run.owed
  BY <1>2, <1>4
<1>7. d \notin overtaken' => d \in stale' /\ (run'.pc = "read" => d \in run'.owed)
  BY <1>2, <1>3, <1>4
<1> HIDE DEF i, d, missed
<1>8. StaleProfitIsSeen'
  BY <1>2, <1>5, <1>6, <1>7 DEF SpendInv, StaleProfitIsSeen
<1>9. run'.pc = "read" =>
          \A e \in (Days \ overtaken') : run'.rows[e] # spend'[e] => e \in run'.owed
  BY <1>3, <1>5, <1>6, <1>7 DEF SpendInv
<1> QED
  BY <1>8, <1>9 DEF SpendInv

LEMMA RunIsSeen ==
    ASSUME SpendColumns, SpendInv,
           StartRecompute \/ OtherRecompute \/ ReadSpend \/ FinishRecompute \/ WorkerDies
    PROVE  SpendInv'
<1>1. run \in Run
  BY DEF SpendColumns
<1>2. CASE run'.pc = "begun" \/ WorkerDies
  <2>1. run'.pc # "read"
    BY <1>2 DEF WorkerDies
  <2>2. UNCHANGED <<profit, spend, stale, overtaken>> \/ FinishRecompute
    BY DEF StartRecompute, OtherRecompute, ReadSpend, WorkerDies
  <2>3. ~FinishRecompute \/ UNCHANGED <<profit, spend, stale, overtaken>>
    BY <1>2 DEF FinishRecompute, WorkerDies
  <2> QED
    BY <2>1, <2>2, <2>3 DEF SpendInv, StaleProfitIsSeen
<1>3. CASE StartRecompute /\ run.pc # "idle"
  <2>1. /\ run' = [run EXCEPT !.rider = TRUE]
        /\ UNCHANGED <<profit, spend, stale, overtaken>>
    BY <1>3 DEF StartRecompute
  <2>2. run'.pc = run.pc /\ run'.rows = run.rows /\ run'.owed = run.owed
    BY <1>1, <2>1 DEF Run
  <2> QED
    BY <2>1, <2>2 DEF SpendInv, StaleProfitIsSeen
<1>4. CASE ReadSpend
  <2>1. /\ run' = [run EXCEPT !.pc = "read", !.rows = spend]
        /\ UNCHANGED <<profit, spend, stale, overtaken>>
    BY <1>4 DEF ReadSpend
  <2>2. run'.rows = spend
    BY <1>1, <2>1 DEF Run
  <2> QED
    BY <2>1, <2>2 DEF SpendInv, StaleProfitIsSeen
<1>5. CASE FinishRecompute
  <2>1. /\ run.pc = "read" /\ run'.pc = "idle" /\ profit' = run.rows /\ stale' = run.owed
        /\ overtaken' = {d \in overtaken : run.rows[d] # spend[d]} /\ spend' = spend
    BY <1>5 DEF FinishRecompute
  <2> QED
    BY <2>1 DEF SpendInv, StaleProfitIsSeen
<1> QED
  BY <1>2, <1>3, <1>4, <1>5 DEF StartRecompute, OtherRecompute, Begun

LEMMA SpendStep == SpendColumns /\ SpendInv /\ [Next]_vars => SpendInv'
<1> SUFFICES ASSUME SpendColumns, SpendInv, [Next]_vars PROVE SpendInv'
  OBVIOUS
<1>1. CASE UNCHANGED <<profit, spend, stale, overtaken, run>>
  BY <1>1 DEF SpendInv, StaleProfitIsSeen
<1>2. CASE SpendNext
  BY <1>1, <1>2, CommitIsSeen, RunIsSeen
  DEF SpendNext, IngestStep, RunSchedulingCycle, CommitFails, FreshAuth, FetchDailySpend,
      SameAgain, RequestRecompute, StartIngest, Restates, DayPasses, FlushRedis
<1> QED
  BY <1>1, <1>2 DEF Next, Ads, Carrying, vars, spendVars

(* The ledger of days knows of all spend that the stored profit does not   *)
(* have, but for the days a recompute overtook, whatever is lost or dies.  *)
THEOREM StaleIsSeen == Spec => []StaleProfitIsSeen
<1>1. Init => SpendInv
  BY DEF Init, SpendInit, SpendInv, StaleProfitIsSeen
<1>2. SpendInv => StaleProfitIsSeen
  BY DEF SpendInv
<1> QED
  BY <1>1, <1>2, AdsInit, AdsTyped, SpendStep, PTL DEF Spec

-----------------------------------------------------------------------------
(* Alerts of checks that keep apart                                        *)

(* The parts of the invariant are the same while no check gets further in  *)
(* a way it tells apart.                                                   *)
SameChecks(after, before) ==
    \A q \in Processes :
        /\ Working(after[q]) => Working(before[q])
        /\ Undecided(after[q]) => Undecided(before[q]) /\ after[q].seen = before[q].seen
        /\ after[q].pc = "alert" <=> before[q].pc = "alert"

LEMMA SameKeeps ==
    ASSUME ApartInv(check, link, lease, outage), lease' = lease, outage' = outage,
           link'.status = link.status, link'.failures = link.failures,
           SameChecks(check', check)
    PROVE  ApartInv(check', link', lease', outage')
<1>1. \A p \in Processes : CheckInv(p, check'[p], link', lease')
  BY DEF ApartInv, CheckInv, SameChecks
<1>2. Sending(check') <=> Sending(check)
  BY DEF Sending, SameChecks
<1>3. Tally(outage', link', Sending(check'))
  BY <1>2 DEF ApartInv, Tally, Announced
<1> QED
  BY <1>1, <1>3 DEF ApartInv

(* A step of one check, of which the others see nothing.                   *)
LEMMA CheckMoves ==
    ASSUME HealthTypeOK, NEW p \in Processes
    PROVE  /\ \A c : LET f == [check EXCEPT ![p] = c]
                     IN  f[p] = c /\ \A q \in Processes \ {p} : f[q] = check[q]
           /\ \A to : LET f == [check EXCEPT ![p].pc = to]
                      IN  /\ f[p].pc = to /\ f[p].seen = check[p].seen
                          /\ \A q \in Processes \ {p} : f[q] = check[q]
<1>1. check \in [Processes -> Check] /\ check[p] \in Check
  BY DEF HealthTypeOK
<1>2. \A to : /\ [check[p] EXCEPT !.pc = to].pc = to
              /\ [check[p] EXCEPT !.pc = to].seen = check[p].seen
  BY <1>1 DEF Check
<1> QED
  BY <1>1, <1>2

(* At most one check is at work while they keep apart.                     *)
LEMMA OneAtWork ==
    ASSUME ApartInv(check, link, lease, outage), NEW p \in Processes, NEW q \in Processes,
           Working(check[p]), Working(check[q])
    PROVE  p = q
<1>1. lease.by = p /\ lease.by = q
  BY DEF ApartInv, CheckInv
<1> QED
  BY <1>1

LEMMA WorldKeepsApart ==
    ASSUME HealthTypeOK, ApartInv(check, link, lease, outage), apart',
           \/ \E c \in Creds : Revoke(c) \/ Restore(c)
                               \/ \E s \in BOOLEAN : StoreConnectorCredentials(c, s)
           \/ Nears \/ Expire \/ Due \/ Lapse
    PROVE  ApartInv(check', link', lease', outage')
<1>1. link \in Link
  BY DEF HealthTypeOK
<1>2. CASE \/ \E c \in Creds : Revoke(c) \/ Restore(c)
           \/ Nears \/ Expire \/ Due
  <2>1. link'.status = link.status /\ link'.failures = link.failures
    BY <1>1, <1>2 DEF Revoke, Restore, Nears, Expire, Due, Link
  <2>2. UNCHANGED <<check, lease, outage>>
    BY <1>2 DEF Revoke, Restore, Nears, Expire, Due
  <2> QED
    BY <2>1, <2>2, SameKeeps DEF SameChecks
<1>3. CASE \E c \in Creds, s \in BOOLEAN : StoreConnectorCredentials(c, s)
  <2>1. PICK c \in Creds, s \in BOOLEAN : StoreConnectorCredentials(c, s)
    BY <1>3
  <2>2. (\A p \in Processes : check[p].pc = "idle") /\ UNCHANGED <<check, lease>>
    BY <2>1 DEF StoreConnectorCredentials
  <2>3. CASE s
    <3>1. link'.status = link.status /\ link'.failures = link.failures /\ outage' = outage
      BY <1>1, <2>1, <2>3 DEF StoreConnectorCredentials, Link
    <3> QED
      BY <2>2, <3>1, SameKeeps DEF SameChecks
  <2>4. CASE ~s
    <3>1. link'.status = "connected" /\ link'.failures = 0 /\ outage' = Calm
      BY <1>1, <2>1, <2>4 DEF StoreConnectorCredentials, Link
    <3>2. ~Sending(check')
      BY <2>2 DEF Sending
    <3>3. Tally(outage', link', Sending(check'))
      BY <3>1, <3>2 DEF Tally, Announced, Calm
    <3>4. \A p \in Processes : CheckInv(p, check'[p], link', lease')
      BY <2>2 DEF CheckInv, Working, Undecided
    <3> QED
      BY <3>3, <3>4 DEF ApartInv
  <2> QED
    BY <2>3, <2>4
<1>4. CASE Lapse
  <2>1. \A p \in Processes : ~Working(check[p])
    BY <1>4 DEF Lapse, ApartInv, CheckInv, Working
  <2>2. UNCHANGED <<check, link, outage>>
    BY <1>4 DEF Lapse
  <2>3. \A p \in Processes : CheckInv(p, check'[p], link', lease')
    BY <2>1, <2>2 DEF CheckInv, Working, Undecided
  <2> QED
    BY <2>2, <2>3 DEF ApartInv
<1> QED
  BY <1>2, <1>3, <1>4

LEMMA SweepKeepsApart ==
    ASSUME HealthTypeOK, ApartInv(check, link, lease, outage), apart', NEW p \in Processes,
           SweepReads(p) \/ ClaimConnectorWork(p) \/ ReleaseConnectorWork(p)
           \/ Stalls(p) \/ Dies(p)
    PROVE  ApartInv(check', link', lease', outage')
<1>1. /\ \A c : LET f == [check EXCEPT ![p] = c]
                IN  f[p] = c /\ \A q \in Processes \ {p} : f[q] = check[q]
      /\ \A to : LET f == [check EXCEPT ![p].pc = to]
                 IN  /\ f[p].pc = to /\ f[p].seen = check[p].seen
                     /\ \A q \in Processes \ {p} : f[q] = check[q]
  BY CheckMoves
<1>2. CASE SweepReads(p)
  <2>1. check'[p].pc = "read" /\ \A q \in Processes \ {p} : check'[q] = check[q]
    BY <1>1, <1>2 DEF SweepReads
  <2>2. SameChecks(check', check)
    BY <1>2, <2>1 DEF SweepReads, SameChecks, Working, Undecided
  <2> QED
    BY <1>2, <2>2, SameKeeps DEF SweepReads
<1>3. CASE ClaimConnectorWork(p) /\ ~(lease.by = NoProcess \/ ~lease.live)
  <2>1. check'[p] = NoCheck /\ \A q \in Processes \ {p} : check'[q] = check[q]
    <3>1. check' = [check EXCEPT ![p] = NoCheck]
      BY <1>3 DEF ClaimConnectorWork, Ends
    <3> QED
      BY <1>1, <3>1
  <2>2. SameChecks(check', check)
    BY <1>3, <2>1 DEF ClaimConnectorWork, SameChecks, Working, Undecided, NoCheck
  <2> QED
    BY <1>3, <2>2, SameKeeps DEF ClaimConnectorWork
<1>4. CASE ClaimConnectorWork(p) /\ (lease.by = NoProcess \/ ~lease.live)
  <2>1. /\ lease' = [by |-> p, live |-> TRUE] /\ check[p].seen = link
        /\ check' = [check EXCEPT ![p].pc = "held"] /\ check[p].pc = "read"
        /\ UNCHANGED <<link, outage>>
    BY <1>4 DEF ClaimConnectorWork, Goes
  <2>2. /\ check'[p].pc = "held" /\ check'[p].seen = link
        /\ \A q \in Processes \ {p} : check'[q] = check[q]
    BY <1>1, <2>1
  <2>3. \A q \in Processes : ~Working(check[q])
    <3> SUFFICES ASSUME NEW q \in Processes, Working(check[q]) PROVE FALSE
      OBVIOUS
    <3>1. lease = [by |-> q, live |-> TRUE]
      BY DEF ApartInv, CheckInv
    <3> QED
      BY <1>4, <3>1, AdHealthAssumption
  <2>4. \A q \in Processes : CheckInv(q, check'[q], link', lease')
    BY <2>1, <2>2, <2>3 DEF CheckInv, Working, Undecided
  <2>5. Sending(check') <=> Sending(check)
    BY <2>1, <2>2 DEF Sending
  <2>6. Tally(outage', link', Sending(check'))
    BY <2>1, <2>5 DEF ApartInv, Tally, Announced
  <2> QED
    BY <2>4, <2>6 DEF ApartInv
<1>5. CASE ReleaseConnectorWork(p)
  <2>1. /\ check'[p] = NoCheck /\ \A q \in Processes \ {p} : check'[q] = check[q]
        /\ check[p].pc = "over" /\ UNCHANGED <<link, outage>>
    BY <1>1, <1>5 DEF ReleaseConnectorWork, Ends
  <2>2. \A q \in Processes : ~Working(check'[q])
    BY <2>1, OneAtWork DEF Working, NoCheck
  <2>3. \A q \in Processes : CheckInv(q, check'[q], link', lease')
    BY <2>2 DEF CheckInv, Working, Undecided
  <2>4. Sending(check') <=> Sending(check)
    BY <2>1 DEF Sending, NoCheck
  <2>5. Tally(outage', link', Sending(check'))
    BY <2>1, <2>4 DEF ApartInv, Tally, Announced
  <2> QED
    BY <2>3, <2>5 DEF ApartInv
<1>6. CASE Stalls(p) \/ Dies(p)
  BY <1>6 DEF Stalls, Dies
<1> QED
  BY <1>2, <1>3, <1>4, <1>5, <1>6

LEMMA ProbesKeepApart ==
    ASSUME HealthTypeOK, ApartInv(check, link, lease, outage), NEW p \in Processes,
           ProactiveRefresh(p) \/ Probe(p) \/ RefreshAgain(p) \/ ProbeAgain(p) \/ TryStandby(p)
    PROVE  ApartInv(check', link', lease', outage')
<1>1. check \in [Processes -> Check] /\ check[p] \in Check /\ link \in Link
  BY DEF HealthTypeOK
<1>2. link'.status = link.status /\ link'.failures = link.failures
  <2>1. Refreshed(p) => link'.status = link.status /\ link'.failures = link.failures
    BY <1>1, RenewedKeeps DEF Refreshed
  <2>2. CASE ProactiveRefresh(p) \/ RefreshAgain(p)
    BY <2>1, <2>2 DEF ProactiveRefresh, RefreshAgain
  <2>3. CASE Probe(p) \/ ProbeAgain(p)
    BY <2>3 DEF Probe, ProbeAgain
  <2>4. CASE TryStandby(p)
    BY <1>1, <2>4 DEF TryStandby, Link
  <2> QED
    BY <2>2, <2>3, <2>4
<1>3. UNCHANGED <<lease, outage>>
  BY DEF ProactiveRefresh, Probe, RefreshAgain, ProbeAgain, TryStandby, Holding
<1>4. check[p].pc \in {"held", "probe", "again", "second", "spare"}
  BY DEF ProactiveRefresh, Probe, RefreshAgain, ProbeAgain, TryStandby
<1>5. /\ \A q \in Processes \ {p} : check'[q] = check[q]
      /\ check'[p].seen = check[p].seen
      /\ check'[p].pc \in {"probe", "again", "second", "spare", "well", "ill"}
  <2>1. CASE ProactiveRefresh(p)
    <3>1. \/ check' = [check EXCEPT ![p].pc = "probe"]
          \/ check' = [check EXCEPT ![p] = [check[p] EXCEPT !.pc = "probe",
                          !.token = check[p].seen.refresh, !.fresh = TRUE]]
          \/ check' = [check EXCEPT ![p] = [check[p] EXCEPT !.pc = "probe", !.strike = TRUE]]
      BY <2>1 DEF ProactiveRefresh, Goes
    <3> DEFINE renewed == [check[p] EXCEPT !.pc = "probe", !.token = check[p].seen.refresh,
                                           !.fresh = TRUE]
               struck  == [check[p] EXCEPT !.pc = "probe", !.strike = TRUE]
    <3>2. /\ renewed.pc = "probe" /\ renewed.seen = check[p].seen
          /\ struck.pc = "probe" /\ struck.seen = check[p].seen
      BY <1>1 DEF Check
    <3> HIDE DEF renewed, struck
    <3>3. CASE check' = [check EXCEPT ![p].pc = "probe"]
      BY <3>3, CheckMoves
    <3>4. CASE check' = [check EXCEPT ![p] = renewed]
      BY <1>1, <3>2, <3>4
    <3>5. CASE check' = [check EXCEPT ![p] = struck]
      BY <1>1, <3>2, <3>5
    <3> QED
      BY <3>1, <3>3, <3>4, <3>5 DEF renewed, struck
  <2>2. CASE Probe(p)
    <3>1. PICK answer \in Answered :
            check' = [check EXCEPT ![p] = [check[p] EXCEPT
                        !.pc = CASE answer = "auth" -> "again"
                                 [] answer = "ok" /\ ~check[p].strike -> "well"
                                 [] OTHER -> "ill",
                        !.auth = (answer = "auth")]]
      BY <2>2 DEF Probe
    <3> DEFINE to == CASE answer = "auth" -> "again"
                       [] answer = "ok" /\ ~check[p].strike -> "well"
                       [] OTHER -> "ill"
               probed == [check[p] EXCEPT !.pc = to, !.auth = (answer = "auth")]
    <3>2. to \in {"again", "well", "ill"}
      OBVIOUS
    <3>3. check' = [check EXCEPT ![p] = probed]
      BY <3>1
    <3> HIDE DEF to
    <3>4. probed.pc = to /\ probed.seen = check[p].seen
      BY <1>1 DEF Check
    <3> HIDE DEF probed
    <3> QED
      BY <1>1, <3>2, <3>3, <3>4
  <2>3. CASE RefreshAgain(p)
    <3> DEFINE renewed == [check[p] EXCEPT !.pc = "second", !.token = check[p].seen.refresh,
                                           !.fresh = TRUE]
    <3>1. \/ check' = [check EXCEPT ![p].pc = "spare"]
          \/ check' = [check EXCEPT ![p] = renewed]
      BY <2>3 DEF RefreshAgain, Goes
    <3>2. renewed.pc = "second" /\ renewed.seen = check[p].seen
      BY <1>1 DEF Check
    <3> HIDE DEF renewed
    <3>3. CASE check' = [check EXCEPT ![p].pc = "spare"]
      BY <3>3, CheckMoves
    <3>4. CASE check' = [check EXCEPT ![p] = renewed]
      BY <1>1, <3>2, <3>4
    <3> QED
      BY <3>1, <3>3, <3>4
  <2>4. CASE ProbeAgain(p)
    <3>1. PICK answer \in Answered :
            check' = [check EXCEPT ![p] = [check[p] EXCEPT
                        !.pc = CASE answer = "ok" -> "well" [] answer = "outage" -> "ill"
                                 [] OTHER -> "spare",
                        !.auth = (answer \in {"auth", "thrown"})]]
      BY <2>4 DEF ProbeAgain
    <3> DEFINE to == CASE answer = "ok" -> "well" [] answer = "outage" -> "ill"
                       [] OTHER -> "spare"
               probed == [check[p] EXCEPT !.pc = to,
                                          !.auth = (answer \in {"auth", "thrown"})]
    <3>2. to \in {"spare", "well", "ill"}
      OBVIOUS
    <3>3. check' = [check EXCEPT ![p] = probed]
      BY <3>1
    <3> HIDE DEF to
    <3>4. probed.pc = to /\ probed.seen = check[p].seen
      BY <1>1 DEF Check
    <3> HIDE DEF probed
    <3> QED
      BY <1>1, <3>2, <3>3, <3>4
  <2>5. CASE TryStandby(p)
    BY <1>1, <2>5 DEF TryStandby, Goes, Check
  <2> QED
    BY <2>1, <2>2, <2>3, <2>4, <2>5
<1>6. SameChecks(check', check)
  BY <1>4, <1>5 DEF SameChecks, Working, Undecided
<1> QED
  BY <1>2, <1>3, <1>6, SameKeeps

(* A check that failed reports the first refusal of an outage, and its     *)
(* third failure.                                                          *)
LEMMA FailureIsTold ==
    ASSUME HealthTypeOK, ApartInv(check, link, lease, outage), NEW p \in Processes,
           PersistConnectorFailure(p)
    PROVE  ApartInv(check', link', lease', outage')
<1> DEFINE c == check[p]
           failures == IF c.seen.failures < MaxFailures THEN c.seen.failures + 1
                       ELSE MaxFailures
<1>1. /\ c \in Check /\ c.pc = "ill" /\ c.auth \in BOOLEAN
      /\ link \in Link /\ outage \in [alerts : 0..4, auth : BOOLEAN, soft : BOOLEAN]
  BY CheckFields DEF HealthTypeOK, PersistConnectorFailure
<1>2. c.seen.status = link.status /\ c.seen.failures = link.failures
  BY <1>1 DEF ApartInv, CheckInv, Undecided
<1>3. /\ link' = [link EXCEPT !.status = IF c.auth THEN "disconnected"
                                         ELSE IF failures >= 3 THEN "error" ELSE "connected",
                              !.failures = failures, !.due = FALSE]
      /\ check' = [check EXCEPT ![p].pc = IF ShouldAlert(c, failures) THEN "alert" ELSE "over"]
      /\ outage' = [outage EXCEPT !.auth = @ \/ c.auth, !.soft = @ \/ ~c.auth]
      /\ lease' = lease
  BY DEF PersistConnectorFailure
<1> HIDE DEF failures, c
<1>4. link'.failures = failures /\ (link'.status = "disconnected" <=> c.auth)
  BY <1>1, <1>3 DEF Link
<1>5. /\ outage'.alerts = outage.alerts
      /\ outage'.auth <=> outage.auth \/ c.auth
      /\ outage'.soft <=> outage.soft \/ ~c.auth
  BY <1>1, <1>3
<1>6. /\ check'[p].pc = IF ShouldAlert(c, failures) THEN "alert" ELSE "over"
      /\ \A q \in Processes \ {p} : check'[q] = check[q]
  BY <1>3, CheckMoves
<1>7. \A q \in Processes \ {p} : ~Working(check[q])
  BY <1>1, OneAtWork DEF Working, c
<1>8. \A q \in Processes : CheckInv(q, check'[q], link', lease')
  <2>1. lease = [by |-> p, live |-> TRUE]
    BY <1>1 DEF ApartInv, CheckInv, Working, c
  <2> QED
    BY <1>3, <1>6, <1>7, <2>1 DEF CheckInv, Working, Undecided
<1>9. ~Sending(check)
  BY <1>1, <1>7 DEF Sending, Working, c
<1>10. Sending(check') <=> ShouldAlert(c, failures)
  BY <1>6, <1>7 DEF Sending, Working
<1>11. ShouldAlert(c, failures) <=> (c.auth /\ link.status # "disconnected") \/ failures = 3
  BY <1>2 DEF ShouldAlert
<1>12. /\ link.failures \in 0..MaxFailures /\ outage.alerts \in 0..4
       /\ failures = IF link.failures < MaxFailures THEN link.failures + 1 ELSE MaxFailures
  BY <1>1, <1>2, RowFields DEF failures
<1>13. Tally(outage', link', Sending(check'))
  <2> DEFINE told == Sending(check')
             said == IF told THEN outage.alerts + 1 ELSE outage.alerts
  <2>1. told <=> (c.auth /\ link.status # "disconnected") \/ failures = 3
    BY <1>10, <1>11
  <2>2. /\ (~outage.auth /\ ~outage.soft) =>
              link.failures = 0 /\ link.status # "disconnected" /\ outage.alerts = 0
        /\ (~outage.auth /\ outage.soft) =>
              /\ link.status # "disconnected"
              /\ outage.alerts = IF link.failures >= 3 THEN 1 ELSE 0
        /\ (outage.auth /\ ~outage.soft) =>
              /\ link.status = "disconnected"
              /\ outage.alerts = IF link.failures >= 3 THEN 2 ELSE 1
        /\ (outage.auth /\ outage.soft) => outage.alerts >= 1
    BY <1>9 DEF ApartInv, Tally, Announced
  <2> HIDE DEF told
  <2>3. CASE c.auth /\ ~outage.soft
    <3>1. said = IF failures >= 3 THEN 2 ELSE 1
      BY <1>12, <2>1, <2>2, <2>3, AdHealthAssumption
    <3> QED
      BY <1>4, <1>5, <2>3, <3>1 DEF Tally, Announced, told
  <2>4. CASE c.auth /\ outage.soft
    <3>1. said >= 1
      BY <1>12, <2>1, <2>2, <2>4, AdHealthAssumption
    <3> QED
      BY <1>4, <1>5, <2>4, <3>1 DEF Tally, Announced, told
  <2>5. CASE ~c.auth /\ ~outage.auth
    <3>1. said = IF failures >= 3 THEN 1 ELSE 0
      BY <1>12, <2>1, <2>2, <2>5, AdHealthAssumption
    <3> QED
      BY <1>4, <1>5, <2>5, <3>1 DEF Tally, Announced, told
  <2>6. CASE ~c.auth /\ outage.auth
    <3>1. said >= 1
      BY <1>12, <2>1, <2>2, <2>6, AdHealthAssumption
    <3> QED
      BY <1>4, <1>5, <2>6, <3>1 DEF Tally, Announced, told
  <2> QED
    BY <1>1, <2>3, <2>4, <2>5, <2>6
<1> QED
  BY <1>8, <1>13 DEF ApartInv

LEMMA OutcomeKeepsApart ==
    ASSUME HealthTypeOK, ApartInv(check, link, lease, outage), NEW p \in Processes,
           CheckPassed(p) \/ SendConnectorAlert(p)
    PROVE  ApartInv(check', link', lease', outage')
<1>1. /\ check[p].pc \in {"well", "alert"} /\ check' = [check EXCEPT ![p].pc = "over"]
      /\ lease' = lease
  BY DEF CheckPassed, SendConnectorAlert, Goes
<1>2. check'[p].pc = "over" /\ \A q \in Processes \ {p} : check'[q] = check[q]
  BY <1>1, CheckMoves
<1>3. \A q \in Processes \ {p} : ~Working(check[q])
  BY <1>1, OneAtWork DEF Working
<1>4. \A q \in Processes : CheckInv(q, check'[q], link', lease')
  <2>1. lease' = [by |-> p, live |-> TRUE]
    BY <1>1 DEF ApartInv, CheckInv, Working
  <2>2. CheckInv(p, check'[p], link', lease')
    BY <1>2, <2>1 DEF CheckInv, Undecided
  <2>3. ASSUME NEW q \in Processes \ {p}
        PROVE  CheckInv(q, check'[q], link', lease')
    <3>1. ~Working(check'[q])
      BY <1>2, <1>3
    <3> QED
      BY <3>1 DEF CheckInv, Working, Undecided
  <2> QED
    BY <2>2, <2>3
<1>5. ~Sending(check')
  BY <1>2, <1>3 DEF Sending, Working
<1>6. CASE CheckPassed(p)
  <2>1. link'.failures = 0 /\ link'.status = "connected" /\ outage' = Calm
    BY <1>6 DEF CheckPassed, HealthTypeOK, Link
  <2>2. Tally(outage', link', Sending(check'))
    BY <1>5, <2>1 DEF Tally, Announced, Calm
  <2> QED
    BY <1>4, <2>2 DEF ApartInv
<1>7. CASE SendConnectorAlert(p)
  <2>1. /\ outage \in [alerts : 0..4, auth : BOOLEAN, soft : BOOLEAN] /\ link' = link
        /\ outage' = [outage EXCEPT !.alerts = IF @ < 4 THEN @ + 1 ELSE @]
        /\ check[p].pc = "alert"
    BY <1>7 DEF SendConnectorAlert, HealthTypeOK, Goes
  <2>2. /\ outage'.auth = outage.auth /\ outage'.soft = outage.soft
        /\ outage'.alerts = IF outage.alerts < 4 THEN outage.alerts + 1 ELSE outage.alerts
        /\ outage.alerts \in 0..4
    BY <2>1
  <2>3. Sending(check)
    BY <2>1 DEF Sending
  <2>4. Tally(outage', link', Sending(check'))
    BY <1>5, <2>1, <2>2, <2>3 DEF ApartInv, Tally, Announced
  <2> QED
    BY <1>4, <2>4 DEF ApartInv
<1> QED
  BY <1>6, <1>7

(* An ingest writes the status while no check runs, and not over a refusal.*)
LEMMA IngestKeepsApart ==
    ASSUME HealthTypeOK, ApartInv(check, link, lease, outage), apart',
           UNCHANGED <<check, lease, outage>>, Disturbs, link'.failures = link.failures,
           link'.status \in {link.status, "connected", "error"}
    PROVE  ApartInv(check', link', lease', outage')
<1>1. link.status # "disconnected" /\ \A p \in Processes : check[p].pc = "idle"
  BY DEF Disturbs
<1>2. link'.status # "disconnected"
  BY <1>1
<1>3. Tally(outage, link, Sending(check))
  BY DEF ApartInv
<1>4. Tally(outage', link', Sending(check'))
  BY <1>1, <1>2, <1>3 DEF Tally, Announced
<1>5. \A p \in Processes : CheckInv(p, check'[p], link', lease')
  BY <1>1 DEF CheckInv, Working, Undecided
<1> QED
  BY <1>4, <1>5 DEF ApartInv

LEMMA HealthStep == HealthTypeOK /\ HealthInv /\ [Next]_vars => HealthInv'
<1> SUFFICES ASSUME HealthTypeOK, HealthInv, [Next]_vars, apart'
             PROVE  ApartInv(check', link', lease', outage')
  BY DEF HealthInv
<1>1. link \in Link /\ apart \in BOOLEAN
  BY DEF HealthTypeOK
<1>2. CASE UNCHANGED <<check, link, lease, outage, apart>>
  BY <1>2 DEF HealthInv
<1>3. CASE HealthNext
  <2>1. apart
    BY <1>3 DEF HealthNext, Revoke, Restore, StoreConnectorCredentials, Nears, Expire, Due,
       Lapse, SweepReads, Dies, Stalls, CheckStep, ClaimConnectorWork, ProactiveRefresh, Probe,
       RefreshAgain, ProbeAgain, TryStandby, CheckPassed, PersistConnectorFailure,
       SendConnectorAlert, ReleaseConnectorWork, Holding
  <2>2. ApartInv(check, link, lease, outage)
    BY <2>1 DEF HealthInv
  <2> QED
    BY <1>3, <2>2, WorldKeepsApart, SweepKeepsApart, ProbesKeepApart, FailureIsTold,
       OutcomeKeepsApart DEF HealthNext, CheckStep
<1>4. CASE \E s \in Slots : FreshAuth(s) \/ FetchDailySpend(s) \/ CommitSpend(s) \/ CommitFails(s)
  <2>1. UNCHANGED <<check, lease, outage>>
    BY <1>4 DEF FreshAuth, FetchDailySpend, CommitSpend, CommitFails
  <2>2. UNCHANGED <<link, apart>> \/ (Disturbs /\ \/ link' = [link EXCEPT !.status = "error"]
                                                  \/ link' = [link EXCEPT !.status = "connected"]
                                                  \/ \E c : link' = Renewed(link, c))
    <3>1. ASSUME NEW s \in Slots, NEW answer \in {"auth", "transient", "rate"},
                 IngestFails(s, answer)
          PROVE  \/ UNCHANGED <<link, apart>>
                 \/ Disturbs /\ link' = [link EXCEPT !.status = "error"]
      BY <3>1 DEF IngestFails
    <3>2. \A http, code : Classified(http, code) \in {"auth", "transient", "rate"}
      BY DEF Classified
    <3> QED
      BY <1>4, <3>1, <3>2 DEF FreshAuth, FetchDailySpend, CommitSpend, CommitFails
  <2>3. CASE UNCHANGED <<link, apart>>
    BY <1>2, <2>1, <2>3
  <2>4. CASE ~UNCHANGED <<link, apart>>
    <3>1. link'.failures = link.failures /\ link'.status \in {link.status, "connected", "error"}
      BY <1>1, <2>2, <2>4, RenewedKeeps DEF Link
    <3>2. Disturbs /\ apart
      BY <2>2, <2>4 DEF Disturbs
    <3> QED
      BY <2>1, <3>1, <3>2, IngestKeepsApart DEF HealthInv
  <2> QED
    BY <2>3, <2>4
<1>5. CASE SpendNext
  BY <1>2, <1>4, <1>5
  DEF SpendNext, IngestStep, RunSchedulingCycle, SameAgain, RequestRecompute, StartIngest,
      StartRecompute, OtherRecompute, ReadSpend, FinishRecompute, Restates, DayPasses,
      FlushRedis, WorkerDies, healthVars
<1> QED
  BY <1>2, <1>3, <1>5 DEF Next, Ads, Carrying, vars, healthVars

(* Checks that keep apart alert of every outage and do not repeat          *)
(* themselves, for any number of processes, credentials and outages.       *)
THEOREM OutagesAreTold == Spec => []OutagesAreAlerted
<1>1. Init => HealthInv
  <2> SUFFICES ASSUME NEW s \in Stories, HealthInit(s.cred, s.standby, s.google, s.expiry)
               PROVE  ApartInv(check, link, lease, outage)
    BY DEF Init, HealthInv
  <2>1. \A p \in Processes : check[p] = NoCheck
    BY DEF HealthInit
  <2>2. link.failures = 0 /\ link.status = "connected" /\ outage = Calm
    BY DEF HealthInit
  <2>3. ~Sending(check)
    BY <2>1 DEF Sending, NoCheck
  <2> QED
    BY <2>1, <2>2, <2>3
    DEF ApartInv, CheckInv, Working, Undecided, NoCheck, Tally, Announced, Calm
<1>2. HealthTypeOK /\ HealthInv => OutagesAreAlerted
  <2> SUFFICES ASSUME HealthTypeOK, HealthInv, apart,
                      \A p \in Processes : check[p].pc # "alert"
               PROVE  /\ (link.status = "disconnected" \/ link.failures >= 3)
                             => outage.alerts >= 1
                      /\ ~(outage.auth /\ outage.soft) => outage.alerts <= 2
    BY DEF OutagesAreAlerted
  <2>1. ~Sending(check) /\ Tally(outage, link, Sending(check))
    BY DEF Sending, HealthInv, ApartInv
  <2>2. outage.alerts \in 0..4 /\ outage.auth \in BOOLEAN /\ outage.soft \in BOOLEAN
        /\ link.failures \in 0..MaxFailures
    BY DEF HealthTypeOK, Link
  <2> QED
    BY <2>1, <2>2, AdHealthAssumption DEF Tally, Announced
<1> QED
  BY <1>1, <1>2, AdsInit, AdsTyped, HealthStep, PTL DEF Spec

-----------------------------------------------------------------------------
(* Sums                                                                    *)

(* Numbers are well ordered.                                               *)
Less == OpToRel(<, Nat)

LEMMA NatsHaveLeast ==
    ASSUME NEW S \in SUBSET Nat, S # {}
    PROVE  \E x \in S : \A y \in S : x <= y
<1>1. IsWellFoundedOn(Less, Nat)
  BY NatLessThanWellFounded DEF Less
<1>2. PICK x \in S : \A y \in S : ~(<<y, x>> \in Less)
  BY <1>1, WFMin
<1>3. S \subseteq Nat
  OBVIOUS
<1>4. \A y \in S : ~(y < x)
  BY <1>2, <1>3 DEF Less, OpToRel
<1>5. \A y \in S : x <= y
  BY <1>3, <1>4
<1> QED
  BY <1>5

(* A set with 0 that has every next number has all numbers up to n.        *)
LEMMA Climb ==
    ASSUME NEW n \in Nat, NEW S, 0 \in S, \A k \in 1..n : k - 1 \in S => k \in S
    PROVE  \A k \in 0..n : k \in S
<1> DEFINE missing == {k \in 0..n : k \notin S}
<1>1. SUFFICES ASSUME missing # {} PROVE FALSE
  OBVIOUS
<1>2. PICK x \in missing : \A y \in missing : x <= y
  <2>1. missing \in SUBSET Nat
    OBVIOUS
  <2> HIDE DEF missing
  <2> QED
    BY <1>1, <2>1, NatsHaveLeast
<1>3. x \in 1..n /\ x - 1 \in 0..n /\ ~(x <= x - 1)
  OBVIOUS
<1>4. x - 1 \in S
  BY <1>2, <1>3
<1> QED
  BY <1>3, <1>4

(* The sum of the first k numbers of a sequence of n, by k.                *)
AddsUp(h, f, n) == /\ h \in [0..n -> Int] /\ h[0] = 0
                   /\ \A k \in 1..n : h[k] = h[k - 1] + f[k]
Partial(f, n) == CHOOSE h : AddsUp(h, f, n)

LEMMA PartialSums ==
    ASSUME NEW n \in Nat, NEW f \in [1..n -> Int]
    PROVE  AddsUp(Partial(f, n), f, n)
<1> DEFINE S == {k \in 0..n : \E h : AddsUp(h, f, k)}
<1>1. 0 \in S
  <2>1. AddsUp([k \in 0..0 |-> 0], f, 0)
    BY DEF AddsUp
  <2> QED
    BY <2>1
<1>2. ASSUME NEW k \in 1..n, k - 1 \in S
      PROVE  k \in S
  <2>1. PICK h : AddsUp(h, f, k - 1)
    BY <1>2
  <2> DEFINE g == [i \in 0..k |-> IF i = k THEN h[k - 1] + f[k] ELSE h[i]]
  <2>2. h \in [0..(k - 1) -> Int] /\ h[0] = 0 /\ \A i \in 1..(k - 1) : h[i] = h[i - 1] + f[i]
    BY <2>1 DEF AddsUp
  <2>3. h[k - 1] + f[k] \in Int
    BY <2>2
  <2>4. g \in [0..k -> Int]
    BY <2>2, <2>3
  <2>5. \A i \in 0..(k - 1) : g[i] = h[i]
    OBVIOUS
  <2>6. ASSUME NEW i \in 1..k
        PROVE  g[i] = g[i - 1] + f[i]
    <3>1. CASE i = k
      BY <2>5, <3>1
    <3>2. CASE i # k
      <4>1. i \in 1..(k - 1) /\ i - 1 \in 0..(k - 1) /\ i \in 0..(k - 1)
        BY <3>2
      <4> QED
        BY <2>2, <2>5, <4>1
    <3> QED
      BY <3>1, <3>2
  <2>7. g[0] = 0
    BY <2>2, <2>5
  <2> HIDE DEF g
  <2>8. AddsUp(g, f, k)
    BY <2>4, <2>6, <2>7 DEF AddsUp
  <2> QED
    BY <2>8
<1>3. n \in S
  <2>1. n \in 0..n
    OBVIOUS
  <2> HIDE DEF S
  <2> QED
    BY <1>1, <1>2, <2>1, Climb
<1> QED
  BY <1>3 DEF Partial

LEMMA LengthOf ==
    ASSUME NEW n \in Nat, NEW f, f = [i \in 1..n |-> f[i]]
    PROVE  Len(f) = n
  OBVIOUS

(* What adds up like the sum, step by step, ends in the sum.               *)
LEMMA SumsTo ==
    ASSUME NEW n \in Nat, NEW f \in [1..n -> Int], NEW p, AddsUp(p, f, n)
    PROVE  SumOf(f) = p[n] /\ SumOf(f) \in Int
<1>1. Len(f) = n
  BY LengthOf
<1> DEFINE Sums(h) == h = [k \in 0..Len(f) |-> IF k = 0 THEN 0 ELSE h[k - 1] + f[k]]
           h == CHOOSE any : Sums(any)
<1>2. p \in [0..n -> Int] /\ p[0] = 0 /\ \A k \in 1..n : p[k] = p[k - 1] + f[k]
  BY DEF AddsUp
<1>3. Sums(p)
  BY <1>1, <1>2
<1>4. Sums(h)
  BY <1>3
<1>5. h[0] = 0 /\ \A k \in 1..n : h[k] = h[k - 1] + f[k]
  <2> HIDE DEF h
  <2> QED
    BY <1>1, <1>4
<1> DEFINE S == {k \in 0..n : h[k] = p[k]}
<1>6. \A k \in 0..n : k \in S
  <2>1. 0 \in S
    BY <1>2, <1>5
  <2>2. ASSUME NEW k \in 1..n, k - 1 \in S
        PROVE  k \in S
    <3>1. h[k] = h[k - 1] + f[k] /\ p[k] = p[k - 1] + f[k]
      BY <1>2, <1>5
    <3> QED
      BY <2>2, <3>1
  <2> HIDE DEF S
  <2> QED
    BY <2>1, <2>2, Climb
<1>7. h[n] = p[n]
  BY <1>6
<1>8. SumOf(f) = h[n]
  BY <1>1 DEF SumOf
<1> QED
  BY <1>2, <1>7, <1>8

LEMMA SumIsPartial ==
    ASSUME NEW n \in Nat, NEW f \in [1..n -> Int]
    PROVE  /\ SumOf(f) = Partial(f, n)[n] /\ SumOf(f) \in Int
           /\ Partial(f, n) \in [0..n -> Int] /\ Partial(f, n)[0] = 0
           /\ \A k \in 1..n : Partial(f, n)[k] = Partial(f, n)[k - 1] + f[k]
<1>1. AddsUp(Partial(f, n), f, n)
  BY PartialSums
<1>2. SumOf(f) = Partial(f, n)[n] /\ SumOf(f) \in Int
  BY <1>1, SumsTo
<1> QED
  BY <1>1, <1>2 DEF AddsUp

LEMMA SumAdded ==
    ASSUME NEW n \in Nat, NEW f \in [1..n -> Int], NEW g \in [1..n -> Int],
           NEW e \in [1..n -> Int], \A k \in 1..n : e[k] = f[k] + g[k]
    PROVE  SumOf(e) = SumOf(f) + SumOf(g)
<1> DEFINE p == Partial(f, n)
           q == Partial(g, n)
           h == [k \in 0..n |-> p[k] + q[k]]
<1>1. /\ SumOf(f) = p[n] /\ p \in [0..n -> Int] /\ p[0] = 0
      /\ \A k \in 1..n : p[k] = p[k - 1] + f[k]
  BY SumIsPartial
<1>2. /\ SumOf(g) = q[n] /\ q \in [0..n -> Int] /\ q[0] = 0
      /\ \A k \in 1..n : q[k] = q[k - 1] + g[k]
  BY SumIsPartial
<1> HIDE DEF p, q
<1>3. h \in [0..n -> Int] /\ h[0] = 0
  BY <1>1, <1>2
<1>4. ASSUME NEW k \in 1..n
      PROVE  h[k] = h[k - 1] + e[k]
  <2>1. k \in 0..n /\ k - 1 \in 0..n
    OBVIOUS
  <2>2. p[k] = p[k - 1] + f[k] /\ q[k] = q[k - 1] + g[k] /\ e[k] = f[k] + g[k]
    BY <1>1, <1>2
  <2>3. p[k - 1] \in Int /\ q[k - 1] \in Int /\ f[k] \in Int /\ g[k] \in Int
    BY <1>1, <1>2, <2>1
  <2> QED
    BY <2>1, <2>2, <2>3
<1>5. h[n] = p[n] + q[n]
  OBVIOUS
<1> HIDE DEF h
<1>6. AddsUp(h, e, n)
  BY <1>3, <1>4 DEF AddsUp
<1>7. SumOf(e) = h[n]
  BY <1>6, SumsTo
<1> QED
  BY <1>1, <1>2, <1>5, <1>7

LEMMA Distribute ==
    ASSUME NEW c \in Int, NEW x \in Int, NEW y \in Int
    PROVE  c * (x + y) = (c * x) + (c * y) /\ c * x \in Int
  OBVIOUS

LEMMA SumScaled ==
    ASSUME NEW n \in Nat, NEW c \in Int, NEW f \in [1..n -> Int],
           NEW e \in [1..n -> Int], \A k \in 1..n : e[k] = c * f[k]
    PROVE  SumOf(e) = c * SumOf(f)
<1> DEFINE p == Partial(f, n)
           h == [k \in 0..n |-> c * p[k]]
<1>1. /\ SumOf(f) = p[n] /\ p \in [0..n -> Int] /\ p[0] = 0
      /\ \A k \in 1..n : p[k] = p[k - 1] + f[k]
  BY SumIsPartial
<1> HIDE DEF p
<1>2. h \in [0..n -> Int]
  <2>1. \A k \in 0..n : c * p[k] \in Int
    BY <1>1, Distribute
  <2> QED
    BY <2>1
<1>3. h[0] = 0
  <2>1. c * 0 = 0 /\ 0 \in 0..n
    OBVIOUS
  <2> QED
    BY <1>1, <2>1
<1>4. ASSUME NEW k \in 1..n
      PROVE  h[k] = h[k - 1] + e[k]
  <2>1. k \in 0..n /\ k - 1 \in 0..n
    OBVIOUS
  <2>2. p[k] = p[k - 1] + f[k] /\ p[k - 1] \in Int /\ f[k] \in Int
    BY <1>1, <2>1
  <2>3. c * p[k] = (c * p[k - 1]) + (c * f[k])
    BY <2>2, Distribute
  <2> QED
    BY <2>1, <2>3
<1>5. h[n] = c * p[n]
  OBVIOUS
<1> HIDE DEF h
<1>6. AddsUp(h, e, n)
  BY <1>2, <1>3, <1>4 DEF AddsUp
<1>7. SumOf(e) = h[n]
  BY <1>6, SumsTo
<1> QED
  BY <1>1, <1>5, <1>7

LEMMA SumBounds ==
    ASSUME NEW n \in Nat, NEW c \in Nat, NEW f \in [1..n -> Int],
           \A k \in 1..n : 0 <= f[k] /\ f[k] <= c
    PROVE  0 <= SumOf(f) /\ SumOf(f) <= c * n
<1> DEFINE p == Partial(f, n)
           S == {k \in 0..n : 0 <= p[k] /\ p[k] <= c * k}
<1>1. /\ SumOf(f) = p[n] /\ p \in [0..n -> Int] /\ p[0] = 0
      /\ \A k \in 1..n : p[k] = p[k - 1] + f[k]
  BY SumIsPartial
<1> HIDE DEF p
<1>2. 0 \in S
  BY <1>1
<1>3. ASSUME NEW k \in 1..n, k - 1 \in S
      PROVE  k \in S
  <2>1. k \in 0..n /\ k - 1 \in 0..n /\ k - 1 \in Int
    OBVIOUS
  <2>2. p[k] = p[k - 1] + f[k] /\ p[k - 1] \in Int /\ f[k] \in Int /\ 0 <= f[k] /\ f[k] <= c
    BY <1>1, <2>1
  <2>3. c * ((k - 1) + 1) = (c * (k - 1)) + (c * 1) /\ c * (k - 1) \in Int
    BY <2>1, Distribute
  <2>4. c * k = (c * (k - 1)) + c
    BY <2>3
  <2>5. 0 <= p[k - 1] /\ p[k - 1] <= c * (k - 1)
    BY <1>3
  <2> QED
    BY <2>1, <2>2, <2>3, <2>4, <2>5
<1> HIDE DEF S
<1>4. n \in S
  <2>1. n \in 0..n
    OBVIOUS
  <2> QED
    BY <1>2, <1>3, <2>1, Climb
<1> QED
  BY <1>1, <1>4 DEF S

(* A sum of ones counts them.                                              *)
LEMMA SumCounts ==
    ASSUME NEW n \in Nat, NEW T \in SUBSET (1..n), NEW f \in [1..n -> Int],
           \A k \in 1..n : f[k] = IF k \in T THEN 1 ELSE 0
    PROVE  SumOf(f) = Cardinality(T)
<1> DEFINE upTo(k) == T \cap (1..k)
           h == [k \in 0..n |-> Cardinality(upTo(k))]
<1>1. \A k \in 0..n : IsFiniteSet(upTo(k)) /\ Cardinality(upTo(k)) \in Nat
  <2>1. ASSUME NEW k \in 0..n
        PROVE  IsFiniteSet(upTo(k)) /\ Cardinality(upTo(k)) \in Nat
    <3>1. IsFiniteSet(1..k) /\ upTo(k) \in SUBSET (1..k)
      BY FS_Interval
    <3>2. IsFiniteSet(upTo(k))
      BY <3>1, FS_Subset
    <3> QED
      BY <3>2, FS_CardinalityType
  <2> QED
    BY <2>1
<1>2. h \in [0..n -> Int]
  BY <1>1
<1>3. h[0] = 0
  <2>1. upTo(0) = {}
    OBVIOUS
  <2>2. Cardinality(upTo(0)) = 0
    BY <2>1, FS_EmptySet
  <2> QED
    BY <2>2
<1>4. ASSUME NEW k \in 1..n
      PROVE  h[k] = h[k - 1] + f[k]
  <2>1. k \in 0..n /\ k - 1 \in 0..n /\ k \notin upTo(k - 1)
    OBVIOUS
  <2>2. h[k] = Cardinality(upTo(k)) /\ h[k - 1] = Cardinality(upTo(k - 1))
    BY <2>1
  <2>3. CASE k \in T
    <3>1. upTo(k) = upTo(k - 1) \cup {k}
      BY <2>3
    <3>2. Cardinality(upTo(k - 1) \cup {k}) = Cardinality(upTo(k - 1)) + 1
      BY <1>1, <2>1, FS_AddElement
    <3> QED
      BY <2>2, <2>3, <3>1, <3>2
  <2>4. CASE k \notin T
    <3>1. upTo(k) = upTo(k - 1)
      BY <2>4
    <3>2. Cardinality(upTo(k - 1)) \in Nat
      BY <1>1, <2>1
    <3> QED
      BY <2>2, <2>4, <3>1, <3>2
  <2> QED
    BY <2>3, <2>4
<1>5. h[n] = Cardinality(T)
  <2>1. T \subseteq 1..n
    OBVIOUS
  <2>3. upTo(n) = T
    BY <2>1
  <2>4. n \in 0..n
    OBVIOUS
  <2>2. h[n] = Cardinality(upTo(n))
    BY <2>3, <2>4
  <2> QED
    BY <2>3, <2>2
<1> HIDE DEF h
<1>6. AddsUp(h, f, n)
  BY <1>2, <1>3, <1>4 DEF AddsUp
<1> QED
  BY <1>5, <1>6, SumsTo

-----------------------------------------------------------------------------
(* Ranks                                                                   *)

(* In a strict order of 1..n every place is a rank of one of them, so m    *)
(* of them have a rank below m.                                            *)
LEMMA RanksBelow ==
    ASSUME NEW n \in Nat, NEW ahead \in [1..n -> SUBSET (1..n)],
           \A i \in 1..n : i \notin ahead[i],
           \A i, j \in 1..n : i # j => i \in ahead[j] \/ j \in ahead[i],
           \A i, j \in 1..n : j \in ahead[i] => ahead[j] \subseteq ahead[i],
           NEW m \in 0..n
    PROVE  Cardinality({i \in 1..n : Cardinality(ahead[i]) < m}) = m
<1> DEFINE places == 0..(n - 1)
           rank == [i \in 1..n |-> Cardinality(ahead[i])]
           T == {i \in 1..n : Cardinality(ahead[i]) < m}
<1>1. /\ IsFiniteSet(1..n) /\ Cardinality(1..n) = n
      /\ IsFiniteSet(places) /\ Cardinality(places) = n
      /\ IsFiniteSet(0..(m - 1)) /\ Cardinality(0..(m - 1)) = m
  <2>1. IsFiniteSet(1..n) /\ Cardinality(1..n) = IF 1 > n THEN 0 ELSE n - 1 + 1
    BY FS_Interval
  <2>2. n - 1 \in Int /\ m - 1 \in Int /\ 0 \in Int
    OBVIOUS
  <2>3. IsFiniteSet(places) /\ Cardinality(places) = IF 0 > n - 1 THEN 0 ELSE (n - 1) - 0 + 1
    BY <2>2, FS_Interval
  <2>4. IsFiniteSet(0..(m - 1))
        /\ Cardinality(0..(m - 1)) = IF 0 > m - 1 THEN 0 ELSE (m - 1) - 0 + 1
    BY <2>2, FS_Interval
  <2> QED
    BY <2>1, <2>3, <2>4
<1>2. \A i \in 1..n : IsFiniteSet(ahead[i]) /\ Cardinality(ahead[i]) \in Nat
  <2>1. ASSUME NEW i \in 1..n
        PROVE  IsFiniteSet(ahead[i]) /\ Cardinality(ahead[i]) \in Nat
    <3>1. IsFiniteSet(ahead[i])
      BY <1>1, FS_Subset
    <3> QED
      BY <3>1, FS_CardinalityType
  <2> QED
    BY <2>1
<1>3. ASSUME NEW i \in 1..n
      PROVE  rank[i] \in places
  <2>1. ahead[i] \in SUBSET (1..n) /\ ahead[i] # 1..n
    OBVIOUS
  <2>2. Cardinality(ahead[i]) <= n /\ Cardinality(ahead[i]) # n
    BY <1>1, <2>1, FS_Subset
  <2> QED
    BY <1>2, <2>2
<1>4. ASSUME NEW i \in 1..n, NEW j \in 1..n, j \in ahead[i]
      PROVE  rank[j] < rank[i]
  <2>1. ahead[j] \in SUBSET ahead[i] /\ ahead[j] # ahead[i]
    BY <1>4
  <2>2. Cardinality(ahead[j]) <= Cardinality(ahead[i]) /\ Cardinality(ahead[j]) # Cardinality(ahead[i])
    BY <1>2, <2>1, FS_Subset
  <2> QED
    BY <1>2, <2>2
<1>5. rank \in Injection(1..n, places)
  <2>1. rank \in [1..n -> places]
    BY <1>3
  <2>2. ASSUME NEW i \in 1..n, NEW j \in 1..n, i # j
        PROVE  rank[i] # rank[j]
    <3>1. rank[i] \in Nat /\ rank[j] \in Nat
      BY <1>2
    <3>2. rank[i] < rank[j] \/ rank[j] < rank[i]
      BY <1>4, <2>2
    <3> HIDE DEF rank
    <3> QED
      BY <3>1, <3>2
  <2> HIDE DEF rank
  <2> QED
    BY <2>1, <2>2 DEF Injection, IsInjective
<1>6. rank \in Surjection(1..n, places)
  <2> HIDE DEF rank, places
  <2> QED
    BY <1>1, <1>5, FS_Injection
<1>7. \A i \in 1..n : rank[i] = Cardinality(ahead[i]) /\ rank[i] \in Nat
  BY <1>2
<1> HIDE DEF rank
<1>8. IsFiniteSet(T)
  BY <1>1, FS_Subset
<1> DEFINE f == [i \in T |-> rank[i]]
<1>9. f \in Bijection(T, 0..(m - 1))
  <2>1. f \in [T -> 0..(m - 1)]
    BY <1>7
  <2>2. \A i, j \in T : f[i] = f[j] => i = j
    BY <1>5 DEF Injection, IsInjective
  <2>3. \A v \in 0..(m - 1) : \E i \in T : f[i] = v
    <3>1. ASSUME NEW v \in 0..(m - 1)
          PROVE  \E i \in T : f[i] = v
      <4>1. v \in places
        OBVIOUS
      <4>2. PICK i \in 1..n : rank[i] = v
        BY <1>6, <4>1 DEF Surjection
      <4>3. i \in T
        BY <1>7, <4>2
      <4> QED
        BY <4>2, <4>3
    <3> QED
      BY <3>1
  <2> HIDE DEF f, T
  <2> QED
    BY <2>1, <2>2, <2>3 DEF Bijection, Injection, IsInjective, Surjection
<1>10. ExistsBijection(T, 0..(m - 1))
  BY <1>9 DEF ExistsBijection
<1>11. Cardinality(0..(m - 1)) = Cardinality(T)
  <2> HIDE DEF T
  <2> QED
    BY <1>8, <1>10, FS_Bijection
<1> QED
  BY <1>1, <1>11

-----------------------------------------------------------------------------
(* Shares                                                                  *)

LEMMA DivMod ==
    ASSUME NEW x \in Int, NEW b \in Nat \ {0}
    PROVE  /\ x = (b * (x \div b)) + (x % b)
           /\ x \div b \in Int /\ x % b \in Int /\ 0 <= x % b /\ x % b <= b
  OBVIOUS

LEMMA Signed ==
    ASSUME NEW total \in Int
    PROVE  /\ Magnitude(total) \in Nat /\ SignOf(total) \in Int
           /\ SignOf(total) * Magnitude(total) = total
  BY DEF Magnitude, SignOf

(* A multiple of b between 0 and b times n is of one of 0..n.              *)
LEMMA Multiples ==
    ASSUME NEW b \in Nat \ {0}, NEW n \in Nat, NEW x \in Int,
           0 <= b * x, b * x <= b * n
    PROVE  x \in 0..n
<1>1. x >= 0
  <2>1. SUFFICES ASSUME x <= -1 PROVE FALSE
    OBVIOUS
  <2> QED
    BY <2>1
<1>2. x <= n
  <2>1. SUFFICES ASSUME x >= n + 1 PROVE FALSE
    OBVIOUS
  <2>2. b * (x - n) > 0 /\ b * (x - n) = (b * x) - (b * n)
    BY <2>1
  <2> QED
    BY <2>2
<1> QED
  BY <1>1, <1>2

(* The parts add up to the whole: what is handed out is what the floors    *)
(* leave, for those who are ahead of the rest.                             *)
LEMMA PortionsAddUp ==
    ASSUME NEW n \in Nat, NEW total \in Int, NEW w \in [1..n -> Nat], SumOf(w) > 0
    PROVE  /\ Portions(total, w, SumOf(w)) \in [1..n -> Int]
           /\ SumOf(Portions(total, w, SumOf(w))) = total
<1> DEFINE all == SumOf(w)
           a == Magnitude(total)
           due == [i \in 1..n |-> a * w[i]]
           floor == [i \in 1..n |-> due[i] \div all]
           left == [i \in 1..n |-> due[i] % all]
           floored == [i \in 1..n |-> all * floor[i]]
           rest == a - SumOf(floor)
           ahead == [i \in 1..n |-> {j \in 1..n : \/ left[j] > left[i]
                                                  \/ left[j] = left[i] /\ j < i}]
           first == {i \in 1..n : Cardinality(ahead[i]) < rest}
           extra == [i \in 1..n |-> IF i \in first THEN 1 ELSE 0]
           given == [i \in 1..n |-> floor[i] + extra[i]]
           parts == [i \in 1..n |-> SignOf(total) * given[i]]
<1>1. w \in [1..n -> Int] /\ all \in Nat \ {0}
  <2>1. w \in [1..n -> Int]
    OBVIOUS
  <2>2. SumOf(w) \in Int
    BY <2>1, SumIsPartial
  <2> QED
    BY <2>1, <2>2
<1>2. a \in Nat /\ SignOf(total) \in Int /\ SignOf(total) * a = total
  BY Signed
<1>3. Portions(total, w, all) = parts
  BY DEF Portions
<1> HIDE DEF all, a
<1>4. due \in [1..n -> Int] /\ \A i \in 1..n : due[i] = a * w[i]
  <2>1. \A i \in 1..n : a * w[i] \in Int
    BY <1>1, <1>2
  <2> QED
    BY <2>1
<1> HIDE DEF due
<1>5. \A i \in 1..n : due[i] = (all * (due[i] \div all)) + (due[i] % all)
                      /\ due[i] \div all \in Int /\ due[i] % all \in Int
                      /\ 0 <= due[i] % all /\ due[i] % all <= all
  BY <1>1, <1>4, DivMod
<1>6. /\ floor \in [1..n -> Int] /\ left \in [1..n -> Int]
      /\ \A i \in 1..n : due[i] = (all * floor[i]) + left[i] /\ 0 <= left[i] /\ left[i] <= all
  BY <1>5
<1> HIDE DEF floor, left
<1>7. floored \in [1..n -> Int] /\ \A i \in 1..n : floored[i] = all * floor[i]
  <2>1. \A i \in 1..n : all * floor[i] \in Int
    BY <1>1, <1>6
  <2> QED
    BY <2>1
<1> HIDE DEF floored
<1>8. SumOf(due) = a * all
  <2>1. a \in Int
    BY <1>2
  <2> QED
    BY <1>1, <1>4, <2>1, SumScaled DEF all
<1>9. SumOf(floored) = all * SumOf(floor)
  <2>1. all \in Int
    BY <1>1
  <2> QED
    BY <1>6, <1>7, <2>1, SumScaled
<1>10. SumOf(due) = SumOf(floored) + SumOf(left)
  <2>1. \A i \in 1..n : due[i] = floored[i] + left[i]
    BY <1>6, <1>7
  <2> QED
    BY <1>4, <1>6, <1>7, <2>1, SumAdded
<1>11. 0 <= SumOf(left) /\ SumOf(left) <= all * n
  BY <1>1, <1>6, SumBounds
<1>12. SumOf(floor) \in Int /\ SumOf(left) \in Int
  BY <1>6, SumIsPartial
<1>13. rest \in 0..n
  <2>1. all * (a - SumOf(floor)) = (a * all) - (all * SumOf(floor))
    BY <1>1, <1>2, <1>12
  <2>2. all * rest = SumOf(left)
    <3>1. (a * all) - (all * SumOf(floor)) = SumOf(left)
      <4>1. a * all \in Int /\ all * SumOf(floor) \in Int
        BY <1>1, <1>2, <1>12
      <4> QED
        BY <1>8, <1>9, <1>10, <1>12, <4>1
    <3> QED
      BY <2>1, <3>1
  <2>3. rest \in Int
    BY <1>2, <1>12
  <2> HIDE DEF rest
  <2> QED
    BY <1>1, <1>11, <2>2, <2>3, Multiples
<1>14. SumOf(floor) + rest = a
  BY <1>2, <1>12
<1> HIDE DEF rest
<1>15. Cardinality(first) = rest
  <2>1. ahead \in [1..n -> SUBSET (1..n)]
    OBVIOUS
  <2>2. ASSUME NEW i \in 1..n, NEW j \in 1..n
        PROVE  j \in ahead[i] <=> (left[j] > left[i] \/ (left[j] = left[i] /\ j < i))
    OBVIOUS
  <2> HIDE DEF ahead
  <2>3. \A i \in 1..n : i \notin ahead[i]
    BY <1>6, <2>2
  <2>4. ASSUME NEW i \in 1..n, NEW j \in 1..n, i # j
        PROVE  i \in ahead[j] \/ j \in ahead[i]
    <3>1. left[i] \in Int /\ left[j] \in Int
      BY <1>6
    <3>2. \/ left[i] > left[j] \/ (left[i] = left[j] /\ i < j)
          \/ left[j] > left[i] \/ (left[j] = left[i] /\ j < i)
      BY <2>4, <3>1
    <3> QED
      BY <2>2, <3>2
  <2>5. ASSUME NEW i \in 1..n, NEW j \in 1..n, j \in ahead[i]
        PROVE  ahead[j] \subseteq ahead[i]
    <3>1. ASSUME NEW k \in 1..n, k \in ahead[j]
          PROVE  k \in ahead[i]
      <4>1. left[j] > left[i] \/ (left[j] = left[i] /\ j < i)
        BY <2>2, <2>5
      <4>2. left[k] > left[j] \/ (left[k] = left[j] /\ k < j)
        BY <2>2, <3>1
      <4>3. left[i] \in Int /\ left[j] \in Int /\ left[k] \in Int
        BY <1>6
      <4>4. left[k] > left[i] \/ (left[k] = left[i] /\ k < i)
        BY <4>1, <4>2, <4>3
      <4> QED
        BY <2>2, <4>4
    <3> QED
      BY <2>1, <3>1
  <2>6. \A i, j \in 1..n : j \in ahead[i] => ahead[j] \subseteq ahead[i]
    BY <2>5
  <2> QED
    BY <1>13, <2>1, <2>3, <2>4, <2>6, RanksBelow
<1>16. extra \in [1..n -> Int] /\ SumOf(extra) = rest
  <2>1. first \in SUBSET (1..n)
    OBVIOUS
  <2> HIDE DEF first
  <2>2. extra \in [1..n -> Int] /\ \A i \in 1..n : extra[i] = IF i \in first THEN 1 ELSE 0
    OBVIOUS
  <2> HIDE DEF extra
  <2>3. SumOf(extra) = Cardinality(first)
    BY <2>1, <2>2, SumCounts
  <2> QED
    BY <1>15, <2>2, <2>3
<1> HIDE DEF extra, first
<1>17. given \in [1..n -> Int] /\ \A i \in 1..n : given[i] = floor[i] + extra[i]
  <2>1. \A i \in 1..n : floor[i] + extra[i] \in Int
    BY <1>6, <1>16
  <2> QED
    BY <2>1
<1> HIDE DEF given
<1>18. SumOf(given) = a
  BY <1>6, <1>14, <1>16, <1>17, SumAdded
<1>19. parts \in [1..n -> Int] /\ \A i \in 1..n : parts[i] = SignOf(total) * given[i]
  <2>1. \A i \in 1..n : SignOf(total) * given[i] \in Int
    BY <1>2, <1>17
  <2> QED
    BY <2>1
<1> HIDE DEF parts
<1>20. SumOf(parts) = SignOf(total) * SumOf(given)
  BY <1>2, <1>17, <1>19, SumScaled
<1> QED
  BY <1>2, <1>3, <1>18, <1>19, <1>20 DEF all

(* Weights that say something add up to more than nothing.                 *)
LEMMA WeightsAddUp ==
    ASSUME NEW n \in Nat \ {0}, NEW weights \in [1..n -> Int]
    PROVE  Weighted(weights) \in [1..n -> Nat] /\ SumOf(Weighted(weights)) > 0
<1> DEFINE kept == [i \in 1..n |-> IF weights[i] < 0 THEN 0 ELSE weights[i]]
           ones == [i \in 1..n |-> 1]
<1>1. Weighted(weights) = IF SumOf(kept) = 0 THEN ones ELSE kept
  BY DEF Weighted
<1>2. kept \in [1..n -> Nat] /\ kept \in [1..n -> Int]
  OBVIOUS
<1>3. ones \in [1..n -> Nat] /\ ones \in [1..n -> Int] /\ \A i \in 1..n : ones[i] = 1
  OBVIOUS
<1> HIDE DEF kept, ones
<1>4. SumOf(kept) >= 0 /\ SumOf(kept) \in Int
  <2> DEFINE p == Partial(kept, n)
             S == {k \in 0..n : p[k] >= 0}
  <2>1. /\ SumOf(kept) = p[n] /\ SumOf(kept) \in Int /\ p \in [0..n -> Int] /\ p[0] = 0
        /\ \A k \in 1..n : p[k] = p[k - 1] + kept[k]
    BY <1>2, SumIsPartial
  <2> HIDE DEF p
  <2>2. 0 \in S
    BY <2>1
  <2>3. ASSUME NEW k \in 1..n, k - 1 \in S
        PROVE  k \in S
    <3>1. kept[k] >= 0 /\ kept[k] \in Int /\ p[k] = p[k - 1] + kept[k] /\ p[k - 1] >= 0
      BY <1>2, <2>1, <2>3
    <3>2. p[k - 1] \in Int /\ k \in 0..n
      BY <2>1
    <3> QED
      BY <3>1, <3>2
  <2>4. n \in S
    <3>1. n \in 0..n
      OBVIOUS
    <3> HIDE DEF S
    <3> QED
      BY <2>2, <2>3, <3>1, Climb
  <2> QED
    BY <2>1, <2>4
<1>5. SumOf(ones) = n
  <2>1. Cardinality(1..n) = n
    BY FS_Interval
  <2>2. \A i \in 1..n : ones[i] = IF i \in 1..n THEN 1 ELSE 0
    BY <1>3
  <2> QED
    BY <1>3, <2>1, <2>2, SumCounts
<1> QED
  BY <1>1, <1>2, <1>3, <1>4, <1>5

(* No cent is lost or made when an amount of either sign is split, by any  *)
(* weights, negative and empty ones too: allocate of app/engine/money.ts   *)
(* and allocateTaxCents of app/engine/tax.ts.                              *)
THEOREM AllocationIsExact ==
    ASSUME NEW n \in Nat \ {0}, NEW total \in Int, NEW weights \in [1..n -> Int]
    PROVE  /\ Allocated(total, weights) \in [1..n -> Int]
           /\ SumOf(Allocated(total, weights)) = total
<1>1. Weighted(weights) \in [1..n -> Nat] /\ SumOf(Weighted(weights)) > 0
  BY WeightsAddUp
<1> QED
  BY <1>1, PortionsAddUp DEF Allocated, Shared

-----------------------------------------------------------------------------
(* Sums over sets of rows                                                  *)

(* The fold of the community modules, over the sets of D.                  *)
Pick(S) == CHOOSE x \in S : TRUE
FoldsUp(it, f, D) ==
    it = [S \in D |-> IF S = {} THEN 0 ELSE f[Pick(S)] + it[S \ {Pick(S)}]]

LEMMA PickOne ==
    ASSUME NEW S, IsFiniteSet(S), NEW U \in SUBSET S, U # {}
    PROVE  /\ Pick(U) \in U /\ Pick(U) \in S /\ U \ {Pick(U)} \in SUBSET S
           /\ Cardinality(U) \in Nat /\ Cardinality(U \ {Pick(U)}) = Cardinality(U) - 1
<1>1. Pick(U) \in U
  BY DEF Pick
<1>2. IsFiniteSet(U)
  BY FS_Subset
<1>3. Cardinality(U) \in Nat
  BY <1>2, FS_CardinalityType
<1>4. Cardinality(U \ {Pick(U)}) = Cardinality(U) - 1
  BY <1>1, <1>2, FS_RemoveElement
<1> QED
  BY <1>1, <1>3, <1>4

LEMMA FoldExists ==
    ASSUME NEW S, IsFiniteSet(S), NEW f \in [S -> Nat]
    PROVE  \E it : FoldsUp(it, f, SUBSET S)
<1> DEFINE n == Cardinality(S)
           small(k) == {U \in SUBSET S : Cardinality(U) <= k}
           Done == {k \in 0..n : \E it \in [small(k) -> Nat] : FoldsUp(it, f, small(k))}
<1>1. n \in Nat
  BY FS_CardinalityType
<1>2. 0 \in Done
  <2> DEFINE it == [U \in small(0) |-> 0]
  <2>1. \A U \in small(0) : U = {}
    <3>1. ASSUME NEW U \in small(0), U # {}
          PROVE  FALSE
      <4>1. Cardinality(U \ {Pick(U)}) = Cardinality(U) - 1 /\ U \ {Pick(U)} \in SUBSET S
            /\ Cardinality(U) \in Nat
        BY <3>1, PickOne
      <4>2. IsFiniteSet(U \ {Pick(U)})
        BY <4>1, FS_Subset
      <4>3. Cardinality(U \ {Pick(U)}) \in Nat
        BY <4>2, FS_CardinalityType
      <4> QED
        BY <4>1, <4>3
    <3> QED
      BY <3>1
  <2>2. it \in [small(0) -> Nat] /\ FoldsUp(it, f, small(0))
    <3> HIDE DEF small
    <3> QED
      BY <2>1 DEF FoldsUp
  <2>3. 0 \in 0..n
    BY <1>1
  <2> HIDE DEF it, small
  <2> QED
    BY <2>2, <2>3
<1>3. ASSUME NEW k \in 1..n, k - 1 \in Done
      PROVE  k \in Done
  <2>1. PICK it \in [small(k - 1) -> Nat] : FoldsUp(it, f, small(k - 1))
    BY <1>3
  <2> DEFINE g == [U \in small(k) |-> IF U = {} THEN 0 ELSE f[Pick(U)] + it[U \ {Pick(U)}]]
  <2>2. ASSUME NEW U \in small(k), U # {}
        PROVE  Pick(U) \in S /\ U \ {Pick(U)} \in small(k - 1) /\ U \ {Pick(U)} \in small(k)
    <3>1. U \in SUBSET S /\ Cardinality(U) <= k
      OBVIOUS
    <3>2. /\ Pick(U) \in S /\ U \ {Pick(U)} \in SUBSET S
          /\ Cardinality(U) \in Nat /\ Cardinality(U \ {Pick(U)}) = Cardinality(U) - 1
      BY <2>2, <3>1, PickOne
    <3> QED
      BY <1>1, <3>1, <3>2
  <2>3. small(k - 1) \subseteq small(k)
    <3>1. ASSUME NEW U \in small(k - 1)
          PROVE  U \in small(k)
      <4>1. U \in SUBSET S /\ Cardinality(U) <= k - 1
        OBVIOUS
      <4>2. IsFiniteSet(U)
        BY <4>1, FS_Subset
      <4>3. Cardinality(U) \in Nat
        BY <4>2, FS_CardinalityType
      <4> QED
        BY <1>1, <4>1, <4>3
    <3> QED
      BY <3>1
  <2> HIDE DEF small
  <2>4. \A U \in small(k - 1) : g[U] = it[U]
    BY <2>1, <2>3 DEF FoldsUp
  <2>5. g \in [small(k) -> Nat]
    <3>1. ASSUME NEW U \in small(k)
          PROVE  (IF U = {} THEN 0 ELSE f[Pick(U)] + it[U \ {Pick(U)}]) \in Nat
      <4>1. CASE U # {}
        <5>1. f[Pick(U)] \in Nat /\ it[U \ {Pick(U)}] \in Nat
          BY <2>1, <2>2, <4>1
        <5> QED
          BY <4>1, <5>1
      <4> QED
        BY <4>1
    <3> QED
      BY <3>1
  <2>6. g = [U \in small(k) |-> IF U = {} THEN 0 ELSE f[Pick(U)] + g[U \ {Pick(U)}]]
    <3>1. \A U \in small(k) : U # {} => g[U \ {Pick(U)}] = it[U \ {Pick(U)}]
      BY <2>2, <2>4
    <3> QED
      BY <3>1
  <2> HIDE DEF g
  <2>7. FoldsUp(g, f, small(k))
    BY <2>6 DEF FoldsUp
  <2>8. k \in 0..n
    BY <1>1
  <2> QED
    BY <2>5, <2>7, <2>8
<1>4. n \in Done
  <2>1. n \in 0..n
    BY <1>1
  <2> HIDE DEF Done
  <2> QED
    BY <1>1, <1>2, <1>3, <2>1, Climb
<1>5. small(n) = SUBSET S
  <2>1. \A U \in SUBSET S : Cardinality(U) <= n
    BY FS_Subset
  <2> QED
    BY <2>1
<1> HIDE DEF small
<1> QED
  BY <1>4, <1>5

LEMMA FoldIsNat ==
    ASSUME NEW S, IsFiniteSet(S), NEW f \in [S -> Nat], NEW it, FoldsUp(it, f, SUBSET S)
    PROVE  it[S] \in Nat /\ it[{}] = 0
<1> DEFINE n == Cardinality(S)
           Done == {k \in 0..n : \A U \in SUBSET S : Cardinality(U) = k => it[U] \in Nat}
<1>1. n \in Nat
  BY FS_CardinalityType
<1>2. \A U \in SUBSET S :
         it[U] = IF U = {} THEN 0 ELSE f[Pick(U)] + it[U \ {Pick(U)}]
  BY DEF FoldsUp
<1>3. it[{}] = 0
  BY <1>2
<1>4. 0 \in Done
  <2>1. ASSUME NEW U \in SUBSET S, Cardinality(U) = 0
        PROVE  it[U] \in Nat
    <3>1. IsFiniteSet(U)
      BY FS_Subset
    <3>2. U = {}
      BY <2>1, <3>1, FS_EmptySet
    <3> QED
      BY <1>3, <3>2
  <2> QED
    BY <1>1, <2>1
<1>5. ASSUME NEW k \in 1..n, k - 1 \in Done
      PROVE  k \in Done
  <2>1. ASSUME NEW U \in SUBSET S, Cardinality(U) = k
        PROVE  it[U] \in Nat
    <3>1. k # 0 /\ U # {}
      BY <1>1, <2>1, FS_EmptySet
    <3>2. Pick(U) \in S /\ U \ {Pick(U)} \in SUBSET S /\ Cardinality(U \ {Pick(U)}) = k - 1
      BY <2>1, <3>1, PickOne
    <3>3. it[U \ {Pick(U)}] \in Nat
      BY <1>5, <3>2
    <3>4. f[Pick(U)] \in Nat
      BY <3>2
    <3> QED
      BY <1>2, <3>1, <3>3, <3>4
  <2> QED
    BY <1>1, <2>1
<1>6. n \in Done
  <2>1. n \in 0..n
    BY <1>1
  <2> HIDE DEF Done
  <2> QED
    BY <1>1, <1>4, <1>5, <2>1, Climb
<1> QED
  BY <1>3, <1>6

(* Whatever a row counts for, the sum over no rows is nothing.             *)
LEMMA RowSums ==
    ASSUME NEW S, IsFiniteSet(S), \A x \in S : x.of.cents \in Nat /\ x.of.count \in Nat
    PROVE  /\ MapThenSumSet(Cents, S) \in Nat /\ MapThenSumSet(Count, S) \in Nat
           /\ S = {} => MapThenSumSet(Cents, S) = 0 /\ MapThenSumSet(Count, S) = 0
<1>1. MapThenSumSet(Cents, S) \in Nat /\ (S = {} => MapThenSumSet(Cents, S) = 0)
  <2> DEFINE f == [x \in S |-> x.of.cents]
             Sums(it) == it = [U \in SUBSET S |->
                                 IF U = {} THEN 0
                                 ELSE (CHOOSE x \in U : TRUE).of.cents
                                      + it[U \ {CHOOSE x \in U : TRUE}]]
             h == CHOOSE it : Sums(it)
  <2>1. f \in [S -> Nat]
    OBVIOUS
  <2>2. \A U \in SUBSET S : U # {} => f[Pick(U)] = (CHOOSE x \in U : TRUE).of.cents
    BY DEF Pick
  <2> HIDE DEF f
  <2>3. ASSUME NEW it PROVE Sums(it) <=> FoldsUp(it, f, SUBSET S)
    BY <2>2 DEF FoldsUp, Pick
  <2>4. \E it : Sums(it)
    <3>1. PICK it : FoldsUp(it, f, SUBSET S)
      BY <2>1, FoldExists
    <3>2. Sums(it)
      BY <2>3, <3>1
    <3> HIDE DEF Sums
    <3> QED
      BY <3>2
  <2>5. Sums(h)
    BY <2>4
  <2>6. MapThenSumSet(Cents, S) = h[S]
    BY DEF MapThenSumSet, MapThenFoldSet, Cents
  <2> HIDE DEF h
  <2>7. FoldsUp(h, f, SUBSET S)
    BY <2>3, <2>5
  <2> QED
    BY <2>1, <2>6, <2>7, FoldIsNat
<1>2. MapThenSumSet(Count, S) \in Nat /\ (S = {} => MapThenSumSet(Count, S) = 0)
  <2> DEFINE f == [x \in S |-> x.of.count]
             Sums(it) == it = [U \in SUBSET S |->
                                 IF U = {} THEN 0
                                 ELSE (CHOOSE x \in U : TRUE).of.count
                                      + it[U \ {CHOOSE x \in U : TRUE}]]
             h == CHOOSE it : Sums(it)
  <2>1. f \in [S -> Nat]
    OBVIOUS
  <2>2. \A U \in SUBSET S : U # {} => f[Pick(U)] = (CHOOSE x \in U : TRUE).of.count
    BY DEF Pick
  <2> HIDE DEF f
  <2>3. ASSUME NEW it PROVE Sums(it) <=> FoldsUp(it, f, SUBSET S)
    BY <2>2 DEF FoldsUp, Pick
  <2>4. \E it : Sums(it)
    <3>1. PICK it : FoldsUp(it, f, SUBSET S)
      BY <2>1, FoldExists
    <3>2. Sums(it)
      BY <2>3, <3>1
    <3> HIDE DEF Sums
    <3> QED
      BY <3>2
  <2>5. Sums(h)
    BY <2>4
  <2>6. MapThenSumSet(Count, S) = h[S]
    BY DEF MapThenSumSet, MapThenFoldSet, Count
  <2> HIDE DEF h
  <2>7. FoldsUp(h, f, SUBSET S)
    BY <2>3, <2>5
  <2> QED
    BY <2>1, <2>6, <2>7, FoldIsNat
<1> QED
  BY <1>1, <1>2

(* What a reader knows.                                                    *)
Row    == [source : Sources, id : Labels, of : Label]
Reader == [pc : {"idle", "held", "match", "store", "settle", "write", "end"}, source : Sources,
           known : BOOLEAN, left : SUBSET Labels, took : [Labels -> Label \cup {NoLabel}],
           hit : BOOLEAN, rows : SUBSET Row, fills : SUBSET Parcels, fresh : BOOLEAN]

(* CarrierTypeOK, with the whole of what the readers know; a row counts by *)
(* its label.                                                              *)
CarrierColumns ==
    /\ CarrierTypeOK
    /\ reader \in [Readers -> Reader]
    /\ \A s \in Sources, l \in Labels :
          obs[s][l].status = "MATCHED" => obs[s][l].of \in Label
    /\ \A r \in Readers :
          /\ \A l \in reader[r].left : reader[r].took[l] \in Label
          /\ IsFiniteSet(reader[r].rows)
          /\ reader[r].pc \in {"settle", "write"} => reader[r].fills # {}

(* A reader at work has its connector's lease.                             *)
LeaseHeld == \A r \in Readers : reader[r].pc # "idle" => holder[reader[r].source] = r

(* Nothing is matched to an order before it is stored, nor by a reader     *)
(* that has not seen it.                                                   *)
UnseenIsFree ==
    /\ ~known => /\ \A s \in Sources, l \in Labels : ~obs[s][l].order
                 /\ \A f \in Parcels : cost[f] = 0
    /\ \A r \in Readers :
          /\ reader[r].known \/ reader[r].hit \/ reader[r].pc \in {"settle", "write"} => known
          /\ reader[r].pc = "store" /\ ~reader[r].known =>
                \A l \in Labels : ~obs[reader[r].source][l].order

(* A label names the same order whenever it is read.                       *)
NamesStay ==
    /\ \A s \in Sources, l \in Labels : obs[s][l].order => label[s][l].names
    /\ \A r \in Readers : \A l \in reader[r].left :
          reader[r].took[l].names = label[reader[r].source][l].names

(* What is left to count of rows when conflicts have been set aside.       *)
Kept(rows) == IF rows # {} /\ Chosen(rows).conflict
              THEN {x \in rows : x.source = Chosen(rows).source} ELSE rows

(* What a reader has read, as long as no other has written.                *)
ReadIsFresh ==
    \A r \in Readers : reader[r].fresh =>
        /\ reader[r].pc = "settle" => reader[r].rows = MatchedRows /\ reader[r].fills = parcels
        /\ reader[r].pc = "write" =>
              MatchedRows = Kept(reader[r].rows) /\ reader[r].fills = parcels

(* The parcels carry one source's total, or some reader will write it.     *)
Carried == IF MatchedRows = {} THEN CostOf(parcels) = 0
           ELSE \E s \in Sources :
                  /\ CostOf(parcels) = TotalOf(MatchedRows, s).cents
                  /\ \A t \in Sources : TotalOf(MatchedRows, t).labels
                                        <= TotalOf(MatchedRows, s).labels
Owing(i) == i.pc \in {"settle", "write"} \/ (i.pc = "store" /\ i.hit)
WritesAreOwed ==
    clean /\ known /\ parcels # {} => Carried \/ \E r \in Readers : Owing(reader[r])

CarrierInv == LeaseHeld /\ UnseenIsFree /\ NamesStay /\ ReadIsFresh /\ WritesAreOwed

LEMMA Latest ==
    ASSUME NEW S, IsFiniteSet(S), S # {}, NEW f \in [S -> Nat]
    PROVE  \E x \in S : \A y \in S : f[y] <= f[x]
<1> DEFINE n == Cardinality(S)
           HasLast(U) == \E x \in U : \A y \in U : f[y] <= f[x]
           Done == {k \in 0..n : \A U \in SUBSET S : Cardinality(U) = k /\ U # {} => HasLast(U)}
<1>1. n \in Nat
  BY FS_CardinalityType
<1>2. 0 \in Done
  <2>1. \A U \in SUBSET S : Cardinality(U) = 0 => U = {}
    BY FS_Subset, FS_EmptySet
  <2> QED
    BY <1>1, <2>1
<1>3. ASSUME NEW k \in 1..n, k - 1 \in Done
      PROVE  k \in Done
  <2>1. ASSUME NEW U \in SUBSET S, Cardinality(U) = k, U # {}
        PROVE  HasLast(U)
    <3> DEFINE a == Pick(U)
               V == U \ {a}
    <3>1. a \in U /\ a \in S /\ V \in SUBSET S /\ Cardinality(V) = k - 1
      BY <2>1, PickOne
    <3> HIDE DEF a
    <3>2. CASE V = {}
      <4>1. U = {a} /\ f[a] \in Nat
        BY <3>1, <3>2
      <4> QED
        BY <4>1
    <3>3. CASE V # {}
      <4>1. PICK x \in V : \A y \in V : f[y] <= f[x]
        BY <1>3, <3>1, <3>3
      <4>2. f[a] \in Nat /\ f[x] \in Nat /\ \A y \in U : f[y] \in Nat
        BY <3>1
      <4>3. CASE f[a] <= f[x]
        BY <4>1, <4>2, <4>3
      <4>4. CASE f[x] <= f[a]
        <5>1. \A y \in U : f[y] <= f[a]
          <6> SUFFICES ASSUME NEW y \in U PROVE f[y] <= f[a]
            OBVIOUS
          <6>1. CASE y = a
            BY <4>2, <6>1
          <6>2. CASE y # a
            BY <4>1, <4>2, <4>4, <6>2
          <6> QED
            BY <6>1, <6>2
        <5> QED
          BY <3>1, <5>1
      <4> QED
        BY <4>2, <4>3, <4>4
    <3> QED
      BY <3>2, <3>3
  <2> QED
    BY <1>1, <2>1
<1>4. n \in Done
  <2>1. n \in 0..n
    BY <1>1
  <2> HIDE DEF Done
  <2> QED
    BY <1>1, <1>2, <1>3, <2>1, Climb
<1> QED
  BY <1>4

LEMMA RowFieldsOf ==
    ASSUME NEW x \in Row
    PROVE  /\ x.source \in Sources /\ x.of.cents \in Nat /\ x.of.count \in Nat
           /\ x.of.at \in Nat
  BY DEF Row, Label

LEMMA TotalTypes ==
    ASSUME NEW rows \in SUBSET Row, IsFiniteSet(rows), NEW s
    PROVE  /\ TotalOf(rows, s).source = s /\ TotalOf(rows, s).cents \in Nat
           /\ TotalOf(rows, s).labels \in Nat /\ TotalOf(rows, s).newest \in Nat
           /\ (\A x \in rows : x.source # s) => TotalOf(rows, s).labels = 0
<1> DEFINE mine == {x \in rows : x.source = s}
           newest == IF mine = {} THEN 0
                     ELSE CHOOSE t \in {x.of.at : x \in mine} :
                            \A x \in mine : x.of.at <= t
<1>1. IsFiniteSet(mine) /\ mine \in SUBSET Row
  <2>1. mine \in SUBSET rows
    OBVIOUS
  <2> QED
    BY <2>1, FS_Subset
<1>2. \A x \in mine : x.of.cents \in Nat /\ x.of.count \in Nat /\ x.of.at \in Nat
  BY <1>1, RowFieldsOf
<1>3. TotalOf(rows, s) = [source |-> s, cents |-> MapThenSumSet(Cents, mine),
                          labels |-> MapThenSumSet(Count, mine), newest |-> newest]
  BY DEF TotalOf
<1>4. (\A x \in rows : x.source # s) => mine = {}
  OBVIOUS
<1> HIDE DEF mine
<1>5. /\ MapThenSumSet(Cents, mine) \in Nat /\ MapThenSumSet(Count, mine) \in Nat
      /\ mine = {} => MapThenSumSet(Count, mine) = 0
  BY <1>1, <1>2, RowSums
<1>6. newest \in Nat
  <2>1. CASE mine # {}
    <3> DEFINE f == [x \in mine |-> x.of.at]
               Last(t) == \A x \in mine : x.of.at <= t
    <3>1. f \in [mine -> Nat]
      BY <1>2
    <3>2. PICK x \in mine : \A y \in mine : f[y] <= f[x]
      <4> HIDE DEF f
      <4> QED
        BY <1>1, <2>1, <3>1, Latest
    <3>3. \E t \in {z.of.at : z \in mine} : Last(t)
      BY <3>2
    <3>4. newest = CHOOSE t \in {z.of.at : z \in mine} : Last(t)
      BY <2>1
    <3>5. newest \in {z.of.at : z \in mine}
      <4> HIDE DEF newest, Last
      <4> QED
        BY <3>3, <3>4
    <3> QED
      BY <1>2, <3>5
  <2> QED
    BY <2>1
<1> QED
  BY <1>3, <1>4, <1>5, <1>6

(* One of the sources is chosen, and none has more labels.                 *)
LEMMA ChosenTotal ==
    ASSUME NEW rows \in SUBSET Row, IsFiniteSet(rows), rows # {}
    PROVE  LET s == Chosen(rows).source IN
           /\ s \in Sources /\ \E x \in rows : x.source = s
           /\ Chosen(rows).cents = TotalOf(rows, s).cents /\ Chosen(rows).cents \in Nat
           /\ \A t \in Sources : TotalOf(rows, t).labels <= TotalOf(rows, s).labels
           /\ Chosen(rows).conflict \in BOOLEAN
<1> DEFINE seen == {x.source : x \in rows}
           Total(s) == TotalOf(rows, s)
           totals == {Total(s) : s \in seen}
           Beats(a, b) == \/ a.labels > b.labels
                          \/ a.labels = b.labels /\ a.newest > b.newest
                          \/ a.labels = b.labels /\ a.newest = b.newest
                             /\ (a.source = FirstSource \/ a = b)
           Wins(a) == \A b \in totals : Beats(a, b)
           best == CHOOSE a \in totals : Wins(a)
<1>1. seen \subseteq Sources /\ seen # {}
  BY RowFieldsOf
<1>2. \A s : /\ Total(s).source = s /\ Total(s).cents \in Nat /\ Total(s).labels \in Nat
             /\ Total(s).newest \in Nat
             /\ s \notin seen => Total(s).labels = 0
  BY TotalTypes
<1>3. Chosen(rows) = [source |-> best.source, cents |-> best.cents,
                      conflict |-> \E t \in totals : t.cents # best.cents]
  BY DEF Chosen
<1> HIDE DEF Total
<1>4. \E a \in totals : Wins(a)
  <2>1. PICK s \in seen : TRUE
    BY <1>1
  <2>2. CASE seen = {s}
    <3>1. totals = {Total(s)}
      BY <2>2
    <3>2. Beats(Total(s), Total(s))
      OBVIOUS
    <3> QED
      BY <3>1, <3>2
  <2>3. CASE seen # {s}
    <3>1. PICK t \in seen : t # s
      BY <2>3
    <3>2. \A u, v \in Sources \ {FirstSource} : u = v
      BY CarriersAssumption
    <3>3. s = FirstSource \/ t = FirstSource
      BY <1>1, <3>1, <3>2
    <3>4. seen = {s, t}
      BY <1>1, <3>1, <3>2
    <3>5. totals = {Total(s), Total(t)}
      BY <3>4
    <3>6. Beats(Total(s), Total(s)) /\ Beats(Total(t), Total(t))
      OBVIOUS
    <3>7. Beats(Total(s), Total(t)) \/ Beats(Total(t), Total(s))
      BY <1>2, <3>3
    <3> HIDE DEF Beats, totals
    <3> QED
      BY <3>5, <3>6, <3>7
  <2> QED
    BY <2>2, <2>3
<1>5. best \in totals /\ Wins(best)
  <2> HIDE DEF totals, Wins
  <2> QED
    BY <1>4
<1>6. PICK s \in seen : best = Total(s)
  BY <1>5
<1> HIDE DEF best
<1>7. ASSUME NEW t \in Sources
      PROVE  Total(t).labels <= Total(s).labels
  <2>1. CASE t \in seen
    <3>1. Beats(Total(s), Total(t))
      BY <1>5, <1>6, <2>1
    <3> QED
      BY <1>2, <3>1
  <2>2. CASE t \notin seen
    BY <1>2, <2>2
  <2> QED
    BY <2>1, <2>2
<1>8. Chosen(rows).source = s /\ Chosen(rows).cents = Total(s).cents
      /\ Chosen(rows).conflict \in BOOLEAN
  BY <1>2, <1>3, <1>6
<1>9. s \in Sources /\ \E x \in rows : x.source = s
  BY <1>1
<1> QED
  BY <1>2, <1>7, <1>8, <1>9 DEF Total

(* The places of the fulfilments that were read, in the order of creation. *)
Counted(fills, k) == Cardinality({e \in fills : e <= k})

LEMMA Places ==
    ASSUME NEW N \in Nat, NEW fills \in SUBSET (1..N)
    PROVE  /\ Counted(fills, 0) = 0 /\ Counted(fills, N) = Cardinality(fills)
           /\ \A k \in 0..N : Counted(fills, k) \in 0..Cardinality(fills)
           /\ \A k \in 1..N : Counted(fills, k) = Counted(fills, k - 1)
                                                  + (IF k \in fills THEN 1 ELSE 0)
           /\ IsFiniteSet(fills) /\ Cardinality(fills) \in Nat
<1> DEFINE upTo(k) == {e \in fills : e <= k}
<1>0. \A e \in fills : e \in Nat /\ 1 <= e /\ e <= N
  OBVIOUS
<1>1. IsFiniteSet(fills) /\ Cardinality(fills) \in Nat
  <2>1. IsFiniteSet(1..N)
    BY FS_Interval
  <2>2. IsFiniteSet(fills)
    BY <2>1, FS_Subset
  <2> QED
    BY <2>2, FS_CardinalityType
<1>2. ASSUME NEW k \in 0..N
      PROVE  IsFiniteSet(upTo(k)) /\ Counted(fills, k) \in 0..Cardinality(fills)
  <2>1. upTo(k) \in SUBSET fills
    OBVIOUS
  <2>2. IsFiniteSet(upTo(k)) /\ Cardinality(upTo(k)) <= Cardinality(fills)
    BY <1>1, <2>1, FS_Subset
  <2>3. Cardinality(upTo(k)) \in Nat
    BY <2>2, FS_CardinalityType
  <2> QED
    BY <1>1, <2>2, <2>3 DEF Counted
<1>3. Counted(fills, 0) = 0
  <2>1. upTo(0) = {}
    <3>1. \A e \in fills : ~(e <= 0)
      BY <1>0
    <3> QED
      BY <3>1
  <2>2. Cardinality(upTo(0)) = 0
    BY <2>1, FS_EmptySet
  <2> QED
    BY <2>2 DEF Counted
<1>4. Counted(fills, N) = Cardinality(fills)
  <2>1. upTo(N) = fills
    BY <1>0
  <2> QED
    BY <2>1 DEF Counted
<1>5. ASSUME NEW k \in 1..N
      PROVE  Counted(fills, k) = Counted(fills, k - 1) + (IF k \in fills THEN 1 ELSE 0)
  <2>1. k - 1 \in 0..N /\ k \in 0..N
    OBVIOUS
  <2>2. IsFiniteSet(upTo(k - 1)) /\ Cardinality(upTo(k - 1)) \in Nat
    BY <1>2, <2>1, FS_CardinalityType
  <2>3. CASE k \in fills
    <3>1. upTo(k) = upTo(k - 1) \cup {k} /\ k \notin upTo(k - 1)
      <4>1. \A e \in fills : e <= k <=> e <= k - 1 \/ e = k
        BY <1>0
      <4>2. ~(k <= k - 1)
        OBVIOUS
      <4> QED
        BY <2>3, <4>1, <4>2
    <3>2. Cardinality(upTo(k - 1) \cup {k}) = Cardinality(upTo(k - 1)) + 1
      BY <2>2, <3>1, FS_AddElement
    <3> QED
      BY <2>3, <3>1, <3>2 DEF Counted
  <2>4. CASE k \notin fills
    <3>1. upTo(k) = upTo(k - 1)
      <4>1. \A e \in fills : e <= k <=> e <= k - 1 \/ e = k
        BY <1>0
      <4> QED
        BY <2>4, <4>1
    <3>2. Counted(fills, k) = Counted(fills, k - 1) /\ Counted(fills, k - 1) \in Nat
      BY <2>2, <3>1 DEF Counted
    <3> QED
      BY <2>4, <3>2
  <2> QED
    BY <2>3, <2>4
<1> QED
  BY <1>1, <1>2, <1>3, <1>4, <1>5

LEMMA PlacesCover ==
    ASSUME NEW N \in Nat, NEW fills \in SUBSET (1..N), NEW j \in 1..Cardinality(fills)
    PROVE  \E f \in fills : Counted(fills, f) = j
<1> DEFINE late == {k \in 0..N : Counted(fills, k) >= j}
<1>1. Cardinality(fills) \in Nat /\ \A k \in 0..N : Counted(fills, k) \in Nat
  BY Places
<1>2. late \in SUBSET Nat /\ N \in late
  BY <1>1, Places
<1>3. PICK k \in late : \A i \in late : k <= i
  <2> HIDE DEF late
  <2> QED
    BY <1>2, NatsHaveLeast
<1>4. k # 0
  <2>1. Counted(fills, 0) = 0 /\ ~(0 >= j)
    BY Places
  <2> QED
    BY <2>1
<1>5. k \in 1..N /\ k - 1 \in 0..N /\ ~(k <= k - 1)
  BY <1>4
<1>6. ~(Counted(fills, k - 1) >= j)
  BY <1>3, <1>5
<1>7. Counted(fills, k) = Counted(fills, k - 1) + (IF k \in fills THEN 1 ELSE 0)
  BY <1>5, Places
<1>8. Counted(fills, k) >= j /\ Counted(fills, k) \in Nat /\ Counted(fills, k - 1) \in Nat
  BY <1>1, <1>5
<1>9. k \in fills /\ Counted(fills, k) = j
  BY <1>1, <1>6, <1>7, <1>8
<1> QED
  BY <1>9

(* The parts of an amount, and that the parcels that get them have it all. *)
Parts(total, fills) ==
    Allocated(total, [j \in 1..Cardinality(fills) |->
                        Items[CHOOSE f \in fills : Counted(fills, f) = j]])

LEMMA PartsTyped ==
    ASSUME NEW fills \in SUBSET Parcels, fills # {}, NEW total \in Int
    PROVE  /\ Parts(total, fills) \in [1..Cardinality(fills) -> Int]
           /\ SumOf(Parts(total, fills)) = total
           /\ \A f \in fills : Counted(fills, f) \in 1..Cardinality(fills)
<1> DEFINE N == Cardinality(Parcels)
           n == Cardinality(fills)
           at(j) == CHOOSE f \in fills : Counted(fills, f) = j
           weights == [j \in 1..n |-> Items[at(j)]]
<1>1. N \in Nat /\ Parcels = 1..N /\ fills \in SUBSET (1..N)
  BY CarriersAssumption, FS_CardinalityType
<1> HIDE DEF N
<1>2. n \in Nat \ {0}
  BY <1>1, Places, FS_EmptySet
<1>3. \A j \in 1..n : at(j) \in fills
  BY <1>1, PlacesCover
<1>4. weights \in [1..n -> Int]
  <2>1. Items \in [Parcels -> Nat]
    BY CarriersAssumption
  <2>2. \A j \in 1..n : Items[at(j)] \in Int
    BY <1>3, <2>1
  <2> QED
    BY <2>2
<1>5. Parts(total, fills) = Allocated(total, weights)
  BY DEF Parts
<1> HIDE DEF weights, n
<1>6. /\ Allocated(total, weights) \in [1..n -> Int]
      /\ SumOf(Allocated(total, weights)) = total
  BY <1>2, <1>4, AllocationIsExact
<1>7. ASSUME NEW f \in fills
      PROVE  Counted(fills, f) \in 1..n
  <2>1. f \in 1..N /\ f \in 0..N /\ f - 1 \in 0..N
    BY <1>1
  <2>2. Counted(fills, f) = Counted(fills, f - 1) + (IF f \in fills THEN 1 ELSE 0)
    BY <1>1, <2>1, Places
  <2>3. \A k \in 0..N : Counted(fills, k) \in 0..n
    BY <1>1, Places DEF n
  <2>4. Counted(fills, f) \in 0..n /\ Counted(fills, f - 1) \in 0..n
    BY <2>1, <2>3
  <2> QED
    BY <1>2, <2>2, <2>4
<1> QED
  BY <1>5, <1>6, <1>7 DEF n

LEMMA PartsAddUp ==
    ASSUME NEW fills \in SUBSET Parcels, fills # {}, NEW total \in Int, NEW c \in [Parcels -> Int],
           \A f \in fills : c[f] = Parts(total, fills)[Counted(fills, f)]
    PROVE  SumOf([f \in Parcels |-> IF f \in fills THEN c[f] ELSE 0]) = total
<1> DEFINE N == Cardinality(Parcels)
           n == Cardinality(fills)
           parts == Parts(total, fills)
           p == Partial(parts, n)
           e == [f \in 1..N |-> IF f \in fills THEN c[f] ELSE 0]
           h == [k \in 0..N |-> p[Counted(fills, k)]]
<1>1. N \in Nat /\ Parcels = 1..N /\ fills \in SUBSET (1..N)
  BY CarriersAssumption, FS_CardinalityType
<1>2. [f \in Parcels |-> IF f \in fills THEN c[f] ELSE 0] = e
  BY <1>1
<1> HIDE DEF N
<1>3. /\ parts \in [1..n -> Int] /\ SumOf(parts) = total
      /\ \A f \in fills : Counted(fills, f) \in 1..n
  BY PartsTyped
<1>4. n \in Nat
  BY <1>1, Places
<1> HIDE DEF parts, n
<1>5. /\ SumOf(parts) = p[n] /\ p \in [0..n -> Int] /\ p[0] = 0
      /\ \A k \in 1..n : p[k] = p[k - 1] + parts[k]
  BY <1>3, <1>4, SumIsPartial
<1> HIDE DEF p
<1>6. e \in [1..N -> Int] /\ \A k \in 1..N : e[k] = IF k \in fills THEN c[k] ELSE 0
  BY <1>1
<1> HIDE DEF e
<1>7. \A k \in 0..N : Counted(fills, k) \in 0..n
  BY <1>1, Places DEF n
<1>8. h \in [0..N -> Int] /\ \A k \in 0..N : h[k] = p[Counted(fills, k)]
  BY <1>5, <1>7
<1> HIDE DEF h
<1>9. h[0] = 0 /\ h[N] = p[n]
  <2>1. 0 \in 0..N /\ N \in 0..N
    BY <1>1
  <2>2. Counted(fills, 0) = 0 /\ Counted(fills, N) = n
    BY <1>1, Places DEF n
  <2> QED
    BY <1>5, <1>8, <2>1, <2>2
<1>10. ASSUME NEW k \in 1..N
       PROVE  h[k] = h[k - 1] + e[k]
  <2>1. k \in 0..N /\ k - 1 \in 0..N
    BY <1>1
  <2>2. Counted(fills, k) = Counted(fills, k - 1) + (IF k \in fills THEN 1 ELSE 0)
    BY <1>1, Places
  <2>3. h[k] = p[Counted(fills, k)] /\ h[k - 1] = p[Counted(fills, k - 1)] /\ h[k - 1] \in Int
    BY <1>8, <2>1
  <2>4. Counted(fills, k - 1) \in 0..n
    BY <1>7, <2>1
  <2>5. CASE k \in fills
    <3>1. Counted(fills, k) \in 1..n /\ Counted(fills, k) - 1 = Counted(fills, k - 1)
      BY <1>3, <1>4, <2>2, <2>4, <2>5
    <3>2. p[Counted(fills, k)] = p[Counted(fills, k) - 1] + parts[Counted(fills, k)]
      BY <1>5, <3>1
    <3>3. e[k] = parts[Counted(fills, k)]
      BY <1>6, <2>5 DEF parts
    <3> QED
      BY <2>3, <3>1, <3>2, <3>3
  <2>6. CASE k \notin fills
    <3>1. Counted(fills, k) = Counted(fills, k - 1)
      BY <1>4, <2>2, <2>4, <2>6
    <3>2. e[k] = 0
      BY <1>6, <2>6
    <3> QED
      BY <2>3, <3>1, <3>2
  <2> QED
    BY <2>5, <2>6
<1>11. AddsUp(h, e, N)
  BY <1>8, <1>9, <1>10 DEF AddsUp
<1>12. SumOf(e) = h[N]
  BY <1>1, <1>6, <1>11, SumsTo
<1> QED
  BY <1>2, <1>3, <1>5, <1>9, <1>12

LEMMA NothingAddsUp ==
    ASSUME NEW fills, NEW c \in [Parcels -> Int], \A f \in fills \cap Parcels : c[f] = 0
    PROVE  SumOf([f \in Parcels |-> IF f \in fills THEN c[f] ELSE 0]) = 0
<1> DEFINE e == [f \in Parcels |-> IF f \in fills THEN c[f] ELSE 0]
<1>1. Cardinality(Parcels) \in Nat /\ Parcels = 1..Cardinality(Parcels)
  BY CarriersAssumption, FS_CardinalityType
<1>2. e = [k \in 1..Cardinality(Parcels) |-> 0]
  BY <1>1
<1> HIDE DEF e
<1>3. e \in [1..Cardinality(Parcels) -> Int]
      /\ \A k \in 1..Cardinality(Parcels) : e[k] = IF k \in {} THEN 1 ELSE 0
  BY <1>2
<1>4. SumOf(e) = Cardinality({})
  BY <1>1, <1>3, SumCounts
<1>5. SumOf(e) = 0
  BY <1>4, FS_EmptySet
<1> QED
  BY <1>5 DEF e

-----------------------------------------------------------------------------
(* What the rows and the readers are                                       *)

LEMMA TwoSources == IsFiniteSet(Sources) /\ FirstSource \in Sources
<1>1. FirstSource \in Sources /\ \A s, t \in Sources \ {FirstSource} : s = t
  BY CarriersAssumption
<1>2. IsFiniteSet({FirstSource})
  BY FS_Singleton
<1>3. CASE Sources = {FirstSource}
  BY <1>1, <1>2, <1>3
<1>4. CASE Sources # {FirstSource}
  <2>1. PICK s \in Sources : s # FirstSource
    BY <1>1, <1>4
  <2>2. Sources = {FirstSource} \cup {s}
    BY <1>1, <2>1
  <2>3. IsFiniteSet({FirstSource} \cup {s})
    BY <1>2, FS_AddElement
  <2> QED
    BY <1>1, <2>2, <2>3
<1> QED
  BY <1>3, <1>4

LEMMA RowsTyped ==
    ASSUME CarrierColumns
    PROVE  MatchedRows \in SUBSET Row /\ IsFiniteSet(MatchedRows)
<1> DEFINE row(p) == [source |-> p[1], id |-> p[2], of |-> obs[p[1]][p[2]].of]
           f == [p \in Sources \X Labels |-> row(p)]
           T == {row(p) : p \in Sources \X Labels}
<1>1. MatchedRows \in SUBSET Row
  BY DEF CarrierColumns, MatchedRows, Matched, Row
<1>2. IsFiniteSet(Sources \X Labels)
  BY TwoSources, CarriersAssumption, FS_Product
<1>3. f \in Surjection(Sources \X Labels, T)
  BY DEF Surjection
<1>4. IsFiniteSet(T)
  <2> HIDE DEF f, T
  <2> QED
    BY <1>2, <1>3, FS_Surjection
<1>5. MatchedRows \subseteq T
  <2> SUFFICES ASSUME NEW x \in MatchedRows PROVE x \in T
    OBVIOUS
  <2>1. PICK s \in Sources, l \in Labels : x = [source |-> s, id |-> l, of |-> obs[s][l].of]
    BY DEF MatchedRows, Matched
  <2>2. <<s, l>> \in Sources \X Labels /\ x = row(<<s, l>>)
    BY <2>1
  <2> HIDE DEF row
  <2> QED
    BY <2>2
<1> HIDE DEF T
<1>6. MatchedRows \in SUBSET T
  BY <1>5
<1> QED
  BY <1>1, <1>4, <1>6, FS_Subset

LEMMA ReaderTyped ==
    ASSUME CarrierColumns, NEW r \in Readers
    PROVE  /\ reader[r] \in Reader /\ reader[r].source \in Sources /\ reader[r].left \in SUBSET Labels
           /\ reader[r].took \in [Labels -> Label \cup {NoLabel}] /\ reader[r].known \in BOOLEAN
           /\ reader[r].hit \in BOOLEAN /\ reader[r].fresh \in BOOLEAN
           /\ reader[r].rows \in SUBSET Row /\ reader[r].fills \in SUBSET Parcels
           /\ IsFiniteSet(reader[r].rows)
           /\ \A l \in reader[r].left : reader[r].took[l] \in Label
  BY DEF CarrierColumns, Reader

LEMMA ReaderWrites ==
    ASSUME NEW i \in Reader
    PROVE  /\ \A pc \in {"idle", "held", "match", "store", "settle", "write", "end"} :
                 [i EXCEPT !.pc = pc] \in Reader
           /\ \A pc \in {"end", "match"}, t \in [Labels -> Label \cup {NoLabel}], m \in SUBSET Labels :
                 [[i EXCEPT !.pc = pc] EXCEPT !.took = t, !.left = m] \in Reader
           /\ \A b \in BOOLEAN : [[i EXCEPT !.pc = "store"] EXCEPT !.known = b] \in Reader
           /\ \A b \in BOOLEAN, m \in SUBSET Labels : [i EXCEPT !.left = m, !.hit = b] \in Reader
           /\ \A w \in SUBSET Row, m \in SUBSET Parcels :
                 [[i EXCEPT !.pc = "settle"] EXCEPT !.rows = w, !.fills = m, !.fresh = TRUE] \in Reader
           /\ [i EXCEPT !.fresh = FALSE] \in Reader
  BY DEF Reader

LEMMA RestingTyped ==
    /\ Resting \in Reader /\ IsFiniteSet(Resting.rows) /\ Resting.left = {}
    /\ \A s \in Sources : [Resting EXCEPT !.pc = "held", !.source = s] \in Reader
<1>1. Resting \in Reader
  BY TwoSources DEF Resting, Reader
<1>2. IsFiniteSet(Resting.rows) /\ Resting.left = {}
  BY FS_EmptySet DEF Resting
<1>3. \A s \in Sources : [Resting EXCEPT !.pc = "held", !.source = s] \in Reader
  BY <1>1 DEF Reader
<1> QED
  BY <1>1, <1>2, <1>3

LEMMA SameRows == ASSUME obs' = obs PROVE MatchedRows' = MatchedRows
  BY DEF MatchedRows, Matched

LEMMA SameCarried ==
    ASSUME MatchedRows' = MatchedRows, cost' = cost, parcels' = parcels
    PROVE  Carried' <=> Carried
  BY DEF Carried, CostOf

-----------------------------------------------------------------------------
(* What a step may do                                                      *)

(* What a reader has to know by itself.                                    *)
Sound(r, i, rowsNow) ==
    /\ i \in Reader /\ IsFiniteSet(i.rows)
    /\ \A l \in i.left : i.took[l] \in Label /\ i.took[l].names = label[i.source][l].names
    /\ i.pc \in {"settle", "write"} => i.fills # {}
    /\ i.known \/ i.hit \/ i.pc \in {"settle", "write"} => known
    /\ i.fresh =>
         /\ i.pc = "settle" => i.rows = rowsNow /\ i.fills = parcels
         /\ i.pc = "write" => rowsNow = Kept(i.rows) /\ i.fills = parcels

(* A reader steps and writes no rows; if it writes costs, the right ones.  *)
LEMMA OneReader ==
    ASSUME CarrierColumns, CarrierInv, NEW r \in Readers, NEW i,
           reader' = [reader EXCEPT ![r] = i],
           UNCHANGED <<label, obs, known, parcels, hooks, hook, booked>>,
           holder' \in [Sources -> Readers \cup {NoReader}], clean' \in BOOLEAN,
           cost' \in [Parcels -> Int], ~known => cost' = cost,
           Sound(r, i, MatchedRows),
           \A q \in Readers \ {r} : reader[q].pc # "idle" => holder'[reader[q].source] = q,
           i.pc # "idle" => holder'[i.source] = r,
           i.pc = "store" /\ ~i.known => \A l \in Labels : ~obs[i.source][l].order,
           \/ cost' = cost /\ (clean' => clean) /\ (clean' /\ Owing(reader[r]) => Owing(i))
           \/ clean' => Carried'
    PROVE  CarrierColumns' /\ CarrierInv'
<1>1. reader' \in [Readers -> Reader]
  BY DEF Sound, CarrierColumns
<1>2. reader'[r] = i /\ \A q \in Readers \ {r} : reader'[q] = reader[q]
  BY DEF CarrierColumns
<1>3. CarrierTypeOK'
  <2>1. \A q \in Readers : reader'[q].pc \in {"idle", "held", "match", "store", "settle", "write", "end"}
    BY <1>1 DEF Reader
  <2> QED
    BY <2>1 DEF CarrierColumns, CarrierTypeOK
<1>4. CarrierColumns'
  <2>1. \A q \in Readers :
          /\ \A l \in reader'[q].left : reader'[q].took[l] \in Label
          /\ IsFiniteSet(reader'[q].rows)
          /\ reader'[q].pc \in {"settle", "write"} => reader'[q].fills # {}
    BY <1>2 DEF CarrierColumns, Sound
  <2> QED
    BY <1>1, <1>3, <2>1 DEF CarrierColumns
<1>5. LeaseHeld'
  BY <1>2 DEF LeaseHeld
<1>6. UnseenIsFree'
  BY <1>2 DEF UnseenIsFree, Sound, CarrierInv
<1>7. NamesStay'
  BY <1>2 DEF NamesStay, Sound, CarrierInv
<1>8. MatchedRows' = MatchedRows
  BY SameRows
<1>9. ReadIsFresh'
  BY <1>2, <1>8 DEF ReadIsFresh, Sound, CarrierInv
<1>10. WritesAreOwed'
  <2>1. CASE clean' => Carried'
    BY <2>1 DEF WritesAreOwed
  <2>2. CASE cost' = cost /\ (clean' => clean) /\ (clean' /\ Owing(reader[r]) => Owing(i))
    <3>1. Carried' <=> Carried
      BY <1>8, <2>2, SameCarried
    <3>2. \A q \in Readers : clean' /\ Owing(reader[q]) => Owing(reader[q])'
      BY <1>2, <2>2 DEF Owing
    <3> QED
      BY <2>2, <3>1, <3>2 DEF WritesAreOwed, CarrierInv
  <2> QED
    BY <2>1, <2>2
<1> QED
  BY <1>4, <1>5, <1>6, <1>7, <1>9, <1>10 DEF CarrierInv

(* A reader writes rows: the others' copies are stale.                     *)
LEMMA RowsWritten ==
    ASSUME CarrierColumns, CarrierInv, NEW r \in Readers, NEW i,
           reader' = [q \in Readers |-> IF q = r THEN i ELSE [reader[q] EXCEPT !.fresh = FALSE]],
           UNCHANGED <<label, known, parcels, cost, holder, clean, hooks, hook, booked>>,
           obs' \in [Sources -> [Labels -> [of : Label \cup {NoLabel}, status : States, order : BOOLEAN]]],
           \A s \in Sources, l \in Labels :
              /\ obs'[s][l].status = "MATCHED" => obs'[s][l].of \in Label
              /\ obs'[s][l].order => label[s][l].names /\ known
              /\ s # reader[r].source => (obs'[s][l].order <=> obs[s][l].order),
           Sound(r, i, MatchedRows'), i.source = reader[r].source,
           reader[r].pc # "idle",
           i.pc = "store" /\ ~i.known => \A l \in Labels : ~obs'[i.source][l].order,
           \/ parcels = {}
           \/ Owing(i)
           \/ MatchedRows' = MatchedRows /\ ~Owing(reader[r])
    PROVE  CarrierColumns' /\ CarrierInv'
<1>1. /\ reader'[r] = i
      /\ \A q \in Readers \ {r} : reader'[q] = [reader[q] EXCEPT !.fresh = FALSE]
      /\ \A q \in Readers \ {r} : [reader[q] EXCEPT !.fresh = FALSE] \in Reader
  BY ReaderWrites DEF CarrierColumns
<1>2. reader' \in [Readers -> Reader]
  BY <1>1 DEF Sound
<1>3. ASSUME NEW q \in Readers \ {r}
      PROVE  /\ reader'[q].pc = reader[q].pc /\ reader'[q].source = reader[q].source
             /\ reader'[q].known = reader[q].known /\ reader'[q].left = reader[q].left
             /\ reader'[q].took = reader[q].took /\ reader'[q].hit = reader[q].hit
             /\ reader'[q].rows = reader[q].rows /\ reader'[q].fills = reader[q].fills
             /\ reader'[q].fresh = FALSE
  <2>1. reader[q] \in Reader
    BY DEF CarrierColumns
  <2> QED
    BY <1>1, <2>1 DEF Reader
<1>4. CarrierTypeOK'
  <2>1. \A q \in Readers : reader'[q].pc \in {"idle", "held", "match", "store", "settle", "write", "end"}
    BY <1>2 DEF Reader
  <2> QED
    BY <2>1 DEF CarrierColumns, CarrierTypeOK
<1>5. CarrierColumns'
  <2>1. \A q \in Readers :
          /\ \A l \in reader'[q].left : reader'[q].took[l] \in Label
          /\ IsFiniteSet(reader'[q].rows)
          /\ reader'[q].pc \in {"settle", "write"} => reader'[q].fills # {}
    BY <1>1, <1>3 DEF CarrierColumns, Sound
  <2> QED
    BY <1>2, <1>4, <2>1 DEF CarrierColumns
<1>6. LeaseHeld'
  <2>1. holder[reader[r].source] = r
    BY DEF LeaseHeld, CarrierInv
  <2> QED
    BY <1>1, <1>3, <2>1 DEF LeaseHeld, CarrierInv
<1>7. UnseenIsFree'
  <2>1. ASSUME NEW q \in Readers \ {r}, reader[q].pc = "store", ~reader[q].known
        PROVE  \A l \in Labels : ~obs'[reader[q].source][l].order
    <3>1. reader[q].source # reader[r].source
      BY <2>1 DEF LeaseHeld, CarrierInv
    <3>2. \A l \in Labels : ~obs[reader[q].source][l].order
      BY <2>1 DEF UnseenIsFree, CarrierInv
    <3>3. reader[q].source \in Sources
      BY ReaderTyped
    <3> QED
      BY <3>1, <3>2, <3>3
  <2>2. ~known => \A f \in Parcels : cost[f] = 0
    BY DEF UnseenIsFree, CarrierInv
  <2>3. ASSUME NEW q \in Readers
        PROVE  /\ reader'[q].known \/ reader'[q].hit \/ reader'[q].pc \in {"settle", "write"} => known
               /\ reader'[q].pc = "store" /\ ~reader'[q].known =>
                     \A l \in Labels : ~obs'[reader'[q].source][l].order
    <3>1. CASE q = r
      BY <1>1, <3>1 DEF Sound
    <3>2. CASE q # r
      <4>1. /\ reader'[q].pc = reader[q].pc /\ reader'[q].source = reader[q].source
            /\ reader'[q].known = reader[q].known /\ reader'[q].hit = reader[q].hit
        BY <1>3, <3>2
      <4>2. reader[q].known \/ reader[q].hit \/ reader[q].pc \in {"settle", "write"} => known
        BY DEF UnseenIsFree, CarrierInv
      <4> QED
        BY <2>1, <3>2, <4>1, <4>2
    <3> QED
      BY <3>1, <3>2
  <2> QED
    BY <2>2, <2>3 DEF UnseenIsFree
<1>8. NamesStay'
  BY <1>1, <1>3 DEF NamesStay, Sound, CarrierInv
<1>9. ReadIsFresh'
  BY <1>1, <1>3 DEF ReadIsFresh, Sound
<1>10. WritesAreOwed'
  <2>1. CASE parcels = {}
    BY <2>1 DEF WritesAreOwed
  <2>2. CASE Owing(i)
    BY <1>1, <2>2 DEF WritesAreOwed, Owing
  <2>3. CASE MatchedRows' = MatchedRows /\ ~Owing(reader[r])
    <3>1. Carried' <=> Carried
      BY <2>3, SameCarried
    <3>2. \A q \in Readers : Owing(reader[q]) => Owing(reader[q])'
      BY <1>3, <2>3 DEF Owing
    <3> QED
      BY <3>1, <3>2 DEF WritesAreOwed, CarrierInv
  <2> QED
    BY <2>1, <2>2, <2>3
<1> QED
  BY <1>5, <1>6, <1>7, <1>8, <1>9, <1>10 DEF CarrierInv

-----------------------------------------------------------------------------
(* The steps of a reader                                                   *)

(* What the invariant says of one reader and the leases of the others.     *)
LEMMA ReaderKnows ==
    ASSUME CarrierColumns, CarrierInv, NEW r \in Readers
    PROVE  /\ Sound(r, reader[r], MatchedRows)
           /\ reader[r].pc # "idle" => holder[reader[r].source] = r
           /\ reader[r].pc = "store" /\ ~reader[r].known =>
                 \A l \in Labels : ~obs[reader[r].source][l].order
           /\ \A q \in Readers \ {r} : reader[q].pc # "idle" => holder[reader[q].source] = q
           /\ holder \in [Sources -> Readers \cup {NoReader}] /\ clean \in BOOLEAN
           /\ \A q \in Readers : reader[q].source \in Sources
<1>1. /\ reader[r] \in Reader /\ IsFiniteSet(reader[r].rows)
      /\ \A l \in reader[r].left : reader[r].took[l] \in Label
      /\ reader[r].pc \in {"settle", "write"} => reader[r].fills # {}
  BY DEF CarrierColumns
<1>2. \A l \in reader[r].left : reader[r].took[l].names = label[reader[r].source][l].names
  BY DEF CarrierInv, NamesStay
<1>3. /\ reader[r].known \/ reader[r].hit \/ reader[r].pc \in {"settle", "write"} => known
      /\ reader[r].pc = "store" /\ ~reader[r].known =>
               \A l \in Labels : ~obs[reader[r].source][l].order
  BY DEF CarrierInv, UnseenIsFree
<1>4. reader[r].fresh =>
       /\ reader[r].pc = "settle" => reader[r].rows = MatchedRows /\ reader[r].fills = parcels
       /\ reader[r].pc = "write" => MatchedRows = Kept(reader[r].rows) /\ reader[r].fills = parcels
  BY DEF CarrierInv, ReadIsFresh
<1>5. \A q \in Readers : reader[q].pc # "idle" => holder[reader[q].source] = q
  BY DEF CarrierInv, LeaseHeld
<1>6. holder \in [Sources -> Readers \cup {NoReader}] /\ clean \in BOOLEAN
  BY DEF CarrierColumns, CarrierTypeOK
<1>7. \A q \in Readers : reader[q].source \in Sources
  BY ReaderTyped
<1>8. Sound(r, reader[r], MatchedRows)
  BY <1>1, <1>2, <1>3, <1>4 DEF Sound
<1> QED
  BY <1>3, <1>5, <1>6, <1>7, <1>8

LEMMA ClaimKeeps ==
    ASSUME CarrierColumns, CarrierInv, NEW r \in Readers, NEW s \in Sources, Claim(r, s)
    PROVE  CarrierColumns' /\ CarrierInv'
<1> DEFINE i == [Resting EXCEPT !.pc = "held", !.source = s]
<1>1. /\ reader' = [reader EXCEPT ![r] = i] /\ holder' = [holder EXCEPT ![s] = r]
      /\ holder[s] = NoReader /\ reader[r].pc = "idle"
      /\ UNCHANGED <<label, obs, known, parcels, cost, hooks, hook, booked, clean>>
  BY DEF Claim, Reads
<1>2. /\ i.pc = "held" /\ i.source = s /\ i.left = {} /\ i.rows = {} /\ ~i.known /\ ~i.hit
      /\ ~i.fresh /\ i \in Reader
  BY RestingTyped DEF Resting
<1> HIDE DEF i
<1>3. Sound(r, i, MatchedRows)
  BY <1>2, FS_EmptySet DEF Sound
<1>4. holder' \in [Sources -> Readers \cup {NoReader}] /\ holder'[s] = r
  BY <1>1, ReaderKnows
<1>5. ASSUME NEW q \in Readers \ {r}, reader[q].pc # "idle"
      PROVE  holder'[reader[q].source] = q
  <2>1. holder[reader[q].source] = q /\ reader[q].source \in Sources
    BY <1>5, ReaderKnows
  <2>2. reader[q].source # s
    BY <1>1, <2>1, CarriersAssumption
  <2> QED
    BY <1>1, <2>1, <2>2, ReaderKnows
<1>6. ~Owing(reader[r])
  BY <1>1 DEF Owing
<1>7. clean' \in BOOLEAN /\ (clean' => clean) /\ cost' \in [Parcels -> Int]
  BY <1>1, ReaderKnows DEF CarrierColumns, CarrierTypeOK
<1> QED
  BY <1>1, <1>2, <1>3, <1>4, <1>5, <1>6, <1>7, OneReader

(* Steps of a reader that has the lease and keeps it.                      *)
LEMMA HolderSteps ==
    ASSUME CarrierColumns, CarrierInv, NEW r \in Readers, NEW i,
           reader' = [reader EXCEPT ![r] = i],
           UNCHANGED <<label, obs, known, parcels, cost, holder, clean, hooks, hook, booked>>,
           reader[r].pc # "idle", i.source = reader[r].source,
           Sound(r, i, MatchedRows),
           i.pc = "store" /\ ~i.known => \A l \in Labels : ~obs[i.source][l].order,
           Owing(reader[r]) => Owing(i)
    PROVE  CarrierColumns' /\ CarrierInv'
<1>1. /\ holder' \in [Sources -> Readers \cup {NoReader}] /\ clean' \in BOOLEAN
      /\ (clean' => clean) /\ cost' \in [Parcels -> Int]
  BY ReaderKnows DEF CarrierColumns, CarrierTypeOK
<1>2. \A q \in Readers \ {r} : reader[q].pc # "idle" => holder'[reader[q].source] = q
  BY ReaderKnows
<1>3. holder'[i.source] = r
  BY ReaderKnows
<1> QED
  BY <1>1, <1>2, <1>3, OneReader

LEMMA FetchKeeps ==
    ASSUME CarrierColumns, CarrierInv, NEW r \in Readers, FetchCosts(r)
    PROVE  CarrierColumns' /\ CarrierInv'
<1> DEFINE took == label[reader[r].source]
           some == {l \in Labels : took[l] # NoLabel}
           i == [Now(r, IF some = {} THEN "end" ELSE "match") EXCEPT !.took = took, !.left = some]
<1>1. /\ reader[r].pc = "held" /\ reader' = [reader EXCEPT ![r] = i]
      /\ UNCHANGED <<label, obs, known, parcels, cost, holder, clean, hooks, hook, booked>>
  BY DEF FetchCosts, Reads
<1>2. reader[r] \in Reader /\ reader[r].source \in Sources
  BY ReaderTyped
<1>3. took \in [Labels -> Label \cup {NoLabel}]
  BY <1>2 DEF CarrierColumns, CarrierTypeOK
<1>4. some \in SUBSET Labels /\ \A l \in some : took[l] \in Label
  BY <1>3
<1> HIDE DEF some
<1>5. i \in Reader
  BY <1>2, <1>3, <1>4, ReaderWrites DEF Now
<1>6. /\ i.pc \in {"end", "match"} /\ i.source = reader[r].source /\ i.left = some /\ i.took = took
      /\ i.known = reader[r].known /\ i.hit = reader[r].hit /\ i.rows = reader[r].rows
  BY <1>2 DEF Now, Reader
<1> HIDE DEF i
<1>7. Sound(r, i, MatchedRows)
  <2>1. IsFiniteSet(reader[r].rows) /\ (reader[r].known \/ reader[r].hit => known)
    BY ReaderKnows DEF Sound
  <2> QED
    BY <1>4, <1>5, <1>6, <2>1 DEF Sound
<1>8. ~Owing(reader[r])
  BY <1>1 DEF Owing
<1> QED
  BY <1>1, <1>6, <1>7, <1>8, HolderSteps

LEMMA ReadOrdersKeeps ==
    ASSUME CarrierColumns, CarrierInv, NEW r \in Readers, ReadOrders(r)
    PROVE  CarrierColumns' /\ CarrierInv'
<1> DEFINE i == [Now(r, "store") EXCEPT !.known = known]
<1>1. /\ reader[r].pc = "match" /\ reader' = [reader EXCEPT ![r] = i]
      /\ UNCHANGED <<label, obs, known, parcels, cost, holder, clean, hooks, hook, booked>>
  BY DEF ReadOrders, Reads
<1>2. reader[r] \in Reader /\ known \in BOOLEAN /\ reader[r].source \in Sources
  BY ReaderTyped DEF CarrierColumns, CarrierTypeOK
<1>3. i \in Reader
  BY <1>2, ReaderWrites DEF Now
<1>4. /\ i.pc = "store" /\ i.source = reader[r].source /\ i.left = reader[r].left
      /\ i.took = reader[r].took /\ i.known = known /\ i.hit = reader[r].hit
      /\ i.rows = reader[r].rows
  BY <1>2 DEF Now, Reader
<1> HIDE DEF i
<1>5. Sound(r, i, MatchedRows)
  <2>1. Sound(r, reader[r], MatchedRows)
    BY ReaderKnows
  <2> QED
    BY <1>3, <1>4, <2>1 DEF Sound
<1>6. ~i.known => \A l \in Labels : ~obs[i.source][l].order
  BY <1>2, <1>4 DEF CarrierInv, UnseenIsFree
<1>7. ~Owing(reader[r])
  BY <1>1 DEF Owing
<1> QED
  BY <1>1, <1>4, <1>5, <1>6, <1>7, HolderSteps

LEMMA StoreKeeps ==
    ASSUME CarrierColumns, CarrierInv, NEW r \in Readers, StoreObservation(r)
    PROVE  CarrierColumns' /\ CarrierInv'
<1> DEFINE s == reader[r].source
           id == CHOOSE l \in reader[r].left : TRUE
           l == reader[r].took[id]
           row == [of |-> l, status |-> StatusOf(r, l), order |-> Matches(r, l)]
           i == [reader[r] EXCEPT !.left = @ \ {id}, !.hit = @ \/ Affects(r, l)]
<1>1. /\ reader[r].pc = "store" /\ reader[r].left # {}
      /\ obs' = [obs EXCEPT ![s][id] = row]
      /\ reader' = [Outdates(r) EXCEPT ![r].left = @ \ {id}, ![r].hit = @ \/ Affects(r, l)]
      /\ UNCHANGED <<label, known, parcels, cost, holder, clean, hooks, hook, booked>>
  BY DEF StoreObservation
<1>2. id \in reader[r].left
  BY <1>1
<1>3. /\ reader[r] \in Reader /\ s \in Sources /\ id \in Labels /\ l \in Label
      /\ reader[r].left \in SUBSET Labels /\ reader[r].known \in BOOLEAN /\ reader[r].hit \in BOOLEAN
  BY <1>2, ReaderTyped
<1>4. reader' = [q \in Readers |-> IF q = r THEN i ELSE [reader[q] EXCEPT !.fresh = FALSE]]
  BY <1>1 DEF Outdates
<1> HIDE DEF id, l
<1>5. /\ l.names \in BOOLEAN /\ l.void \in BOOLEAN /\ l.foreign \in BOOLEAN
      /\ Matches(r, l) \in BOOLEAN /\ Affects(r, l) = Matches(r, l)
      /\ StatusOf(r, l) \in States
  <2>1. l.names \in BOOLEAN /\ l.void \in BOOLEAN /\ l.foreign \in BOOLEAN
    BY <1>3 DEF Label
  <2>2. Matches(r, l) \in BOOLEAN /\ Affects(r, l) = Matches(r, l)
    BY <1>3, <2>1 DEF Matches, Affects
  <2>3. StatusOf(r, l) \in States
    BY <2>1, <2>2 DEF StatusOf, States
  <2> QED
    BY <2>1, <2>2, <2>3
<1>6. row \in [of : Label \cup {NoLabel}, status : States, order : BOOLEAN]
  BY <1>3, <1>5
<1>7. obs \in [Sources -> [Labels -> [of : Label \cup {NoLabel}, status : States, order : BOOLEAN]]]
  BY DEF CarrierColumns, CarrierTypeOK
<1>8. obs' \in [Sources -> [Labels -> [of : Label \cup {NoLabel}, status : States, order : BOOLEAN]]]
  BY <1>1, <1>6, <1>7
<1>9. /\ row.of = l /\ row.order = Matches(r, l)
      /\ \A t \in Sources, k \in Labels :
            obs'[t][k] = IF t = s /\ k = id THEN row ELSE obs[t][k]
  BY <1>1, <1>3, <1>7
<1> HIDE DEF row
<1>10. /\ i.pc = "store" /\ i.source = s /\ i.left = reader[r].left \ {id} /\ i.took = reader[r].took
       /\ i.known = reader[r].known /\ i.hit = (reader[r].hit \/ Matches(r, l))
       /\ i.rows = reader[r].rows /\ i.fills = reader[r].fills /\ i \in Reader
  <2>1. (reader[r].hit \/ Matches(r, l)) \in BOOLEAN /\ reader[r].left \ {id} \in SUBSET Labels
    BY <1>3, <1>5
  <2>2. i \in Reader
    BY <1>3, <1>5, <2>1, ReaderWrites
  <2> QED
    BY <1>1, <1>3, <1>5, <2>2 DEF Reader
<1> HIDE DEF i
<1>11. l.names = label[s][id].names /\ (Matches(r, l) => known)
  <2>1. Sound(r, reader[r], MatchedRows)
    BY ReaderKnows
  <2> QED
    BY <1>2, <1>5, <2>1 DEF Sound, Matches, l
<1>12. Sound(r, i, MatchedRows')
  <2>1. Sound(r, reader[r], MatchedRows)
    BY ReaderKnows
  <2> QED
    BY <1>10, <1>11, <2>1 DEF Sound
<1>13. ASSUME NEW t \in Sources, NEW k \in Labels
       PROVE  /\ obs'[t][k].status = "MATCHED" => obs'[t][k].of \in Label
              /\ obs'[t][k].order => label[t][k].names /\ known
              /\ t # s => (obs'[t][k].order <=> obs[t][k].order)
  <2>1. /\ obs[t][k].status = "MATCHED" => obs[t][k].of \in Label
        /\ obs[t][k].order => label[t][k].names /\ known
    BY DEF CarrierColumns, CarrierInv, NamesStay, UnseenIsFree
  <2>2. Matches(r, l) => l.names
    BY DEF Matches
  <2> QED
    BY <1>3, <1>9, <1>11, <2>1, <2>2
<1>14. i.pc = "store" /\ ~i.known => \A k \in Labels : ~obs'[i.source][k].order
  <2>1. ~reader[r].known => ~Matches(r, l) /\ \A k \in Labels : ~obs[s][k].order
    BY <1>1, ReaderKnows DEF Matches
  <2> QED
    BY <1>3, <1>9, <1>10, <2>1
<1>15. Owing(i) \/ (MatchedRows' = MatchedRows /\ ~Owing(reader[r]))
  <2>1. CASE reader[r].hit \/ Matches(r, l)
    BY <1>10, <2>1 DEF Owing
  <2>2. CASE ~reader[r].hit /\ ~Matches(r, l)
    <3>1. ~Owing(reader[r])
      BY <1>1, <2>2 DEF Owing
    <3>2. ~obs[s][id].order
      <4>1. CASE reader[r].known
        <5>1. ~label[s][id].names
          BY <1>11, <2>2, <4>1 DEF Matches
        <5> QED
          BY <1>3, <5>1 DEF CarrierInv, NamesStay
      <4>2. CASE ~reader[r].known
        BY <1>1, <1>3, <4>2, ReaderKnows
      <4> QED
        BY <4>1, <4>2
    <3>3. ~obs'[s][id].order
      BY <1>3, <1>9, <2>2
    <3>4. \A t \in Sources, k \in Labels : t # s \/ k # id => obs'[t][k] = obs[t][k]
      BY <1>9
    <3>5. MatchedRows' = MatchedRows
      <4> DEFINE counts(o, t, k) == o[t][k].status = "MATCHED" /\ o[t][k].order
      <4>1. ASSUME NEW x
            PROVE  x \in MatchedRows <=> \E t \in Sources, k \in Labels :
                     x = [source |-> t, id |-> k, of |-> obs[t][k].of] /\ counts(obs, t, k)
        BY DEF MatchedRows, Matched
      <4>2. ASSUME NEW x
            PROVE  x \in MatchedRows' <=> \E t \in Sources, k \in Labels :
                     x = [source |-> t, id |-> k, of |-> obs'[t][k].of] /\ counts(obs', t, k)
        BY DEF MatchedRows, Matched
      <4>3. \A t \in Sources, k \in Labels :
               /\ counts(obs', t, k) <=> counts(obs, t, k)
               /\ counts(obs, t, k) => obs'[t][k] = obs[t][k]
        BY <3>2, <3>3, <3>4
      <4> HIDE DEF counts
      <4>4. \A x : x \in MatchedRows' <=> x \in MatchedRows
        BY <4>1, <4>2, <4>3
      <4> QED
        BY <4>4
    <3> QED
      BY <3>1, <3>5
  <2> QED
    BY <2>1, <2>2
<1>16. reader[r].pc # "idle" /\ i.source = reader[r].source
  BY <1>1, <1>10
<1> HIDE DEF s
<1> QED
  BY <1>1, <1>4, <1>8, <1>12, <1>13, <1>14, <1>15, <1>16, RowsWritten DEF s

LEMMA NowTyped ==
    ASSUME CarrierColumns, NEW r \in Readers,
           NEW pc \in {"idle", "held", "match", "store", "settle", "write", "end"}
    PROVE  LET i == Now(r, pc) IN
           /\ i \in Reader /\ i.pc = pc /\ i.source = reader[r].source /\ i.left = reader[r].left
           /\ i.took = reader[r].took /\ i.known = reader[r].known /\ i.hit = reader[r].hit
           /\ i.rows = reader[r].rows /\ i.fills = reader[r].fills /\ i.fresh = reader[r].fresh
<1>1. reader[r] \in Reader
  BY ReaderTyped
<1>2. Now(r, pc) \in Reader
  BY <1>1, ReaderWrites DEF Now
<1> QED
  BY <1>1, <1>2 DEF Now, Reader

LEMMA RowTyped ==
    ASSUME CarrierColumns
    PROVE  \A s \in Sources, l \in Labels :
             obs[s][l] \in [of : Label \cup {NoLabel}, status : States, order : BOOLEAN]
  BY DEF CarrierColumns, CarrierTypeOK

LEMMA ReadRowsKeeps ==
    ASSUME CarrierColumns, CarrierInv, NEW r \in Readers, ReadOrderRows(r)
    PROVE  CarrierColumns' /\ CarrierInv'
<1>1. /\ reader[r].pc = "store" /\ reader[r].left = {}
      /\ UNCHANGED <<label, known, parcels, cost, holder, clean, hooks, hook, booked>>
  BY DEF ReadOrderRows
<1>2. Sound(r, reader[r], MatchedRows)
  BY ReaderKnows
<1>3. CASE ~reader[r].hit
  <2> DEFINE i == Now(r, "end")
  <2>1. reader' = [reader EXCEPT ![r] = i] /\ obs' = obs
    BY <1>3 DEF ReadOrderRows, Reads
  <2>2. i.source = reader[r].source /\ i.pc = "end" /\ Sound(r, i, MatchedRows)
    BY <1>2, NowTyped DEF Sound
  <2>3. ~Owing(reader[r])
    BY <1>1, <1>3 DEF Owing
  <2> HIDE DEF i
  <2> QED
    BY <1>1, <2>1, <2>2, <2>3, HolderSteps
<1>4. CASE reader[r].hit /\ parcels # {}
  <2> DEFINE i == [Now(r, "settle") EXCEPT !.rows = MatchedRows, !.fills = parcels, !.fresh = TRUE]
  <2>1. reader' = [reader EXCEPT ![r] = i] /\ obs' = obs
    BY <1>4 DEF ReadOrderRows, Reads
  <2>2. reader[r] \in Reader /\ parcels \in SUBSET Parcels
    BY ReaderTyped DEF CarrierColumns, CarrierTypeOK
  <2>3. MatchedRows \in SUBSET Row /\ IsFiniteSet(MatchedRows)
    BY RowsTyped
  <2>4. i \in Reader
    BY <2>2, <2>3, ReaderWrites DEF Now
  <2>5. /\ i.pc = "settle" /\ i.source = reader[r].source /\ i.left = reader[r].left
        /\ i.took = reader[r].took /\ i.known = reader[r].known /\ i.hit = reader[r].hit
        /\ i.rows = MatchedRows /\ i.fills = parcels
    BY <2>2 DEF Now, Reader
  <2> HIDE DEF i
  <2>6. Sound(r, i, MatchedRows)
    BY <1>2, <1>4, <2>3, <2>4, <2>5 DEF Sound
  <2>7. Owing(i)
    BY <2>5 DEF Owing
  <2> QED
    BY <1>1, <2>1, <2>5, <2>6, <2>7, HolderSteps
<1>5. CASE reader[r].hit /\ parcels = {}
  <2> DEFINE i == Now(r, "end")
  <2>1. /\ obs' = [s \in Sources |-> [l \in Labels |->
                     IF obs[s][l].status = "MATCHED" /\ obs[s][l].order
                     THEN [obs[s][l] EXCEPT !.status = "UNMATCHED"] ELSE obs[s][l]]]
        /\ reader' = [Outdates(r) EXCEPT ![r].pc = "end"]
    BY <1>5 DEF ReadOrderRows
  <2>2. reader' = [q \in Readers |-> IF q = r THEN i ELSE [reader[q] EXCEPT !.fresh = FALSE]]
    BY <2>1 DEF Outdates, Now
  <2>3. ASSUME NEW s \in Sources, NEW l \in Labels
        PROVE  /\ obs'[s][l] \in [of : Label \cup {NoLabel}, status : States, order : BOOLEAN]
               /\ obs'[s][l].of = obs[s][l].of /\ obs'[s][l].order = obs[s][l].order
               /\ obs'[s][l].status = "MATCHED" => obs[s][l].status = "MATCHED"
    <3>1. obs[s][l] \in [of : Label \cup {NoLabel}, status : States, order : BOOLEAN]
      BY RowTyped
    <3>2. "UNMATCHED" \in States
      BY DEF States
    <3> QED
      BY <2>1, <3>1, <3>2
  <2>4. obs' \in [Sources -> [Labels -> [of : Label \cup {NoLabel}, status : States, order : BOOLEAN]]]
    <3>1. \A s \in Sources, l \in Labels :
             obs'[s][l] \in [of : Label \cup {NoLabel}, status : States, order : BOOLEAN]
      BY <2>3
    <3>2. obs' = [s \in Sources |-> [l \in Labels |-> obs'[s][l]]]
      BY <2>1
    <3> QED
      BY <3>1, <3>2
  <2>5. ASSUME NEW s \in Sources, NEW l \in Labels
        PROVE  /\ obs'[s][l].status = "MATCHED" => obs'[s][l].of \in Label
               /\ obs'[s][l].order => label[s][l].names /\ known
               /\ s # reader[r].source => (obs'[s][l].order <=> obs[s][l].order)
    <3>1. /\ obs[s][l].status = "MATCHED" => obs[s][l].of \in Label
          /\ obs[s][l].order => label[s][l].names /\ known
      BY DEF CarrierColumns, CarrierInv, NamesStay, UnseenIsFree
    <3> QED
      BY <2>3, <3>1
  <2>6. i.source = reader[r].source /\ i.pc = "end" /\ Sound(r, i, MatchedRows')
    BY <1>2, NowTyped DEF Sound
  <2> HIDE DEF i
  <2> QED
    BY <1>1, <1>5, <2>2, <2>4, <2>5, <2>6, RowsWritten
<1> QED
  BY <1>3, <1>4, <1>5

LEMMA SetAsideKeeps ==
    ASSUME CarrierColumns, CarrierInv, NEW r \in Readers, SetAsideConflicts(r)
    PROVE  CarrierColumns' /\ CarrierInv'
<1> DEFINE i == Now(r, "write")
           rows == reader[r].rows
           best == Chosen(rows).source
<1>1. /\ reader[r].pc = "settle"
      /\ UNCHANGED <<label, known, parcels, cost, holder, clean, hooks, hook, booked>>
  BY DEF SetAsideConflicts
<1>2. Sound(r, reader[r], MatchedRows)
  BY ReaderKnows
<1>3. /\ i \in Reader /\ i.pc = "write" /\ i.source = reader[r].source /\ i.left = reader[r].left
      /\ i.took = reader[r].took /\ i.known = reader[r].known /\ i.hit = reader[r].hit
      /\ i.rows = rows /\ i.fills = reader[r].fills /\ i.fresh = reader[r].fresh
  BY NowTyped
<1>4. ASSUME NEW now, reader[r].fresh => now = Kept(rows)
      PROVE  Sound(r, i, now)
  BY <1>1, <1>2, <1>3, <1>4 DEF Sound
<1>5. Owing(i)
  BY <1>3 DEF Owing
<1>6. CASE ~(rows # {} /\ Chosen(rows).conflict)
  <2>1. reader' = [reader EXCEPT ![r] = i] /\ obs' = obs
    BY <1>6 DEF SetAsideConflicts, Reads
  <2>2. Kept(rows) = rows
    BY <1>6 DEF Kept
  <2>3. Sound(r, i, MatchedRows)
    BY <1>1, <1>2, <1>4, <2>2 DEF Sound
  <2> HIDE DEF i
  <2> QED
    BY <1>1, <1>3, <1>5, <2>1, <2>3, HolderSteps
<1>7. CASE rows # {} /\ Chosen(rows).conflict
  <2>1. /\ obs' = [s \in Sources |-> [l \in Labels |->
                     IF s # best /\ obs[s][l].status = "MATCHED" /\ obs[s][l].order
                     THEN [obs[s][l] EXCEPT !.status = "CONFLICT"] ELSE obs[s][l]]]
        /\ reader' = [Outdates(r) EXCEPT ![r].pc = "write"]
    BY <1>7 DEF SetAsideConflicts
  <2>2. reader' = [q \in Readers |-> IF q = r THEN i ELSE [reader[q] EXCEPT !.fresh = FALSE]]
    BY <2>1 DEF Outdates, Now
  <2>3. ASSUME NEW s \in Sources, NEW l \in Labels
        PROVE  /\ obs'[s][l] \in [of : Label \cup {NoLabel}, status : States, order : BOOLEAN]
               /\ obs'[s][l].of = obs[s][l].of /\ obs'[s][l].order = obs[s][l].order
               /\ obs'[s][l].status = "MATCHED" => obs[s][l].status = "MATCHED"
               /\ s = best => obs'[s][l] = obs[s][l]
               /\ s # best /\ obs[s][l].order => obs'[s][l].status # "MATCHED"
    <3>1. obs[s][l] \in [of : Label \cup {NoLabel}, status : States, order : BOOLEAN]
      BY RowTyped
    <3>2. "CONFLICT" \in States
      BY DEF States
    <3> HIDE DEF best
    <3> QED
      BY <2>1, <3>1, <3>2
  <2>4. obs' \in [Sources -> [Labels -> [of : Label \cup {NoLabel}, status : States, order : BOOLEAN]]]
    <3>1. \A s \in Sources, l \in Labels :
             obs'[s][l] \in [of : Label \cup {NoLabel}, status : States, order : BOOLEAN]
      BY <2>3
    <3>2. obs' = [s \in Sources |-> [l \in Labels |-> obs'[s][l]]]
      BY <2>1
    <3> QED
      BY <3>1, <3>2
  <2>5. ASSUME NEW s \in Sources, NEW l \in Labels
        PROVE  /\ obs'[s][l].status = "MATCHED" => obs'[s][l].of \in Label
               /\ obs'[s][l].order => label[s][l].names /\ known
               /\ s # reader[r].source => (obs'[s][l].order <=> obs[s][l].order)
    <3>1. /\ obs[s][l].status = "MATCHED" => obs[s][l].of \in Label
          /\ obs[s][l].order => label[s][l].names /\ known
      BY DEF CarrierColumns, CarrierInv, NamesStay, UnseenIsFree
    <3> QED
      BY <2>3, <3>1
  <2>6. MatchedRows' = {x \in MatchedRows : x.source = best}
    <3> HIDE DEF best
    <3>1. ASSUME NEW x
          PROVE  x \in MatchedRows <=> \E t \in Sources, k \in Labels :
                   /\ x = [source |-> t, id |-> k, of |-> obs[t][k].of]
                   /\ obs[t][k].status = "MATCHED" /\ obs[t][k].order
      BY DEF MatchedRows, Matched
    <3>2. ASSUME NEW x
          PROVE  x \in MatchedRows' <=> \E t \in Sources, k \in Labels :
                   /\ x = [source |-> t, id |-> k, of |-> obs'[t][k].of]
                   /\ obs'[t][k].status = "MATCHED" /\ obs'[t][k].order
      BY DEF MatchedRows, Matched
    <3>3. ASSUME NEW x \in MatchedRows'
          PROVE  x \in MatchedRows /\ x.source = best
      <4>1. PICK t \in Sources, k \in Labels :
              /\ x = [source |-> t, id |-> k, of |-> obs'[t][k].of]
              /\ obs'[t][k].status = "MATCHED" /\ obs'[t][k].order
        BY <3>2
      <4>2. t = best /\ obs[t][k].status = "MATCHED" /\ obs[t][k].order
            /\ obs'[t][k].of = obs[t][k].of
        BY <2>3, <4>1
      <4> QED
        BY <3>1, <4>1, <4>2
    <3>4. ASSUME NEW x \in MatchedRows, x.source = best
          PROVE  x \in MatchedRows'
      <4>1. PICK t \in Sources, k \in Labels :
              /\ x = [source |-> t, id |-> k, of |-> obs[t][k].of]
              /\ obs[t][k].status = "MATCHED" /\ obs[t][k].order
        BY <3>1
      <4>2. obs'[t][k] = obs[t][k]
        BY <2>3, <3>4, <4>1
      <4> QED
        BY <3>2, <4>1, <4>2
    <3> QED
      BY <3>3, <3>4
  <2>7. reader[r].fresh => MatchedRows' = Kept(rows)
    BY <1>1, <1>2, <1>7, <2>6 DEF Sound, Kept
  <2>8. Sound(r, i, MatchedRows')
    BY <1>4, <2>7
  <2> HIDE DEF i
  <2> QED
    BY <1>1, <1>3, <1>5, <2>2, <2>4, <2>5, <2>8, RowsWritten
<1> QED
  BY <1>6, <1>7

(* The total of the rows of one source.                                    *)
TotalBy(mine, s) ==
    [source |-> s, cents |-> MapThenSumSet(Cents, mine), labels |-> MapThenSumSet(Count, mine),
     newest |-> IF mine = {} THEN 0
                ELSE CHOOSE t \in {x.of.at : x \in mine} : \A x \in mine : x.of.at <= t]

(* Setting conflicts aside leaves the chosen source its total.             *)
LEMMA KeptTotal ==
    ASSUME NEW rows \in SUBSET Row, IsFiniteSet(rows), rows # {}
    PROVE  LET s == Chosen(rows).source IN
           /\ Kept(rows) # {} /\ TotalOf(Kept(rows), s) = TotalOf(rows, s)
           /\ \A t \in Sources : TotalOf(Kept(rows), t).labels <= TotalOf(Kept(rows), s).labels
<1> DEFINE s == Chosen(rows).source
           mine == {x \in rows : x.source = s}
<1>1. /\ s \in Sources /\ \E x \in rows : x.source = s
      /\ \A t \in Sources : TotalOf(rows, t).labels <= TotalOf(rows, s).labels
  BY ChosenTotal
<1>2. Kept(rows) = rows \/ Kept(rows) = mine
  BY DEF Kept
<1> HIDE DEF s
<1>3. CASE Kept(rows) = rows
  BY <1>1, <1>3 DEF s
<1>4. CASE Kept(rows) = mine
  <2>1. {x \in mine : x.source = s} = {x \in rows : x.source = s}
    OBVIOUS
  <2>2. TotalOf(mine, s) = TotalOf(rows, s)
    <3>1. /\ TotalOf(mine, s) = TotalBy({x \in mine : x.source = s}, s)
          /\ TotalOf(rows, s) = TotalBy({x \in rows : x.source = s}, s)
      BY DEF TotalOf, TotalBy
    <3> QED
      BY <2>1, <3>1
  <2>3. mine \in SUBSET Row /\ IsFiniteSet(mine)
    <3>1. mine \in SUBSET rows
      OBVIOUS
    <3> QED
      BY <3>1, FS_Subset
  <2>4. ASSUME NEW t \in Sources
        PROVE  TotalOf(mine, t).labels <= TotalOf(mine, s).labels
    <3>1. CASE t = s
      BY <2>3, <3>1, TotalTypes
    <3>2. CASE t # s
      <4>1. \A x \in mine : x.source # t
        BY <3>2
      <4>2. TotalOf(mine, t).labels = 0 /\ TotalOf(mine, s).labels \in Nat
        BY <2>3, <4>1, TotalTypes
      <4> QED
        BY <4>2
    <3> QED
      BY <3>1, <3>2
  <2>5. mine # {}
    BY <1>1
  <2> QED
    BY <1>4, <2>2, <2>4, <2>5 DEF s
<1> QED
  BY <1>2, <1>3, <1>4

LEMMA WriteKeeps ==
    ASSUME CarrierColumns, CarrierInv, NEW r \in Readers, WriteShares(r)
    PROVE  CarrierColumns' /\ CarrierInv'
<1> DEFINE i == Now(r, "end")
           rows == reader[r].rows
           fills == reader[r].fills
           total == Chosen(rows).cents
           parts == Parts(total, fills)
<1>1. /\ reader[r].pc = "write" /\ reader' = [reader EXCEPT ![r] = i]
      /\ clean' = reader[r].fresh
      /\ UNCHANGED <<label, obs, known, parcels, holder, hooks, hook, booked>>
  BY DEF WriteShares, Reads
<1>2. cost' = [f \in Parcels |-> IF f \notin fills THEN cost[f]
                                 ELSE IF rows = {} THEN 0
                                 ELSE parts[Counted(fills, f)]]
  BY DEF WriteShares, Parts, Counted
<1> HIDE DEF i
<1>3. Sound(r, reader[r], MatchedRows)
  BY ReaderKnows
<1>4. /\ rows \in SUBSET Row /\ IsFiniteSet(rows) /\ fills \in SUBSET Parcels /\ fills # {}
      /\ known /\ reader[r].fresh \in BOOLEAN
  BY <1>1, <1>3, ReaderTyped DEF Sound
<1>5. i.source = reader[r].source /\ i.pc = "end" /\ Sound(r, i, MatchedRows)
  BY <1>3, NowTyped DEF Sound, i
<1>6. cost \in [Parcels -> Int] /\ parcels \in SUBSET Parcels
  BY DEF CarrierColumns, CarrierTypeOK
<1> HIDE DEF parts, total, rows, fills
<1>7. CASE rows = {}
  <2>1. cost' \in [Parcels -> Int] /\ \A f \in fills \cap Parcels : cost'[f] = 0
    BY <1>2, <1>6, <1>7
  <2>2. ASSUME clean' PROVE Carried'
    <3>1. MatchedRows = Kept(rows) /\ fills = parcels
      BY <1>1, <1>3, <2>2 DEF Sound, rows, fills
    <3>2. MatchedRows' = {}
      BY <1>1, <1>7, <3>1, SameRows DEF Kept
    <3>3. SumOf([f \in Parcels |-> IF f \in fills THEN cost'[f] ELSE 0]) = 0
      BY <2>1, NothingAddsUp
    <3>4. CostOf(parcels)' = 0
      BY <1>1, <3>1, <3>3 DEF CostOf
    <3> QED
      BY <3>2, <3>4 DEF Carried
  <2>3. CarrierColumns /\ CarrierInv
    OBVIOUS
  <2> QED
    BY <1>1, <1>4, <1>5, <2>1, <2>2, OneReader, ReaderKnows
<1>8. CASE rows # {}
  <2> DEFINE s == Chosen(rows).source
  <2>1. /\ s \in Sources /\ \E x \in rows : x.source = s
        /\ total = TotalOf(rows, s).cents /\ total \in Nat
    BY <1>4, <1>8, ChosenTotal DEF total
  <2>2. total \in Int
    BY <2>1
  <2>3. parts \in [1..Cardinality(fills) -> Int]
        /\ \A f \in fills : Counted(fills, f) \in 1..Cardinality(fills)
    BY <1>4, <2>2, PartsTyped DEF parts
  <2>4. cost' \in [Parcels -> Int] /\ \A f \in fills : cost'[f] = parts[Counted(fills, f)]
    BY <1>2, <1>4, <1>6, <1>8, <2>3
  <2>5. ASSUME clean' PROVE Carried'
    <3>1. MatchedRows = Kept(rows) /\ fills = parcels
      BY <1>1, <1>3, <2>5 DEF Sound, rows, fills
    <3>2. MatchedRows' = Kept(rows)
      BY <1>1, <3>1, SameRows
    <3>3. SumOf([f \in Parcels |-> IF f \in fills THEN cost'[f] ELSE 0]) = total
      BY <1>4, <2>2, <2>4, PartsAddUp DEF parts
    <3>4. CostOf(parcels)' = total
      BY <1>1, <3>1, <3>3 DEF CostOf
    <3>5. /\ Kept(rows) # {} /\ TotalOf(Kept(rows), s) = TotalOf(rows, s)
          /\ \A t \in Sources : TotalOf(Kept(rows), t).labels <= TotalOf(Kept(rows), s).labels
      BY <1>4, <1>8, KeptTotal
    <3> HIDE DEF s
    <3>6. /\ MatchedRows' # {}
          /\ CostOf(parcels)' = TotalOf(MatchedRows', s).cents
          /\ \A t \in Sources : TotalOf(MatchedRows', t).labels <= TotalOf(MatchedRows', s).labels
      BY <2>1, <3>2, <3>4, <3>5
    <3> QED
      BY <2>1, <3>6 DEF Carried
  <2> QED
    BY <1>1, <1>4, <1>5, <2>4, <2>5, OneReader, ReaderKnows
<1> QED
  BY <1>7, <1>8

LEMMA LeaseEnds ==
    ASSUME CarrierColumns, CarrierInv, NEW r \in Readers, reader[r].pc # "idle",
           reader' = [reader EXCEPT ![r] = Resting],
           holder' = [holder EXCEPT ![reader[r].source] = NoReader],
           UNCHANGED <<label, obs, known, parcels, cost, hooks, hook, booked>>,
           clean' \in BOOLEAN, clean' => clean /\ ~Owing(reader[r])
    PROVE  CarrierColumns' /\ CarrierInv'
<1>1. /\ holder \in [Sources -> Readers \cup {NoReader}] /\ reader[r].source \in Sources
      /\ holder[reader[r].source] = r
      /\ \A q \in Readers \ {r} : reader[q].pc # "idle" => holder[reader[q].source] = q
      /\ \A q \in Readers : reader[q].source \in Sources
  BY ReaderKnows
<1>2. holder' \in [Sources -> Readers \cup {NoReader}]
  BY <1>1
<1>3. ASSUME NEW q \in Readers \ {r}, reader[q].pc # "idle"
      PROVE  holder'[reader[q].source] = q
  BY <1>1, <1>3
<1>4. Sound(r, Resting, MatchedRows) /\ Resting.pc = "idle"
  <2>1. Resting \in Reader /\ IsFiniteSet(Resting.rows) /\ Resting.left = {}
    BY RestingTyped
  <2>2. Resting.pc = "idle" /\ ~Resting.known /\ ~Resting.hit /\ ~Resting.fresh
    BY DEF Resting
  <2> QED
    BY <2>1, <2>2 DEF Sound
<1>5. cost' \in [Parcels -> Int]
  BY DEF CarrierColumns, CarrierTypeOK
<1> QED
  BY <1>2, <1>3, <1>4, <1>5, OneReader

LEMMA ReleaseKeeps ==
    ASSUME CarrierColumns, CarrierInv, NEW r \in Readers, Release(r)
    PROVE  CarrierColumns' /\ CarrierInv'
<1>1. /\ reader[r].pc = "end" /\ reader' = [reader EXCEPT ![r] = Resting]
      /\ holder' = [holder EXCEPT ![reader[r].source] = IF @ = r THEN NoReader ELSE @]
      /\ UNCHANGED <<label, obs, known, parcels, cost, clean, hooks, hook, booked>>
  BY DEF Release, Reads
<1>2. holder[reader[r].source] = r /\ clean \in BOOLEAN
  BY <1>1, ReaderKnows
<1>3. holder' = [holder EXCEPT ![reader[r].source] = NoReader]
  BY <1>1, <1>2
<1>4. ~Owing(reader[r])
  BY <1>1 DEF Owing
<1> QED
  BY <1>1, <1>2, <1>3, <1>4, LeaseEnds

LEMMA FailsKeeps ==
    ASSUME CarrierColumns, CarrierInv, NEW r \in Readers, Fails(r)
    PROVE  CarrierColumns' /\ CarrierInv'
<1>1. /\ reader[r].pc # "idle" /\ reader' = [reader EXCEPT ![r] = Resting]
      /\ holder' = [holder EXCEPT ![reader[r].source] = NoReader]
      /\ clean' = (clean /\ reader[r].pc = "held")
      /\ UNCHANGED <<label, obs, known, parcels, cost, hooks, hook, booked>>
  BY DEF Fails
<1>2. clean' \in BOOLEAN /\ (clean' => clean /\ ~Owing(reader[r]))
  BY <1>1, ReaderKnows DEF Owing
<1> QED
  BY <1>1, <1>2, LeaseEnds

-----------------------------------------------------------------------------
(* The steps of the others                                                 *)

LEMMA SameCarriers ==
    ASSUME CarrierColumns, CarrierInv,
           UNCHANGED <<label, obs, known, parcels, cost, holder, reader, clean>>,
           hooks' \in Nat, hook' \in 0..hooks', booked' \subseteq Bills
    PROVE  CarrierColumns' /\ CarrierInv'
<1>1. CarrierColumns'
  BY DEF CarrierColumns, CarrierTypeOK
<1>2. MatchedRows' = MatchedRows
  BY SameRows
<1>3. Carried' <=> Carried
  BY <1>2, SameCarried
<1>4. LeaseHeld' /\ UnseenIsFree' /\ NamesStay'
  BY DEF CarrierInv, LeaseHeld, UnseenIsFree, NamesStay
<1>5. ReadIsFresh'
  BY <1>2 DEF CarrierInv, ReadIsFresh
<1>6. WritesAreOwed'
  BY <1>3 DEF CarrierInv, WritesAreOwed
<1> QED
  BY <1>1, <1>4, <1>5, <1>6 DEF CarrierInv

LEMMA VoidKeeps ==
    ASSUME CarrierColumns, CarrierInv, NEW s \in Sources, NEW k \in Labels, Void(s, k)
    PROVE  CarrierColumns' /\ CarrierInv'
<1>1. /\ label[s][k] # NoLabel /\ label' = [label EXCEPT ![s][k].void = TRUE]
      /\ UNCHANGED <<obs, known, parcels, cost, holder, reader, clean, hooks, hook, booked>>
  BY DEF Void
<1>2. label \in [Sources -> [Labels -> Label \cup {NoLabel}]]
  BY DEF CarrierColumns, CarrierTypeOK
<1>3. label[s][k] \in Label
  BY <1>1, <1>2
<1>4. [label[s][k] EXCEPT !.void = TRUE] \in Label
      /\ [label[s][k] EXCEPT !.void = TRUE].names = label[s][k].names
  BY <1>3 DEF Label
<1>5. \A t \in Sources, l \in Labels :
         label'[t][l] = IF t = s /\ l = k THEN [label[s][k] EXCEPT !.void = TRUE] ELSE label[t][l]
  BY <1>1, <1>2
<1>6. label' \in [Sources -> [Labels -> Label \cup {NoLabel}]]
  <2>1. label' = [label EXCEPT ![s] = [label[s] EXCEPT ![k] = [label[s][k] EXCEPT !.void = TRUE]]]
    BY <1>1
  <2> QED
    BY <1>2, <1>4, <2>1
<1>7. \A t \in Sources, l \in Labels : label'[t][l].names = label[t][l].names
  BY <1>4, <1>5
<1>8. CarrierColumns'
  BY <1>1, <1>6 DEF CarrierColumns, CarrierTypeOK
<1>9. MatchedRows' = MatchedRows
  BY <1>1, SameRows
<1>10. Carried' <=> Carried
  BY <1>1, <1>9, SameCarried
<1>11. LeaseHeld' /\ UnseenIsFree'
  BY <1>1 DEF CarrierInv, LeaseHeld, UnseenIsFree
<1>12. NamesStay'
  <2>1. \A r \in Readers : reader[r].source \in Sources /\ reader[r].left \in SUBSET Labels
    BY ReaderTyped
  <2> QED
    BY <1>1, <1>7, <2>1 DEF CarrierInv, NamesStay
<1>13. ReadIsFresh'
  BY <1>1, <1>9 DEF CarrierInv, ReadIsFresh
<1>14. WritesAreOwed'
  BY <1>1, <1>10 DEF CarrierInv, WritesAreOwed
<1> QED
  BY <1>8, <1>11, <1>12, <1>13, <1>14 DEF CarrierInv

LEMMA ArrivalKeeps ==
    ASSUME CarrierColumns, CarrierInv, OrderArrives
    PROVE  CarrierColumns' /\ CarrierInv'
<1>1. /\ ~known /\ known' = TRUE
      /\ UNCHANGED <<label, obs, parcels, cost, holder, reader, clean, hooks, hook, booked>>
  BY DEF OrderArrives
<1>2. CarrierColumns'
  BY <1>1 DEF CarrierColumns, CarrierTypeOK
<1>3. LeaseHeld' /\ NamesStay'
  BY <1>1 DEF CarrierInv, LeaseHeld, NamesStay
<1>4. UnseenIsFree'
  BY <1>1 DEF CarrierInv, UnseenIsFree
<1>5. MatchedRows' = {} /\ MatchedRows = {}
  <2>1. \A s \in Sources, l \in Labels : ~obs[s][l].order
    BY <1>1 DEF CarrierInv, UnseenIsFree
  <2>2. MatchedRows = {}
    BY <2>1 DEF MatchedRows, Matched
  <2> QED
    BY <1>1, <2>2, SameRows
<1>6. ReadIsFresh'
  BY <1>1, <1>5 DEF CarrierInv, ReadIsFresh
<1>7. Carried'
  <2>1. cost \in [Parcels -> Int] /\ \A f \in parcels \cap Parcels : cost[f] = 0
    BY <1>1 DEF CarrierColumns, CarrierTypeOK, CarrierInv, UnseenIsFree
  <2>2. SumOf([f \in Parcels |-> IF f \in parcels THEN cost[f] ELSE 0]) = 0
    BY <2>1, NothingAddsUp
  <2>3. CostOf(parcels)' = 0
    BY <1>1, <2>2 DEF CostOf
  <2> QED
    BY <1>5, <2>3 DEF Carried
<1> QED
  BY <1>2, <1>3, <1>4, <1>6, <1>7 DEF CarrierInv, WritesAreOwed

LEMMA ParcelKeeps ==
    ASSUME CarrierColumns, CarrierInv, NEW f \in Parcels, ParcelChanges(f)
    PROVE  CarrierColumns' /\ CarrierInv'
<1>1. /\ known /\ ~clean' /\ clean' \in BOOLEAN
      /\ parcels' = IF f \in parcels THEN parcels \ {f} ELSE parcels \cup {f}
      /\ reader' = [q \in Readers |-> [reader[q] EXCEPT !.fresh = FALSE]]
      /\ UNCHANGED <<label, obs, known, cost, holder, hooks, hook, booked>>
  BY DEF ParcelChanges
<1>2. ASSUME NEW q \in Readers
      PROVE  /\ reader'[q] \in Reader
             /\ reader'[q].pc = reader[q].pc /\ reader'[q].source = reader[q].source
             /\ reader'[q].known = reader[q].known /\ reader'[q].left = reader[q].left
             /\ reader'[q].took = reader[q].took /\ reader'[q].hit = reader[q].hit
             /\ reader'[q].rows = reader[q].rows /\ reader'[q].fills = reader[q].fills
             /\ reader'[q].fresh = FALSE
  <2>1. reader[q] \in Reader /\ reader'[q] = [reader[q] EXCEPT !.fresh = FALSE]
    BY <1>1, ReaderTyped
  <2>2. [reader[q] EXCEPT !.fresh = FALSE] \in Reader
    BY <2>1, ReaderWrites
  <2> QED
    BY <2>1, <2>2 DEF Reader
<1>3. reader' \in [Readers -> Reader]
  <2>1. \A q \in Readers : [reader[q] EXCEPT !.fresh = FALSE] \in Reader
    BY ReaderTyped, ReaderWrites
  <2> QED
    BY <1>1, <2>1
<1>4. CarrierTypeOK'
  <2>1. \A q \in Readers : reader'[q].pc \in {"idle", "held", "match", "store", "settle", "write", "end"}
    BY <1>2 DEF Reader
  <2>2. parcels' \subseteq Parcels
    BY <1>1 DEF CarrierColumns, CarrierTypeOK
  <2> QED
    BY <1>1, <2>1, <2>2 DEF CarrierColumns, CarrierTypeOK
<1>5. CarrierColumns'
  <2>1. \A q \in Readers :
          /\ \A l \in reader'[q].left : reader'[q].took[l] \in Label
          /\ IsFiniteSet(reader'[q].rows)
          /\ reader'[q].pc \in {"settle", "write"} => reader'[q].fills # {}
    BY <1>2 DEF CarrierColumns
  <2> QED
    BY <1>1, <1>3, <1>4, <2>1 DEF CarrierColumns
<1>6. LeaseHeld' /\ NamesStay' /\ UnseenIsFree'
  <2>1. LeaseHeld'
    BY <1>1, <1>2 DEF CarrierInv, LeaseHeld
  <2>2. NamesStay'
    <3>1. \A s \in Sources, l \in Labels : obs'[s][l].order => label'[s][l].names
      BY <1>1 DEF CarrierInv, NamesStay
    <3>2. ASSUME NEW q \in Readers
          PROVE  \A l \in reader'[q].left :
                    reader'[q].took[l].names = label'[reader'[q].source][l].names
      <4>1. \A l \in reader[q].left : reader[q].took[l].names = label[reader[q].source][l].names
        BY DEF CarrierInv, NamesStay
      <4> QED
        BY <1>1, <1>2, <4>1
    <3> QED
      BY <3>1, <3>2 DEF NamesStay
  <2>3. ASSUME NEW q \in Readers
        PROVE  /\ reader'[q].known \/ reader'[q].hit \/ reader'[q].pc \in {"settle", "write"}
                     => known'
               /\ reader'[q].pc = "store" /\ ~reader'[q].known =>
                     \A l \in Labels : ~obs'[reader'[q].source][l].order
    <3>1. reader[q].pc = "store" /\ ~reader[q].known =>
            \A l \in Labels : ~obs[reader[q].source][l].order
      BY DEF CarrierInv, UnseenIsFree
    <3> QED
      BY <1>1, <1>2, <3>1
  <2>4. UnseenIsFree'
    BY <1>1, <2>3 DEF UnseenIsFree
  <2> QED
    BY <2>1, <2>2, <2>4
<1>7. ReadIsFresh' /\ WritesAreOwed'
  BY <1>1, <1>2 DEF ReadIsFresh, WritesAreOwed
<1> QED
  BY <1>5, <1>6, <1>7 DEF CarrierInv

LEMMA ListenerKeeps ==
    ASSUME CarrierColumns, CarrierInv, EnsureShipStationWebhook
    PROVE  CarrierColumns' /\ CarrierInv'
<1>1. hooks \in Nat /\ hook \in 0..hooks /\ booked \subseteq Bills
  BY DEF CarrierColumns, CarrierTypeOK
<1>2. PICK listed \in BOOLEAN, saved \in BOOLEAN :
        LET found == IF hook # 0 THEN hook
                     ELSE IF listed /\ hooks > 0 THEN 1 ELSE 0
            make  == found = 0
        IN  /\ hooks' = IF make THEN hooks + 1 ELSE hooks
            /\ hook' = IF saved THEN IF make THEN hooks' ELSE found ELSE hook
  BY DEF EnsureShipStationWebhook
<1>3. hooks' \in Nat /\ hook' \in 0..hooks'
  BY <1>1, <1>2
<1> QED
  BY <1>1, <1>3, SameCarriers DEF EnsureShipStationWebhook

LEMMA BillsKeep ==
    ASSUME CarrierColumns, CarrierInv, RecordShippingAdjustments
    PROVE  CarrierColumns' /\ CarrierInv'
<1>1. hooks \in Nat /\ hook \in 0..hooks /\ booked \subseteq Bills
  BY DEF CarrierColumns, CarrierTypeOK
<1>2. hooks' \in Nat /\ hook' \in 0..hooks' /\ booked' \subseteq Bills
  BY <1>1 DEF RecordShippingAdjustments
<1> QED
  BY <1>2, SameCarriers DEF RecordShippingAdjustments

LEMMA CarriersStep == CarrierColumns /\ CarrierInv /\ [Next]_vars => CarrierColumns' /\ CarrierInv'
<1> SUFFICES ASSUME CarrierColumns, CarrierInv, [Next]_vars
             PROVE  CarrierColumns' /\ CarrierInv'
  OBVIOUS
<1>1. CASE Carrying
  <2>1. CarriersNext
    BY <1>1 DEF Carrying
  <2>2. ASSUME NEW r \in Readers, ReaderStep(r)
        PROVE  CarrierColumns' /\ CarrierInv'
    BY <2>2, FetchKeeps, ReadOrdersKeeps, StoreKeeps, ReadRowsKeeps, SetAsideKeeps,
       WriteKeeps, ReleaseKeeps DEF ReaderStep
  <2> QED
    BY <2>1, <2>2, FailsKeeps, ClaimKeeps, VoidKeeps, ArrivalKeeps, ListenerKeeps, BillsKeep,
       ParcelKeeps DEF CarriersNext
<1>2. CASE UNCHANGED carrierVars
  <2>1. hooks' \in Nat /\ hook' \in 0..hooks' /\ booked' \subseteq Bills
    BY <1>2 DEF carrierVars, CarrierColumns, CarrierTypeOK
  <2> QED
    BY <1>2, <2>1, SameCarriers DEF carrierVars
<1> QED
  BY <1>1, <1>2 DEF Next, Ads, vars

LEMMA CarriersInitially == Init => CarrierColumns /\ CarrierInv
<1> SUFFICES ASSUME Init PROVE CarrierColumns /\ CarrierInv
  OBVIOUS
<1>1. PICK s \in Stories : CarriersInit(s.labels, s.known, s.parcels)
  BY DEF Init
<1>2. /\ s.labels \in [Sources -> [Labels -> Label \cup {NoLabel}]]
      /\ s.known \in BOOLEAN /\ s.parcels \subseteq Parcels
  BY StoriesAssumption
<1>3. /\ label = s.labels /\ obs = [t \in Sources |-> [l \in Labels |-> NoRow]]
      /\ known = s.known /\ parcels = s.parcels /\ cost = [f \in Parcels |-> 0]
      /\ holder = [t \in Sources |-> NoReader] /\ reader = [r \in Readers |-> Resting]
      /\ clean = TRUE /\ hooks = 0 /\ hook = 0 /\ booked = {}
  BY <1>1 DEF CarriersInit
<1>4. /\ Resting \in Reader /\ IsFiniteSet(Resting.rows) /\ Resting.left = {}
      /\ Resting.pc = "idle" /\ ~Resting.known /\ ~Resting.hit /\ ~Resting.fresh
  BY RestingTyped DEF Resting
<1>5. /\ NoRow \in [of : Label \cup {NoLabel}, status : States, order : BOOLEAN]
      /\ NoRow.status # "MATCHED" /\ ~NoRow.order
  BY DEF NoRow, States
<1>6. /\ \A r \in Readers : reader[r] = Resting
      /\ \A t \in Sources, l \in Labels : obs[t][l] = NoRow
  BY <1>3
<1>7. obs \in [Sources -> [Labels -> [of : Label \cup {NoLabel}, status : States, order : BOOLEAN]]]
  BY <1>3, <1>5
<1>8. CarrierTypeOK
  <2>1. \A r \in Readers : reader[r].pc \in {"idle", "held", "match", "store", "settle", "write", "end"}
    BY <1>4, <1>6
  <2>2. cost \in [Parcels -> Int] /\ holder \in [Sources -> Readers \cup {NoReader}]
    BY <1>3
  <2> QED
    BY <1>2, <1>3, <1>7, <2>1, <2>2 DEF CarrierTypeOK
<1>9. CarrierColumns
  <2>1. reader \in [Readers -> Reader]
    BY <1>3, <1>4
  <2> QED
    BY <1>4, <1>5, <1>6, <1>8, <2>1 DEF CarrierColumns
<1>10. LeaseHeld /\ UnseenIsFree /\ NamesStay /\ ReadIsFresh
  BY <1>3, <1>4, <1>5, <1>6 DEF LeaseHeld, UnseenIsFree, NamesStay, ReadIsFresh
<1>11. Carried
  <2>1. MatchedRows = {}
    BY <1>5, <1>6 DEF MatchedRows, Matched
  <2>2. cost \in [Parcels -> Int] /\ \A f \in parcels \cap Parcels : cost[f] = 0
    BY <1>3
  <2>3. CostOf(parcels) = 0
    BY <2>2, NothingAddsUp DEF CostOf
  <2> QED
    BY <2>1, <2>3 DEF Carried
<1> QED
  BY <1>9, <1>10, <1>11 DEF CarrierInv, WritesAreOwed

(* A label that two connectors see is not paid twice: when no reader is at *)
(* work, the parcels carry to the cent what selectCarrierTotal chose, the  *)
(* total of the source that sees most labels, whoever last wrote it in     *)
(* reconcileShippingObservations of app/integrations/shipping.server.ts.   *)
THEOREM LabelsPaidOnce == Spec => []CarrierCostIsChosen
<1>1. CarrierColumns /\ CarrierInv => CarrierCostIsChosen
  <2>1. \A r \in Readers : reader[r].pc = "idle" => ~Owing(reader[r])
    BY DEF Owing
  <2> QED
    BY <2>1 DEF CarrierInv, WritesAreOwed, CarrierCostIsChosen, Carried
<1> QED
  BY <1>1, CarriersInitially, CarriersStep, PTL DEF Spec

(* All columns of the three connectors keep their types: what one actor    *)
(* writes another can read.                                                *)
THEOREM ConnectorsTypeCorrect == Spec => []TypeOK
<1>1. CarrierColumns => CarrierTypeOK
  BY DEF CarrierColumns
<1>2. Spec => []CarrierTypeOK
  BY <1>1, CarriersInitially, CarriersStep, PTL DEF Spec
<1> QED
  BY <1>2, AdsTypeCorrect, PTL DEF TypeOK

-----------------------------------------------------------------------------
(* The tax of an order                                                     *)

(* A line of tax has a whole number of cents.                              *)
AreLines(lines) ==
    /\ lines \in Seq({lines[i] : i \in DOMAIN lines})
    /\ \A i \in DOMAIN lines : lines[i].cents \in Int
IsOrder(order) == /\ order.tax \in Int
                  /\ AreLines(order.goods) /\ AreLines(order.shipping) /\ AreLines(order.whole)

LEMMA GroupTyped ==
    ASSUME NEW lines, AreLines(lines), NEW key
    PROVE  GroupCents(lines, key) \in Int
<1> DEFINE f == [i \in DOMAIN lines |-> IF KeyOf(lines[i]) = key THEN lines[i].cents ELSE 0]
<1>1. Len(lines) \in Nat /\ DOMAIN lines = 1..Len(lines)
  BY DEF AreLines
<1>2. f \in [1..Len(lines) -> Int]
  BY <1>1 DEF AreLines
<1> HIDE DEF f
<1>3. SumOf(f) \in Int
  BY <1>1, <1>2, SumIsPartial
<1> QED
  BY <1>3 DEF GroupCents, f

LEMMA KeysFinite ==
    ASSUME NEW lines, AreLines(lines)
    PROVE  IsFiniteSet(KeysOf(lines))
<1> DEFINE f == [i \in DOMAIN lines |-> KeyOf(lines[i])]
<1>1. Len(lines) \in Nat /\ DOMAIN lines = 1..Len(lines)
  BY DEF AreLines
<1>2. IsFiniteSet(DOMAIN lines)
  BY <1>1, FS_Interval
<1>3. f \in Surjection(DOMAIN lines, KeysOf(lines))
  BY DEF Surjection, KeysOf
<1> HIDE DEF f
<1> QED
  BY <1>2, <1>3, FS_Surjection

LEMMA Ordered ==
    ASSUME NEW S, IsFiniteSet(S), S # {}
    PROVE  Cardinality(S) \in Nat \ {0} /\ InSomeOrder(S) \in [1..Cardinality(S) -> S]
<1>1. Cardinality(S) \in Nat /\ ExistsBijection(1..Cardinality(S), S)
  BY FS_CardinalityType
<1>2. Cardinality(S) # 0
  BY FS_EmptySet
<1>3. PICK s \in Bijection(1..Cardinality(S), S) : TRUE
  BY <1>1 DEF ExistsBijection
<1>4. s \in [1..Cardinality(S) -> S] /\ \A i, j \in DOMAIN s : i # j => s[i] # s[j]
  BY <1>3 DEF Bijection, Injection, IsInjective, Surjection
<1> DEFINE n == Cardinality(S)
           Orders(f) == \A i, j \in DOMAIN f : i # j => f[i] # f[j]
<1>5. \E f \in [1..n -> S] : Orders(f)
  BY <1>4
<1>6. InSomeOrder(S) = CHOOSE f \in [1..n -> S] : Orders(f)
  BY DEF InSomeOrder
<1> HIDE DEF n, Orders
<1>7. InSomeOrder(S) \in [1..n -> S]
  BY <1>5, <1>6
<1> QED
  BY <1>1, <1>2, <1>7 DEF n

LEMMA PairTyped == ASSUME NEW a \in Int, NEW b \in Int PROVE <<a, b>> \in [1..2 -> Int]
  OBVIOUS

(* The parts of a split by groups: each of goods and of shipping.          *)
LEMMA SplitAddsUp ==
    ASSUME NEW order, order.tax \in Int, NEW n \in Nat \ {0}, NEW keys, DOMAIN keys = 1..n,
           NEW goods, AreLines(goods), AreLines(order.shipping)
    PROVE  LET v == SplitAmong(order, goods, keys) IN
           /\ DOMAIN v = 1..n
           /\ SumOf([i \in DOMAIN v |-> v[i].tax]) = order.tax
           /\ \A i \in DOMAIN v : v[i].goods + v[i].shipping = v[i].tax
<1> DEFINE groups == [i \in DOMAIN keys |-> Both(goods, order.shipping, keys[i])]
           sums == [i \in DOMAIN keys |-> SumOf(groups[i])]
           parts == Allocated(order.tax, sums)
           v == SplitAmong(order, goods, keys)
<1>1. DOMAIN keys = 1..n
  OBVIOUS
<1>2. ASSUME NEW i \in 1..n
      PROVE  groups[i] \in [1..2 -> Int] /\ sums[i] = SumOf(groups[i]) /\ SumOf(groups[i]) \in Int
  <2>1. GroupCents(goods, keys[i]) \in Int /\ GroupCents(order.shipping, keys[i]) \in Int
    BY GroupTyped
  <2>2. Both(goods, order.shipping, keys[i]) \in [1..2 -> Int]
    BY <2>1, PairTyped DEF Both
  <2>3. groups[i] \in [1..2 -> Int]
    BY <2>2
  <2>4. SumOf(groups[i]) \in Int
    BY <2>3, SumIsPartial
  <2> QED
    BY <2>3, <2>4
<1> HIDE DEF groups
<1>3. sums \in [1..n -> Int]
  BY <1>1, <1>2
<1> HIDE DEF sums
<1>4. parts \in [1..n -> Int] /\ SumOf(parts) = order.tax
  BY <1>3, AllocationIsExact
<1>5. v = Split(order, keys, groups, parts)
  BY DEF SplitAmong, SplitBy, groups, sums
<1> HIDE DEF parts, v
<1>6. DOMAIN v = 1..n
  BY <1>5 DEF Split
<1>7. ASSUME NEW i \in 1..n
      PROVE  v[i].tax = parts[i] /\ v[i].goods + v[i].shipping = parts[i]
  <2> DEFINE halves == Allocated(parts[i], groups[i])
  <2>1. v[i] = Share(keys[i], order.country, SumOf(groups[i]), parts[i], halves)
    BY <1>5 DEF Split
  <2>2. parts[i] \in Int /\ 2 \in Nat \ {0}
    BY <1>4
  <2>3. halves \in [1..2 -> Int] /\ SumOf(halves) = parts[i]
    BY <1>2, <2>2, AllocationIsExact
  <2> HIDE DEF halves
  <2>4. SumOf(halves) = halves[1] + halves[2]
    <3> DEFINE p == Partial(halves, 2)
    <3>1. /\ SumOf(halves) = p[2] /\ p \in [0..2 -> Int] /\ p[0] = 0
          /\ \A k \in 1..2 : p[k] = p[k - 1] + halves[k]
      BY <2>2, <2>3, SumIsPartial
    <3> HIDE DEF p
    <3>2. p[1] = p[0] + halves[1] /\ p[2] = p[1] + halves[2]
      BY <3>1
    <3> QED
      BY <2>3, <3>1, <3>2
  <2>5. v[i].tax = parts[i] /\ v[i].goods = halves[1] /\ v[i].shipping = halves[2]
    BY <2>1 DEF Share
  <2> QED
    BY <2>3, <2>4, <2>5
<1>8. [i \in DOMAIN v |-> v[i].tax] = parts
  BY <1>4, <1>6, <1>7
<1>9. SumOf([i \in DOMAIN v |-> v[i].tax]) = order.tax
  BY <1>4, <1>8
<1> QED
  BY <1>6, <1>7, <1>9 DEF v

LEMMA SplitsAddUp ==
    ASSUME NEW order, NEW n \in Nat \ {0}, NEW keys, DOMAIN keys = 1..n,
           NEW goods, AreLines(goods), AreLines(order.shipping), order.tax \in Int,
           NEW v, v = SplitAmong(order, goods, keys)
    PROVE  /\ SumOf([i \in DOMAIN v |-> v[i].tax]) = order.tax
           /\ \A i \in DOMAIN v : v[i].goods + v[i].shipping = v[i].tax
<1> DEFINE w == SplitAmong(order, goods, keys)
<1>1. /\ DOMAIN w = 1..n
      /\ SumOf([i \in DOMAIN w |-> w[i].tax]) = order.tax
      /\ \A i \in DOMAIN w : w[i].goods + w[i].shipping = w[i].tax
  BY SplitAddsUp
<1> QED
  BY <1>1

(* The jurisdictions of an order add up to the tax that Shopify states,    *)
(* and goods and shipping add up to each, whatever lines were stated:      *)
(* splitOrderTax of app/engine/tax.ts.                                     *)
THEOREM TaxIsSplitExactly ==
    ASSUME NEW order, IsOrder(order)
    PROVE  LET v == SplitOrderTax(order) IN
           /\ SumOf([i \in DOMAIN v |-> v[i].tax]) = order.tax
           /\ \A i \in DOMAIN v : v[i].goods + v[i].shipping = v[i].tax
<1> DEFINE stated == KeysOf(order.goods) \cup KeysOf(order.shipping)
           whole == KeysOf(order.whole)
           v == SplitOrderTax(order)
<1>1. /\ order.tax \in Int
      /\ AreLines(order.goods) /\ AreLines(order.shipping) /\ AreLines(order.whole)
  BY DEF IsOrder
<1>2. IsFiniteSet(stated) /\ IsFiniteSet(whole)
  BY <1>1, KeysFinite, FS_Union
<1> HIDE DEF stated, whole
<1>3. CASE stated # {}
  <2>1. Cardinality(stated) \in Nat \ {0}
        /\ InSomeOrder(stated) \in [1..Cardinality(stated) -> stated]
    BY <1>2, <1>3, Ordered
  <2>2. v = SplitAmong(order, order.goods, InSomeOrder(stated))
    BY <1>3 DEF SplitOrderTax, stated
  <2> DEFINE n == Cardinality(stated)
             keys == InSomeOrder(stated)
  <2>3. n \in Nat \ {0} /\ keys \in [1..n -> stated] /\ v = SplitAmong(order, order.goods, keys)
    BY <2>1, <2>2
  <2> HIDE DEF v, n, keys
  <2>4. /\ SumOf([i \in DOMAIN v |-> v[i].tax]) = order.tax
        /\ \A i \in DOMAIN v : v[i].goods + v[i].shipping = v[i].tax
    <3>1. /\ n \in Nat \ {0} /\ DOMAIN keys = 1..n /\ AreLines(order.goods) /\ AreLines(order.shipping)
          /\ order.tax \in Int
      BY <1>1, <2>3
    <3> QED
      BY <2>3, <3>1, SplitsAddUp
  <2> QED
    BY <2>4 DEF v
<1>4. CASE stated = {} /\ whole # {}
  <2>1. Cardinality(whole) \in Nat \ {0} /\ InSomeOrder(whole) \in [1..Cardinality(whole) -> whole]
    BY <1>2, <1>4, Ordered
  <2>2. v = SplitAmong(order, order.whole, InSomeOrder(whole))
    BY <1>4 DEF SplitOrderTax, stated, whole
  <2> DEFINE n == Cardinality(whole)
             keys == InSomeOrder(whole)
  <2>3. n \in Nat \ {0} /\ keys \in [1..n -> whole] /\ v = SplitAmong(order, order.whole, keys)
    BY <2>1, <2>2
  <2> HIDE DEF v, n, keys
  <2>4. /\ SumOf([i \in DOMAIN v |-> v[i].tax]) = order.tax
        /\ \A i \in DOMAIN v : v[i].goods + v[i].shipping = v[i].tax
    <3>1. /\ n \in Nat \ {0} /\ DOMAIN keys = 1..n /\ AreLines(order.whole) /\ AreLines(order.shipping)
          /\ order.tax \in Int
      BY <1>1, <2>3
    <3> QED
      BY <2>3, <3>1, SplitsAddUp
  <2> QED
    BY <2>4 DEF v
<1>5. CASE stated = {} /\ whole = {}
  <2>1. v = Unallocated(order)
    BY <1>5 DEF SplitOrderTax, stated, whole
  <2> HIDE DEF v
  <2>2. CASE order.tax = 0
    <3>1. v = <<>>
      BY <2>1, <2>2 DEF Unallocated
    <3>2. [i \in DOMAIN v |-> v[i].tax] \in [1..0 -> Int] /\ DOMAIN v = {}
      BY <3>1
    <3>3. SumOf([i \in DOMAIN v |-> v[i].tax]) = 0
      <4> DEFINE f == [i \in DOMAIN v |-> v[i].tax]
      <4>1. f \in [1..0 -> Int]
        BY <3>2
      <4> HIDE DEF f
      <4>2. SumOf(f) = Partial(f, 0)[0] /\ Partial(f, 0)[0] = 0
        BY <4>1, SumIsPartial
      <4> QED
        BY <4>2 DEF f
    <3> QED
      BY <2>2, <3>2, <3>3 DEF v
  <2>3. CASE order.tax # 0
    <3>1. /\ DOMAIN v = 1..1 /\ v[1].tax = order.tax /\ v[1].goods = order.tax
          /\ v[1].shipping = 0
      BY <2>1, <2>3 DEF Unallocated
    <3> DEFINE f == [i \in DOMAIN v |-> v[i].tax]
               p == Partial(f, 1)
    <3>2. f \in [1..1 -> Int] /\ f[1] = order.tax
      BY <1>1, <3>1
    <3> HIDE DEF f
    <3>3. SumOf(f) = p[1] /\ p[0] = 0 /\ p[1] = p[1 - 1] + f[1]
      <4>1. 1 \in Nat /\ 1 \in 1..1
        OBVIOUS
      <4> QED
        BY <3>2, <4>1, SumIsPartial
    <3>4. SumOf(f) = order.tax
      BY <1>1, <3>2, <3>3
    <3> QED
      BY <1>1, <3>1, <3>4 DEF v, f
  <2> QED
    BY <2>2, <2>3
<1> QED
  BY <1>3, <1>4, <1>5
=============================================================================
