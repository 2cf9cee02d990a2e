------------------------------ MODULE AdHealth ------------------------------
(***************************************************************************)
(* One advertising connector, its credentials and its health checks:       *)
(* app/integrations/ad-health.server.ts, lease.server.ts and               *)
(* scheduler.server.ts.                                                    *)
(*                                                                         *)
(* Every process sweeps: it reads the rows that are due, claims each one's *)
(* lease against the time the sweep began, and checks the row it READ.  A  *)
(* merchant may store credentials meanwhile; nothing is fenced.            *)
(*                                                                         *)
(* Abstractions.                                                           *)
(*  - A credential is an access token and, for Google, a refresh token.    *)
(*    An access token expires and a refresh makes it fresh; the platform   *)
(*    may refuse a whole credential and accept it again.  "expiry" is what *)
(*    tokenExpiresAt says: later, within five minutes or past, or nothing. *)
(*  - The database does not fail during a check.                           *)
(*  - Backoff and intervals are the action Due: the next check falls due.  *)
(*  - Failures are counted up to MaxFailures; the code compares with 3.    *)
(*  - "alerts" counts attempts: a webhook that refuses is an attempt too.  *)
(***************************************************************************)
EXTENDS Integers, FiniteSets

CONSTANTS
    Creds,       \* credentials a merchant may store
    NoCred,      \* none
    Processes,   \* application processes that sweep
    NoProcess,   \* no lease
    MaxFailures  \* consecutive failures are counted to here (>= 4)

ASSUME AdHealthAssumption ==
    /\ NoCred \notin Creds /\ NoProcess \notin Processes
    /\ MaxFailures \in Nat /\ MaxFailures >= 4

VARIABLES
    google,   \* whether the provider's tokens are refreshed; chosen once
    allowed,  \* what may still go wrong or change (bounds)
    usable,   \* credentials the platform accepts
    link,     \* the Connector row
    lease,    \* workLeaseToken: by; whether it is still running: live
    check,    \* the checks of the processes
    outage,   \* ghost: the present outage: alerts, kinds of failure
    apart     \* ghost: no check has met another's or a merchant's write

healthVars == <<google, allowed, usable, link, lease, check, outage, apart>>

Statuses == {"connected", "error", "disconnected"}
Expiries == {"later", "soon", "none"}
Link == [status : Statuses, access : Creds \cup {NoCred}, fresh : BOOLEAN,
         expiry : Expiries, refresh : Creds \cup {NoCred},
         standby : Creds \cup {NoCred}, failures : 0..MaxFailures,
         due : BOOLEAN]
Check == [pc : {"idle", "read", "held", "probe", "again", "second", "spare",
                "well", "ill", "alert", "over"},
          seen : Link, token : Creds \cup {NoCred}, fresh : BOOLEAN, strike : BOOLEAN,
          auth : BOOLEAN]

HealthTypeOK ==
    /\ google \in BOOLEAN /\ apart \in BOOLEAN
    /\ usable \subseteq Creds
    /\ link \in Link
    /\ lease \in [by : Processes \cup {NoProcess}, live : BOOLEAN]
    /\ check \in [Processes -> Check]
    /\ outage \in [alerts : 0..4, auth : BOOLEAN, soft : BOOLEAN]

NoLink   == [status |-> "connected", access |-> NoCred, fresh |-> FALSE,
           expiry |-> "none", refresh |-> NoCred, standby |-> NoCred,
           failures |-> 0, due |-> FALSE]
NoCheck == [pc |-> "idle", seen |-> NoLink, token |-> NoCred, fresh |-> FALSE,
            strike |-> FALSE, auth |-> FALSE]
Calm == [alerts |-> 0, auth |-> FALSE, soft |-> FALSE]

(* An expiry may be left out when a credential is stored; where nothing is *)
(* refreshed, none matters.                                                *)
Stated(refreshes) == IF refreshes THEN {"later", "none"} ELSE {"later"}

May(what) == allowed[what] > 0
Spent(what) == allowed' = [allowed EXCEPT ![what] = @ - 1]

HealthInit(cred, standby, refreshes, expiry) ==
    /\ google = refreshes
    /\ usable = Creds
    /\ link = [status |-> "connected", access |-> cred, fresh |-> TRUE,
               expiry |-> expiry,
               refresh |-> IF refreshes THEN cred ELSE NoCred,
               standby |-> standby, failures |-> 0, due |-> May("dues")]
    /\ lease = [by |-> NoProcess, live |-> FALSE]
    /\ check = [p \in Processes |-> NoCheck]
    /\ outage = Calm
    /\ apart = TRUE

-----------------------------------------------------------------------------
(* The world: the platform, the clock, the merchant                        *)

Revoke(c)  == /\ May("revokes") /\ Spent("revokes")
              /\ usable' = usable \ {c}
              /\ UNCHANGED <<google, link, lease, check, outage, apart>>

Restore(c) == /\ usable' = usable \cup {c}
              /\ c \notin usable
              /\ UNCHANGED <<google, allowed, link, lease, check, outage, apart>>

(* The last five minutes of a token, and its end.                          *)
Nears      == /\ google /\ May("expiries") /\ link.expiry = "later"
              /\ link' = [link EXCEPT !.expiry = "soon"]
              /\ UNCHANGED <<google, allowed, usable, lease, check, outage, apart>>

Expire     == /\ google /\ May("expiries") /\ Spent("expiries")
              /\ link.expiry # "later"
              /\ link' = [link EXCEPT !.fresh = FALSE]
              /\ UNCHANGED <<google, usable, lease, check, outage, apart>>

(* nextHealthCheckAt is reached, in behaviours that last that long.        *)
Due        == /\ ~link.due /\ May("dues")
              /\ link' = [link EXCEPT !.due = TRUE]
              /\ UNCHANGED <<google, allowed, usable, lease, check, outage, apart>>

(* storeConnectorCredentials: no lease, no look at a check under way.      *)
StoreConnectorCredentials(c, standby) ==
    /\ May("stores") /\ Spent("stores")
    /\ \E e \in Stated(google) :
         link' = IF standby THEN [link EXCEPT !.standby = c]
                 ELSE [link EXCEPT !.access = c, !.fresh = TRUE, !.expiry = e,
                                   !.refresh = IF google THEN c ELSE NoCred,
                                   !.status = "connected", !.failures = 0,
                                   !.due = TRUE]
    /\ outage' = IF standby THEN outage ELSE Calm
    /\ apart' = (apart /\ \A p \in Processes : check[p].pc = "idle")
    /\ UNCHANGED <<google, usable, lease, check>>

-----------------------------------------------------------------------------
(* A sweep: runAdConnectorHealthSweep and withConnectorWork                *)

Goes(p, from, to) == check[p].pc = from
                     /\ check' = [check EXCEPT ![p].pc = to]

Ends(p, from) == check[p].pc = from
                 /\ check' = [check EXCEPT ![p] = NoCheck]

(* The row is read before its lease is claimed.                            *)
SweepReads(p) ==
    /\ check[p].pc = "idle" /\ link.due
    /\ check' = [check EXCEPT ![p] =
                   [pc |-> "read", seen |-> link, token |-> link.access,
                    fresh |-> link.fresh, strike |-> FALSE, auth |-> FALSE]]
    /\ UNCHANGED <<google, allowed, usable, link, lease, outage, apart>>

ClaimConnectorWork(p) ==
    /\ check[p].pc = "read"
    /\ IF lease.by = NoProcess \/ ~lease.live
       THEN /\ lease' = [by |-> p, live |-> TRUE]
            /\ Goes(p, "read", "held")
            /\ apart' = (apart /\ check[p].seen = link)
       ELSE /\ Ends(p, "read")
            /\ UNCHANGED <<lease, apart>>
    /\ UNCHANGED <<google, allowed, usable, link, outage>>

ReleaseConnectorWork(p) ==
    /\ Ends(p, "over")
    /\ lease' = IF lease.by = p THEN [by |-> NoProcess, live |-> FALSE] ELSE lease
    /\ UNCHANGED <<google, allowed, usable, link, outage, apart>>

(* The lease of a dead process runs out; so does that of one which stalls  *)
(* and misses its heartbeats.                                              *)
Lapse ==
    /\ lease.live /\ check[lease.by].pc \in {"idle", "read"}
    /\ lease' = [lease EXCEPT !.live = FALSE]
    /\ UNCHANGED <<google, allowed, usable, link, check, outage, apart>>

Stalls(p) ==
    /\ lease.live /\ lease.by = p /\ check[p].pc \notin {"idle", "read"}
    /\ May("deaths") /\ Spent("deaths")
    /\ lease' = [lease EXCEPT !.live = FALSE]
    /\ apart' = FALSE
    /\ UNCHANGED <<google, usable, link, check, outage>>

Dies(p) ==
    /\ check[p].pc # "idle"
    /\ May("deaths") /\ Spent("deaths")
    /\ check' = [check EXCEPT ![p] = NoCheck]
    /\ apart' = FALSE
    /\ UNCHANGED <<google, usable, link, lease, outage>>

-----------------------------------------------------------------------------
(* checkAdConnector                                                        *)

Holding == UNCHANGED <<google, usable, lease, outage, apart>>

(* A token that may be good for minutes, or that says nothing of its end,  *)
(* is refreshed before it is tried.                                        *)
DueForRefresh(row) == google /\ row.refresh # NoCred /\ row.expiry # "later"
Renewed(row, c) == [row EXCEPT !.access = c, !.fresh = TRUE, !.expiry = "later"]

(* refreshPrimary: the access token of the refresh token that was read is  *)
(* written, whatever the row holds by now.                                 *)
Refreshed(p) ==
    /\ check[p].seen.refresh \in usable
    /\ link' = Renewed(link, check[p].seen.refresh)

(* The refresh that fails is remembered, and the old token tried.          *)
ProactiveRefresh(p) ==
    LET c == check[p] IN
    /\ c.pc = "held"
    /\ \/ /\ ~DueForRefresh(c.seen)
          /\ Goes(p, "held", "probe") /\ UNCHANGED <<link, allowed>>
       \/ /\ DueForRefresh(c.seen) /\ Refreshed(p)
          /\ check' = [check EXCEPT ![p] = [@ EXCEPT !.pc = "probe",
                              !.token = c.seen.refresh, !.fresh = TRUE]]
          /\ UNCHANGED allowed
       \/ /\ DueForRefresh(c.seen)
          /\ \/ c.seen.refresh \notin usable /\ UNCHANGED allowed
             \/ May("outages") /\ Spent("outages")
          /\ check' = [check EXCEPT ![p] = [@ EXCEPT !.pc = "probe", !.strike = TRUE]]
          /\ UNCHANGED link
    /\ Holding

(* probeAdToken: what each platform's answer to a token comes to, or that  *)
(* there was none and the call threw.                                      *)
Answered == {"ok", "auth", "outage", "thrown"}
ProbeAdToken(token, fresh, answer) ==
    CASE answer = "ok"   -> token \in usable /\ fresh /\ UNCHANGED allowed
      [] answer = "auth" -> ~(token \in usable /\ fresh) /\ UNCHANGED allowed
      [] OTHER           -> May("outages") /\ Spent("outages")

(* A failed refresh makes a failure of a token that is still good; so does *)
(* a probe that throws, which the sweep catches.                           *)
Probe(p) ==
    LET c == check[p] IN
    /\ c.pc = "probe"
    /\ \E answer \in Answered :
         /\ ProbeAdToken(c.token, c.fresh, answer)
         /\ check' = [check EXCEPT ![p] = [@ EXCEPT
              !.pc = CASE answer = "auth" -> "again"
                       [] answer = "ok" /\ ~c.strike -> "well"
                       [] OTHER -> "ill",
              !.auth = (answer = "auth")]]
    /\ UNCHANGED link /\ Holding

(* After a refusal a Google token is refreshed once more; a refresh that   *)
(* fails, for whatever reason, counts as a refusal.                        *)
RefreshAgain(p) ==
    LET c == check[p] IN
    /\ c.pc = "again"
    /\ \/ /\ google /\ c.seen.refresh # NoCred /\ Refreshed(p)
          /\ check' = [check EXCEPT ![p] = [@ EXCEPT !.pc = "second",
                              !.token = c.seen.refresh, !.fresh = TRUE]]
          /\ UNCHANGED allowed
       \/ /\ google /\ c.seen.refresh # NoCred
          /\ \/ c.seen.refresh \notin usable /\ UNCHANGED allowed
             \/ May("outages") /\ Spent("outages")
          /\ Goes(p, "again", "spare") /\ UNCHANGED link
       \/ /\ ~(google /\ c.seen.refresh # NoCred)
          /\ Goes(p, "again", "spare") /\ UNCHANGED <<link, allowed>>
    /\ Holding

(* The second probe is inside the catch of the refresh: one that throws    *)
(* counts as a refusal, one that is answered with an outage does not.      *)
ProbeAgain(p) ==
    LET c == check[p] IN
    /\ c.pc = "second"
    /\ \E answer \in Answered :
         /\ ProbeAdToken(c.token, c.fresh, answer)
         /\ check' = [check EXCEPT ![p] = [@ EXCEPT
              !.pc = CASE answer = "ok" -> "well" [] answer = "outage" -> "ill"
                       [] OTHER -> "spare",
              !.auth = (answer \in {"auth", "thrown"})]]
    /\ UNCHANGED link /\ Holding

(* The standby that was read is tried, and takes the primary's place with  *)
(* what was stored of its expiry.  One of Google's may be past it: nothing *)
(* refreshes a standby.                                                    *)
TryStandby(p) ==
    LET c == check[p] IN
    /\ c.pc = "spare"
    /\ \/ /\ c.seen.standby \in usable
          /\ \E e \in IF google THEN Expiries ELSE {"later"} :
               link' = [link EXCEPT !.access = c.seen.standby, !.fresh = TRUE,
                          !.expiry = e,
                          !.refresh = IF google THEN c.seen.standby ELSE NoCred,
                          !.standby = NoCred]
          /\ Goes(p, "spare", "well") /\ UNCHANGED allowed
       \/ /\ c.seen.standby \notin usable \/ google
          /\ Goes(p, "spare", "ill") /\ UNCHANGED <<link, allowed>>
       \/ /\ c.seen.standby # NoCred /\ May("outages") /\ Spent("outages")
          /\ Goes(p, "spare", "ill") /\ UNCHANGED link
    /\ Holding

CheckPassed(p) ==
    /\ Goes(p, "well", "over")
    /\ link' = [link EXCEPT !.status = "connected", !.failures = 0, !.due = FALSE]
    /\ outage' = Calm
    /\ UNCHANGED <<google, allowed, usable, lease, apart>>

(* Mutant of ShouldAlert: only the third failure alerts.                   *)
AlertAtThird(c, failures) == failures = 3

(* A refusal alerts on the transition, and any third failure does.         *)
ShouldAlert(c, failures) ==
    \/ c.auth /\ c.seen.status # "disconnected"
    \/ failures = 3

(* persistConnectorFailure: the count is that of the row that was read.    *)
PersistConnectorFailure(p) ==
    LET c == check[p]
        failures == IF c.seen.failures < MaxFailures THEN c.seen.failures + 1
                                                     ELSE MaxFailures
    IN  /\ c.pc = "ill"
        /\ link' = [link EXCEPT
              !.status = IF c.auth THEN "disconnected"
                         ELSE IF failures >= 3 THEN "error" ELSE "connected",
              !.failures = failures, !.due = FALSE]
        /\ check' = [check EXCEPT ![p].pc =
                       IF ShouldAlert(c, failures) THEN "alert" ELSE "over"]
        /\ outage' = [outage EXCEPT !.auth = @ \/ c.auth, !.soft = @ \/ ~c.auth]
        /\ UNCHANGED <<google, allowed, usable, lease, apart>>

SendConnectorAlert(p) ==
    /\ Goes(p, "alert", "over")
    /\ outage' = [outage EXCEPT !.alerts = IF @ < 4 THEN @ + 1 ELSE @]
    /\ UNCHANGED <<google, allowed, usable, link, lease, apart>>

CheckStep(p) ==
    \/ ClaimConnectorWork(p) \/ ProactiveRefresh(p) \/ Probe(p)
    \/ RefreshAgain(p) \/ ProbeAgain(p) \/ TryStandby(p) \/ CheckPassed(p)
    \/ PersistConnectorFailure(p) \/ SendConnectorAlert(p)
    \/ ReleaseConnectorWork(p)

HealthNext ==
    \/ \E c \in Creds : Revoke(c) \/ Restore(c)
                        \/ \E s \in BOOLEAN : StoreConnectorCredentials(c, s)
    \/ Nears \/ Expire \/ Due \/ Lapse
    \/ \E p \in Processes : SweepReads(p) \/ CheckStep(p) \/ Dies(p) \/ Stalls(p)

-----------------------------------------------------------------------------
(* Checks that keep apart alert the merchant of every outage and do not    *)
(* repeat themselves: a connector is disconnected, or has failed three     *)
(* times, only after an alert, and an outage of one kind brings at most    *)
(* two.  (One that changes its kind is announced at every turn.)           *)
OutagesAreAlerted ==
    (apart /\ \A p \in Processes : check[p].pc # "alert") =>
        /\ (link.status = "disconnected" \/ link.failures >= 3) => outage.alerts >= 1
        /\ ~(outage.auth /\ outage.soft) => outage.alerts <= 2
=============================================================================
