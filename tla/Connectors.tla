----------------------------- MODULE Connectors -----------------------------
(***************************************************************************)
(* The connectors of a shop: an advertising one, checked and ingested, and *)
(* the carriers'.  The two share only the recompute they ask for, so one   *)
(* of them moves in a behaviour: "part" says which, or that of the former  *)
(* only the health checks do.                                              *)
(***************************************************************************)
EXTENDS AdSpend, Carriers

CONSTANT Stories  \* what may happen in a behaviour: budgets and first states

(* A shop starts with a credential, perhaps a spare one, on some day; its  *)
(* carriers have some labels and its order some parcels.                   *)
ASSUME StoriesAssumption ==
    \A s \in Stories : /\ s.cred \in Creds /\ s.standby \in Creds \cup {NoCred}
                       /\ s.google \in BOOLEAN /\ s.today \in Days
                       /\ s.expiry \in Stated(s.google)
                       /\ s.labels \in [Sources -> [Labels -> Label \cup {NoLabel}]]
                       /\ s.known \in BOOLEAN /\ s.parcels \subseteq Parcels

VARIABLE part

vars == <<healthVars, spendVars, carrierVars, part>>

Init ==
    \E s \in Stories :
      /\ part = s.part
      /\ allowed = s.allowed /\ chance = s.chance
      /\ HealthInit(s.cred, s.standby, s.google, s.expiry)
      /\ SpendInit(s.today)
      /\ CarriersInit(s.labels, s.known, s.parcels)

Ads == /\ part \in {"ads", "health"}
       /\ \/ HealthNext /\ UNCHANGED spendVars
          \/ part = "ads" /\ SpendNext
       /\ UNCHANGED <<carrierVars, part>>

Carrying == /\ part = "carriers"
            /\ CarriersNext
            /\ UNCHANGED <<healthVars, spendVars, part>>

Next == Ads \/ Carrying

(* Timers and queue workers go on: a due connector is read by some sweep   *)
(* and checks run to their end, dead leases lapse, cycles are run, waiting *)
(* jobs are taken and steps taken to their end.                            *)
Fairness ==
    /\ WF_vars(Due /\ UNCHANGED <<spendVars, carrierVars, part>> /\ part = "ads")
    /\ WF_vars(Lapse /\ UNCHANGED <<spendVars, carrierVars, part>> /\ part = "ads")
    /\ \A p \in Processes :
         WF_vars((SweepReads(p) \/ CheckStep(p))
                 /\ UNCHANGED <<spendVars, carrierVars, part>> /\ part = "ads")
    /\ WF_vars(RunSchedulingCycle /\ UNCHANGED <<carrierVars, part>> /\ part = "ads")
    /\ \A s \in Slots :
         /\ WF_vars(IngestStep(s) /\ UNCHANGED <<carrierVars, part>> /\ part = "ads")
    /\ \A d \in Days :
         SF_vars(\E s \in Slots : StartIngest(s, d)
                 /\ UNCHANGED <<carrierVars, part>> /\ part = "ads")
    /\ WF_vars((StartRecompute \/ ReadSpend \/ FinishRecompute)
               /\ UNCHANGED <<carrierVars, part>> /\ part = "ads")

Spec == Init /\ [][Next]_vars /\ Fairness

TypeOK == HealthTypeOK /\ SpendTypeOK /\ CarrierTypeOK

-----------------------------------------------------------------------------
(* Every day that is due arrives: once the platform accepts the stored     *)
(* credential and goes on doing so, every day of the horizon is fetched    *)
(* and the days of the lookback are what the platform reports, whatever    *)
(* was disconnected, lost or failed before, and profit is computed from    *)
(* them (but for a day a recompute overtook).                              *)
Accepted == /\ link.access \in usable
            /\ link.fresh \/ (google /\ link.refresh \in usable)
Arrived  == /\ \A d \in Horizon..today : window[d].state = "synced"
            /\ \A d \in 1..today : d > today - Look => spend[d] = truth[d]
            /\ \A d \in Days \ overtaken : profit[d] = spend[d]
DueDaysArrive == (part = "ads" /\ <>[]Accepted) => <>[]Arrived
=============================================================================
