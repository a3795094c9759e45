------------------------------- MODULE AlertLoop -------------------------------
(***************************************************************************)
(* The alerts of one node: the detectors and their state in memory         *)
(* (alert/detectors.ts, alert/state-store.ts), the engine that the ingest  *)
(* pipeline and a timer drive (alert/engine.ts, app.ts), the two tables of *)
(* alerts (db/alerts.ts), and what the frontends are told.                 *)
(*                                                                         *)
(* Of a value only matters on which side of its threshold it is.  Time is  *)
(* counted in steps, and an age stops counting where nobody tells it from  *)
(* an older one.                                                           *)
(***************************************************************************)
EXTENDS Integers, FiniteSets

CONSTANTS
    Always,        \* metrics in every report: cpu, memory
    Sometimes,     \* those that a report or the settings may leave out: the
                   \* disk of a mount point, the temperature of a card
    Card, Pid,     \* GPU cards and the processes on them
    Duration,      \* alertThresholdDurationSeconds
    IdleDuration,  \* alertGpuIdleDurationSeconds
    OfflineAfter,  \* alertOfflineSeconds
    Touched,       \* bound on the alerts that the users silence: metrics
    MaxRestarts    \* bound on the restarts of the server

ASSUME AlertLoopAssumption ==
    /\ Duration \in Nat /\ IdleDuration \in Nat \ {0}
    /\ OfflineAfter \in Nat /\ MaxRestarts \in Nat
    /\ Touched \subseteq Always \cup Sometimes
    \* The type of an alert is part of its key, so keys of different types differ.
    /\ (Always \cup Sometimes) \cap ((Card \X Pid) \cup {<<"offline">>}) = {}

Metric  == Always \cup Sometimes
Process == Card \X Pid
Agent   == <<"offline">>   \* the key of the alert that the agent is offline
Key     == Metric \cup Process \cup {Agent}

None == -1
Longest == IF Duration > IdleDuration THEN Duration ELSE IdleDuration
Older(age, n) == IF age = None THEN None ELSE IF age = n THEN n ELSE age + 1

Status == {"none", "active", "resolved", "silenced"}

VARIABLES
    breached,   \* age of firstBreachedAt of a metric
    isActive,   \* metrics whose state has isActive
    tracked,    \* age of firstSeenAt of a tracked process
    indexed,    \* gpu_idle_keys: the processes of the last report
    attached,   \* does the registry hold a session of the agent?
    quiet,      \* age of lastReportAt
    alert,      \* status of the alert, or "none"
    logged,     \* to_status of the alert's last transition row, or "none"
    shown,      \* alerts that the frontends take for active
    lasting,    \* history: age of the first of the reports that have shown a
                \* metric or process without a break
    restarts    \* restarts so far

memory == <<breached, isActive, tracked, indexed>>
session == <<attached, quiet>>
tables == <<alert, logged>>
vars == <<memory, session, tables, shown, lasting, restarts>>

\* The variables hold what the code keeps in them, and a process that is tracked
\* is one of the index that it will be removed by (alert/detectors.ts).
TypeOK ==
    /\ breached \in [Metric -> None..Duration]
    /\ isActive \subseteq {m \in Metric : breached[m] # None}
    /\ tracked \in [Process -> None..IdleDuration]
    /\ indexed = {p \in Process : tracked[p] # None}
    /\ attached \in BOOLEAN
    /\ quiet \in None..(OfflineAfter + 1)
    /\ attached => quiet # None
    /\ alert \in [Key -> Status]
    /\ logged \in [Key -> Status]
    /\ shown \subseteq Key
    /\ lasting \in [Metric \cup Process -> None..Longest]
    /\ restarts \in 0..MaxRestarts

Init ==
    /\ breached = [m \in Metric |-> None]
    /\ isActive = {}
    /\ tracked = [p \in Process |-> None]
    /\ indexed = {}
    /\ attached = FALSE
    /\ quiet = None
    /\ alert = [k \in Key |-> "none"]
    /\ logged = [k \in Key |-> "none"]
    /\ shown = {}
    /\ lasting = [k \in Metric \cup Process |-> None]
    /\ restarts = 0

-----------------------------------------------------------------------------
(* Detectors. *)

\* Mutant: the window goes on when the breach has cleared.
SinceBreachKept(carried, over) ==
    [m \in Metric |-> IF m \in over /\ breached[m] = None THEN 0 ELSE breached[m]]

\* Mutant: the window starts with the latest breach.
SinceBreachLast(carried, over) ==
    [m \in Metric |-> IF m \notin carried THEN breached[m] ELSE IF m \in over THEN 0 ELSE None]

\* updateThresholdState and detectCpuThreshold: the metrics of carried are in
\* the report, those of over have reached their threshold.
SinceBreach(carried, over) ==
    [m \in Metric |-> IF m \notin carried THEN breached[m]
                      ELSE IF m \notin over THEN None
                      ELSE IF breached[m] = None THEN 0 ELSE breached[m]]

NowActive(carried, over) ==
    {m \in Metric : IF m \in carried
                    THEN m \in over /\ (m \in isActive \/ SinceBreach(carried, over)[m] >= Duration)
                    ELSE m \in isActive}

\* The processes that are still tracked when the processes of a report are
\* looked at: those of a busy card have been pruned.
KnownBefore(busy) == {p \in Process : tracked[p] # None /\ p[1] \notin busy}

\* Mutant: a process that has been idle for long enough is taken for new.
NowTrackedRestarting(busy, found) ==
    [p \in Process |-> IF p \notin found THEN None
                       ELSE IF p \in KnownBefore(busy) /\ tracked[p] < IdleDuration
                            THEN tracked[p] ELSE 0]

\* detectGpuIdle: found are the processes on the cards that are idle with their
\* memory in use.
NowTracked(busy, found) ==
    [p \in Process |-> IF p \in found THEN IF p \in KnownBefore(busy) THEN tracked[p] ELSE 0
                       ELSE IF p \in indexed \/ p \notin KnownBefore(busy) THEN None
                       ELSE tracked[p]]

NowIdle(busy, found) == {p \in found \cap KnownBefore(busy) : tracked[p] >= IdleDuration}

-----------------------------------------------------------------------------
(* The tables of alerts. *)

\* A row is written for every change of a status.
Written(old, new) == [k \in Key |-> IF old[k] = new[k] THEN logged[k] ELSE new[k]]

\* Mutant: a silenced alert recovers with its anomaly.
ReconciledSilenced(anomalies) ==
    [k \in Key |-> IF k \in anomalies THEN IF alert[k] = "silenced" THEN "silenced" ELSE "active"
                   ELSE IF alert[k] = "none" THEN "none" ELSE "resolved"]

\* reconcileAlerts, a transaction.
Reconciled(anomalies) ==
    [k \in Key |-> IF k \in anomalies THEN IF alert[k] = "silenced" THEN "silenced" ELSE "active"
                   ELSE IF alert[k] = "active" THEN "resolved" ELSE alert[k]]

\* Mutant: only alerts that are new are broadcast.
BroadcastNew(old, new) ==
    (shown \cup {k \in Key : old[k] = "none" /\ new[k] = "active"})
        \ {k \in Key : old[k] = "active" /\ new[k] = "resolved"}

\* isBroadcastable, and what the frontends make of it.
Broadcast(old, new) ==
    (shown \cup {k \in Key : old[k] \in {"none", "resolved"} /\ new[k] = "active"})
        \ {k \in Key : old[k] = "active" /\ new[k] = "resolved"}

ReconcileAlerts(anomalies) ==
    /\ alert' = Reconciled(anomalies)
    /\ logged' = Written(alert, alert')
    /\ shown' = Broadcast(alert, alert')

-----------------------------------------------------------------------------
(* Actions. *)

Attach ==
    /\ ~attached
    /\ attached' = TRUE
    /\ quiet' = IF quiet = None THEN 0 ELSE quiet
    /\ UNCHANGED <<memory, tables, shown, lasting, restarts>>

Detach ==
    /\ attached
    /\ attached' = FALSE
    /\ UNCHANGED <<quiet, memory, tables, shown, lasting, restarts>>

\* The alert step of the pipeline: carried and over as above, busy are the cards
\* that are not idle with memory in use, found the processes on those that are.
ProcessReport(carried, over, busy, found) ==
    /\ attached
    /\ quiet' = 0
    /\ breached' = SinceBreach(carried, over)
    /\ isActive' = NowActive(carried, over)
    /\ tracked' = NowTracked(busy, found)
    /\ indexed' = found
    /\ ReconcileAlerts((isActive' \cap carried) \cup NowIdle(busy, found))
    /\ lasting' = [k \in Metric \cup Process |->
                      IF k \in (carried \ over) \cup (Process \ found) THEN None
                      ELSE IF k \in over \cup found /\ lasting[k] = None THEN 0 ELSE lasting[k]]
    /\ UNCHANGED <<attached, restarts>>

Report ==
    \E left \in SUBSET Sometimes, busy \in SUBSET Card, found \in SUBSET Process :
        /\ \A p \in found : p[1] \notin busy
        /\ \E over \in SUBSET (Metric \ left) : ProcessReport(Metric \ left, over, busy, found)

\* detectOffline goes through the sessions.
Offline == attached /\ quiet > OfflineAfter

\* The timer of the server.  The anomalies of a node are then just this one.
SweepOffline ==
    /\ Offline
    /\ ReconcileAlerts({Agent})
    /\ UNCHANGED <<memory, session, lasting, restarts>>

\* silenceAlert and unsilenceAlert, which are not broadcast.
SetStatus(k, from, to) ==
    /\ alert[k] \in from
    /\ alert' = [alert EXCEPT ![k] = to]

SilenceAlert(k) ==
    /\ SetStatus(k, {"active", "resolved"}, "silenced")
    /\ logged' = Written(alert, alert')
    /\ UNCHANGED <<memory, session, shown, lasting, restarts>>

UnsilenceAlert(k) ==
    /\ SetStatus(k, {"silenced"}, "resolved")
    /\ logged' = Written(alert, alert')
    /\ UNCHANGED <<memory, session, shown, lasting, restarts>>

\* What is in memory is lost; the frontends come back and read the table.
Forget ==
    /\ restarts < MaxRestarts
    /\ restarts' = restarts + 1
    /\ breached' = [m \in Metric |-> None]
    /\ isActive' = {}
    /\ tracked' = [p \in Process |-> None]
    /\ indexed' = {}
    /\ attached' = FALSE
    /\ quiet' = None
    /\ shown' = {k \in Key : alert'[k] = "active"}
    /\ UNCHANGED lasting

Restart == UNCHANGED tables /\ Forget

\* The server dies between the two statements of silenceAlert or unsilenceAlert.
CrashWhileSetting(k) ==
    /\ \/ SetStatus(k, {"active", "resolved"}, "silenced")
       \/ SetStatus(k, {"silenced"}, "resolved")
    /\ UNCHANGED logged
    /\ Forget

TimePasses ==
    /\ breached' = [m \in Metric |-> Older(breached[m], Duration)]
    /\ tracked' = [p \in Process |-> Older(tracked[p], IdleDuration)]
    /\ quiet' = Older(quiet, OfflineAfter + 1)
    /\ lasting' = [k \in Metric \cup Process |-> Older(lasting[k], Longest)]
    /\ UNCHANGED <<isActive, indexed, attached, tables, shown, restarts>>

Next ==
    \/ Attach
    \/ Detach
    \/ Report
    \/ SweepOffline
    \/ \E k \in Touched : SilenceAlert(k) \/ UnsilenceAlert(k) \/ CrashWhileSetting(k)
    \/ Restart
    \/ TimePasses

Spec == Init /\ [][Next]_vars

\* Time passes and the timer fires; nobody has to report.
Fairness == WF_vars(TimePasses) /\ WF_vars(SweepOffline)

FairSpec == Spec /\ Fairness

-----------------------------------------------------------------------------
(* Properties. *)

\* Would a report that shows k's cause once more keep the alert?
Detected(k)  == IF k \in Metric THEN k \in isActive ELSE tracked[k] >= IdleDuration

Raised(k)    == alert[k] # "active" /\ alert'[k] = "active"
Recovered(k) == alert[k] = "active" /\ alert'[k] = "resolved"

\* An alert is raised only if the reports have shown its cause without a break
\* for the whole duration, whatever else was reported, forgotten and restarted
\* in between.  What a report leaves out counts as no break (alert/detectors.ts).
RaisedAfterDuration ==
    [][/\ \A m \in Metric : Raised(m) => lasting[m] >= Duration \/ Duration = 0
       /\ \A p \in Process : Raised(p) => lasting[p] >= IdleDuration]_vars

\* An alert recovers on its own only because a report does not show its cause
\* any more, because the agent is silent, or because the server has forgotten
\* since when it was there.
RecoveryHasCause ==
    [][\A k \in Metric \cup Process : Recovered(k) =>
          \/ lasting'[k] = None
          \/ k \in Sometimes
          \/ Offline
          \/ ~Detected(k) /\ restarts > 0]_vars

\* Everybody knows of every alert that is active: the table of transitions, even if
\* the server died in the middle of a change (db/alerts.ts, a transaction), and
\* the frontends, whoever has raised it and whoever has silenced it before
\* (alert/engine.ts isBroadcastable).
ActiveIsKnown ==
    \A k \in Key : alert[k] = "active" => logged[k] = "active" /\ k \in shown

\* The loop implements the abstract lifecycle of an alert.
Lifecycle == INSTANCE AlertLifecycle WITH status <- alert
LifecycleSpec == Lifecycle!Spec

\* A metric that is over its threshold in all reports from some time on gets an
\* alert again and again, whoever unsilences it and whatever the sweep does.
LastingBreachIsAlerted ==
    \A m \in Always :
        <>[](attached /\ lasting[m] # None) /\ []<><<Report>>_vars
            => []<>(alert[m] \in {"active", "silenced"})

\* An agent that keeps its session and sends nothing any more is reported as
\* offline (alert/engine.ts sweepOffline).
SilentAgentIsAlerted ==
    <>[](attached /\ quiet > OfflineAfter) => []<>(alert[Agent] \in {"active", "silenced"})

\* What lasts is alerted: a breach in all reports, and silence.
TroubleIsAlerted == LastingBreachIsAlerted /\ SilentAgentIsAlerted

=============================================================================
