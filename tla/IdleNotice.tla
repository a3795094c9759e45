----------------------------- MODULE IdleNotice -----------------------------
(***************************************************************************)
(* The notices about idle GPUs that the mobile application makes itself    *)
(* (store/realtime.ts): per server the recent samples of every GPU and     *)
(* whether the server may be announced again, and for all servers together *)
(* a cooldown and one notification under way.                              *)
(*                                                                         *)
(* The socket brings a report in the step of time in which it was made or  *)
(* not at all; the answer to a refresh has the latest report of the moment *)
(* in which it was given, and may arrive any time later.                   *)
(*                                                                         *)
(* Times are kept as ages in steps of time; an age stops where no test     *)
(* tells it from a greater one.                                            *)
(***************************************************************************)
EXTENDS Naturals, FiniteSets

CONSTANTS Server, Gpu,
          MinIdle,      \* rule.minIdleGpuCount
          WindowAge,    \* rule.idleWindowSeconds
          Cooldown,     \* GLOBAL_IDLE_NOTIFICATION_COOLDOWN_MS
          MaxAnswers    \* bound: answers on their way

ASSUME IdleAssumption ==
  /\ IsFiniteSet(Gpu) /\ MinIdle \in Nat /\ WindowAge \in Nat /\ Cooldown \in Nat

VARIABLES
  samples,      \* per server and GPU: the samples as records [age, idle]
  armed,        \* per server: may be announced
  recovering,   \* per server: age of recoveryStartedAt, or {}
  lastNotice,   \* age of lastIdleNotificationAt
  inFlight,     \* idleNotificationDispatchInFlight
  showing,      \* dispatches under way, <<server, its state still in use?>>
  rules,        \* the servers with a rule
  latest,       \* per server, the report that the backend has of it
  answers,      \* of GET /metrics/latest, on their way
  busyAge,      \* history: per server, age of the last busy sample
  forgotten,    \* history: per server, the samples were started anew from a report
                \* older than that
  sinceNotice,  \* history: age of the last notice shown
  left,         \* history: per server, condition broken since its notice
  cleared       \* history: the state was primed since the last notice

idleState == <<samples, armed, recovering>>
reports   == <<latest, answers>>
idlePast  == <<busyAge, forgotten, sinceNotice, left, cleared>>
idleVars  == <<idleState, lastNotice, inFlight, showing, rules, reports, idlePast>>

Older(age, top) == IF age < top THEN age + 1 ELSE top
Sample == [age : 0 .. WindowAge, idle : BOOLEAN]

\* A report, in which the GPUs of idle are idle; gone: none, or beyond the window.
Report == [age : 0 .. WindowAge + 1, idle : SUBSET Gpu]
gone == [age |-> WindowAge + 1, idle |-> {}]
Busy(idle) == Cardinality(idle) < MinIdle

IdleInit ==
  /\ samples = [s \in Server |-> [g \in Gpu |-> {}]]
  /\ armed = [s \in Server |-> TRUE] /\ recovering = [s \in Server |-> {}]
  /\ lastNotice = Cooldown /\ inFlight = FALSE /\ showing = {} /\ rules = Server
  /\ latest = [s \in Server |-> gone] /\ answers = {}
  /\ forgotten = [s \in Server |-> FALSE]
  /\ busyAge = [s \in Server |-> WindowAge] /\ sinceNotice = Cooldown
  /\ left = [s \in Server |-> TRUE] /\ cleared = FALSE

(***************************************************************************)
(* Samples beyond the window are never looked at again.  The oldest sample *)
(* of the window must be as old as the window is long, to the millisecond. *)
(***************************************************************************)
isGpuIdleForRule(kept) ==
  /\ \E x \in kept : x.age >= WindowAge
  /\ \A x \in kept : x.idle

ConditionActive(kept) ==
  Cardinality({g \in Gpu : isGpuIdleForRule(kept[g])}) >= MinIdle

recordGpuSamples(s, idle) ==
  [g \in Gpu |-> {x \in samples[s][g] : x.age # 0} \cup {[age |-> 0, idle |-> g \in idle]}]

(***************************************************************************)
(* onMetricsUpdate, for a report in which the GPUs of idle are idle.       *)
(***************************************************************************)
Recovers(s) == recovering' = [recovering EXCEPT ![s] = IF @ = {} THEN {0} ELSE @]

WithoutRule(s) ==
  /\ s \notin rules
  /\ IF armed[s] THEN UNCHANGED recovering ELSE Recovers(s)
  /\ UNCHANGED <<armed, inFlight, showing>>

\* Mutant: the cooldown is not looked at.
WhileIdleAtOnce(s) ==
  /\ s \in rules /\ ConditionActive(samples'[s])
  /\ recovering' = [recovering EXCEPT ![s] = {}]
  /\ UNCHANGED armed
  /\ IF armed[s] /\ ~inFlight
       THEN inFlight' = TRUE /\ showing' = showing \cup {<<s, TRUE>>}
       ELSE UNCHANGED <<inFlight, showing>>

WhileIdle(s) ==
  /\ s \in rules /\ ConditionActive(samples'[s])
  /\ recovering' = [recovering EXCEPT ![s] = {}]
  /\ UNCHANGED armed
  /\ IF armed[s] /\ ~inFlight /\ lastNotice >= Cooldown
       THEN inFlight' = TRUE /\ showing' = showing \cup {<<s, TRUE>>}
       ELSE UNCHANGED <<inFlight, showing>>

WhileBusy(s) ==
  /\ s \in rules /\ ~ConditionActive(samples'[s])
  /\ Recovers(s)
  /\ armed' = [armed EXCEPT ![s] = @ \/ \E a \in recovering'[s] : a >= WindowAge]
  /\ UNCHANGED <<inFlight, showing>>

\* The reports of a server bear different times.
Reported(s, idle) ==
  /\ latest[s].age # 0
  /\ latest' = [latest EXCEPT ![s] = [age |-> 0, idle |-> idle]]

\* A report that the phone gets only in an answer, if at all
ReportMissed(s, idle) ==
  /\ Reported(s, idle)
  /\ UNCHANGED <<idleState, lastNotice, inFlight, showing, rules, answers, idlePast>>

MetricsUpdate(s, idle) ==
  /\ Reported(s, idle)
  /\ samples' = [samples EXCEPT ![s] = recordGpuSamples(s, idle)]
  /\ WithoutRule(s) \/ WhileIdle(s) \/ WhileBusy(s)
  /\ busyAge' = [busyAge EXCEPT ![s] = IF Busy(idle) THEN 0 ELSE @]
  /\ forgotten' = [forgotten EXCEPT ![s] = @ /\ ~Busy(idle)]
  /\ left' = [left EXCEPT ![s] = @ \/ s \notin rules \/ ~ConditionActive(samples'[s])]
  /\ UNCHANGED <<lastNotice, rules, answers, sinceNotice, cleared>>

\* The promise of the dispatch: it may have changed nothing (application not
\* active, notifications off), and the state it was made for may be gone.
DispatchEnds(s, used) ==
  /\ <<s, used>> \in showing
  /\ showing' = showing \ {<<s, used>>} /\ inFlight' = FALSE
  /\ \/ UNCHANGED <<armed, lastNotice, idlePast>>
     \/ /\ armed' = [armed EXCEPT ![s] = @ /\ ~used] /\ lastNotice' = 0
        /\ sinceNotice' = 0 /\ left' = [left EXCEPT ![s] = @ /\ ~used]
        /\ cleared' = (showing' # {}) /\ UNCHANGED <<busyAge, forgotten>>
  /\ UNCHANGED <<samples, recovering, rules, reports>>

\* onServerStatus with a status other than online
ServerGoesOffline(s) ==
  /\ Recovers(s)
  /\ UNCHANGED <<samples, armed, lastNotice, inFlight, showing, rules, reports, idlePast>>

Forget ==
  /\ armed' = [s \in Server |-> TRUE] /\ recovering' = [s \in Server |-> {}]
  /\ inFlight' = FALSE /\ showing' = {<<d[1], FALSE>> : d \in showing}
  /\ left' = [s \in Server |-> TRUE]

disconnectRealtime ==
  /\ Forget /\ samples' = [s \in Server |-> [g \in Gpu |-> {}]]
  /\ forgotten' = [s \in Server |-> FALSE]
  /\ UNCHANGED <<lastNotice, rules, reports, busyAge, sinceNotice, cleared>>

\* The backend answers a refresh of the overview, which each task event asks for.
MetricsServed ==
  /\ Cardinality(answers) < MaxAnswers /\ answers' = answers \cup {latest}
  /\ UNCHANGED <<idleState, lastNotice, inFlight, showing, rules, latest, idlePast>>

\* The answer starts the state anew from its report of each server, whatever the
\* socket has brought since; one that was lost, from nothing.
Primed(r) ==
  [g \in Gpu |-> IF r.age > WindowAge THEN {} ELSE {[age |-> r.age, idle |-> g \in r.idle]}]
primeRealtimeState(got) ==
  /\ Forget /\ lastNotice' = Cooldown /\ cleared' = TRUE
  /\ samples' = [s \in Server |-> Primed(got[s])]
  /\ answers' = answers \ {got}
  /\ busyAge' = [s \in Server |->
       IF Busy(got[s].idle) /\ got[s].age < busyAge[s] THEN got[s].age ELSE busyAge[s]]
  /\ forgotten' = [s \in Server |-> got[s].age \in busyAge[s] + 1 .. WindowAge]
  /\ UNCHANGED <<rules, latest, sinceNotice>>

toggleIdleServerSubscription(s) ==
  /\ rules' = (rules \ {s}) \cup ({s} \ rules)
  /\ UNCHANGED <<idleState, lastNotice, inFlight, showing, reports, idlePast>>

\* A notification is shown in less than a step of time: the permission has been
\* granted (MobileApp has the request for it).
Aged(r) == IF r.age < WindowAge THEN [r EXCEPT !.age = @ + 1] ELSE gone
TimePasses ==
  /\ showing = {}
  /\ samples' = [s \in Server |-> [g \in Gpu |->
       {[x EXCEPT !.age = @ + 1] : x \in {y \in samples[s][g] : y.age < WindowAge}}]]
  /\ recovering' = [s \in Server |-> {Older(a, WindowAge) : a \in recovering[s]}]
  /\ lastNotice' = Older(lastNotice, Cooldown)
  /\ sinceNotice' = Older(sinceNotice, Cooldown)
  /\ busyAge' = [s \in Server |-> Older(busyAge[s], WindowAge)]
  /\ latest' = [s \in Server |-> Aged(latest[s])]
  /\ answers' = {[s \in Server |-> Aged(got[s])] : got \in answers}
  /\ UNCHANGED <<armed, inFlight, showing, rules, forgotten, left, cleared>>

IdleNext ==
  \/ \E s \in Server :
       \/ \E idle \in SUBSET Gpu : MetricsUpdate(s, idle) \/ ReportMissed(s, idle)
       \/ \E used \in BOOLEAN : DispatchEnds(s, used)
       \/ ServerGoesOffline(s) \/ toggleIdleServerSubscription(s)
  \/ \E got \in answers \cup {[s \in Server |-> gone]} : primeRealtimeState(got)
  \/ disconnectRealtime \/ MetricsServed \/ TimePasses

IdleSpec == IdleInit /\ [][IdleNext]_idleVars

(***************************************************************************)
(* Properties.                                                             *)
(***************************************************************************)
\* A dispatch starts only for a server none of whose samples within the window
\* was busy, also after the samples were thrown away, unless an answer that the
\* busy one had overtaken has put an older report in their place; and, unless a
\* refresh threw the state away in between, a cooldown after the last notice and,
\* for the same server, after the condition was broken.
IdleNoticeIsEarned ==
  [][\A s \in Server : <<s, TRUE>> \in showing' \ showing =>
        /\ busyAge'[s] >= WindowAge \/ forgotten[s]
        /\ sinceNotice >= Cooldown \/ cleared
        /\ left[s]]_idleVars

\* The text beside the rule (ServerDetailScreen.tsx:188): "全局 15 分钟内最多发 1 条",
\* at most one notice in 15 minutes for all servers together.
OneNoticePerCooldown ==
  [][\A s \in Server : <<s, TRUE>> \in showing' \ showing => sinceNotice >= Cooldown]_idleVars
=============================================================================
