----------------------------- MODULE LivePages -----------------------------
(***************************************************************************)
(* How the pages of the web console and the overview of the mobile         *)
(* application follow the server: requests, whose answers arrive in any    *)
(* order or fail, beside the events of a socket, which arrive in order     *)
(* while it is connected.  Five pages differ in what they do with an event *)
(* and with an answer:                                                     *)
(*   store    useMetricsSubscription and useLoadInitialData: statuses and  *)
(*            reports, loaded once and then replaced by events             *)
(*   servers  refreshServers: asked again unless a request is under way    *)
(*   tasks    TaskBrowser: numbered requests, events that replace a row    *)
(*   alerts   Alerts: asked again on every event and on every tab          *)
(*   overview refreshOverview of the application: an event replaces a part *)
(*            or asks for everything half a second later                   *)
(*                                                                         *)
(* What the server has is a version that grows; a filter stands for tab,   *)
(* page and status filter.  Which page is open is chosen at the start.     *)
(***************************************************************************)
EXTENDS Naturals, Sequences, FiniteSets

CONSTANTS Filter, FirstFilter,
          MaxVersion, MaxRequests   \* bounds: changes, requests under way

ASSUME PagesAssumption == FirstFilter \in Filter /\ MaxRequests \in Nat

VARIABLES
  page,
  version,   \* what the server has
  wire,      \* events on their way, as versions
  online,    \* is the socket connected
  filter,    \* what the user has chosen
  onScreen,     \* [filter, version] of what is on the screen
  seq,       \* requestSeqRef
  requests,  \* [seq, filter, loud, version], version 0 until it is served
  queued,    \* queuedRefreshTimer
  excused    \* history: something happened after which the page may be stale

pagesVars == <<page, version, wire, online, filter, onScreen, seq, requests, queued, excused>>

Nothing(f) == [filter |-> f, version |-> 0]
Ask(f, loud) ==
  /\ Cardinality(requests) < MaxRequests
  \* a number is used again once no request bears it
  /\ seq' = CHOOSE n \in 1 .. MaxRequests : \A r \in requests : r.seq # n
  /\ requests' = requests \cup {[seq |-> seq', filter |-> f, loud |-> loud, version |-> 0]}

NoRequest == UNCHANGED <<seq, requests>>
NoTimer   == UNCHANGED queued

Excuse(cause) ==
  excused' = ((excused \/ cause) /\ onScreen' # [filter |-> filter', version |-> version'])

PagesInit ==
  /\ page \in {"store", "servers", "tasks", "alerts", "overview"}
  /\ version = 1 /\ wire = <<>> /\ online \in BOOLEAN
  /\ filter = FirstFilter /\ onScreen = Nothing(FirstFilter)
  /\ seq = 1
  /\ requests = {[seq |-> 1, filter |-> FirstFilter, loud |-> TRUE, version |-> 0]}
  /\ queued = FALSE /\ excused = FALSE

(***************************************************************************)
(* The server and the socket.                                              *)
(***************************************************************************)
ServerChanges ==
  /\ version < MaxVersion /\ version' = version + 1
  /\ wire' = IF online THEN Append(wire, version') ELSE wire
  /\ UNCHANGED <<page, online, filter, onScreen, queued>> /\ NoRequest
  /\ Excuse(~online)

ServerAnswers(r) ==
  /\ r \in requests /\ r.version = 0
  /\ requests' = (requests \ {r}) \cup {[r EXCEPT !.version = version]}
  /\ UNCHANGED <<page, version, wire, online, filter, onScreen, seq, queued, excused>>

\* socket.io connects again by itself; nobody loads what was missed.
Disconnected ==
  /\ online /\ online' = FALSE /\ wire' = <<>>
  /\ UNCHANGED <<page, version, filter, onScreen, queued>> /\ NoRequest
  /\ Excuse(wire # <<>>)
Reconnected ==
  /\ ~online /\ online' = TRUE
  /\ UNCHANGED <<page, version, wire, filter, onScreen, seq, requests, queued, excused>>

(***************************************************************************)
(* What the pages do with an event.                                        *)
(***************************************************************************)
Replaced(v) == onScreen' = [onScreen EXCEPT !.version = v]

StoreEvent(v) ==
  /\ page = "store"
  /\ Replaced(v) /\ NoRequest /\ NoTimer /\ Excuse(FALSE)

\* A request under way may have been served before the change.
ServersEvent ==
  /\ page = "servers"
  /\ IF requests = {} THEN Ask(filter, TRUE) ELSE NoRequest
  /\ UNCHANGED onScreen /\ NoTimer /\ Excuse(requests # {})

\* A visible row is replaced, and the list asked for again if the row has left
\* the chosen status; any other task asks for the list.
TasksEvent(v) ==
  /\ page = "tasks"
  /\ \/ onScreen.version > 0 /\ Replaced(v) /\ NoRequest
     \/ onScreen.version > 0 /\ Replaced(v) /\ Ask(filter, FALSE)
     \/ UNCHANGED onScreen /\ Ask(filter, FALSE)
  /\ NoTimer /\ Excuse(FALSE)

AlertsEvent ==
  /\ page = "alerts"
  /\ Ask(filter, TRUE) /\ UNCHANGED onScreen /\ NoTimer /\ Excuse(FALSE)

\* Reports, statuses, alerts and security events replace their part; changes of
\* servers and tasks start the timer, if it is not running.
OverviewEvent(v) ==
  /\ page = "overview"
  /\ \/ Replaced(v) /\ NoTimer
     \/ queued' = TRUE /\ UNCHANGED onScreen
  /\ NoRequest /\ Excuse(FALSE)

EventArrives ==
  /\ wire # <<>> /\ wire' = Tail(wire)
  /\ UNCHANGED <<page, version, online, filter>>
  /\ \/ StoreEvent(Head(wire)) \/ ServersEvent \/ TasksEvent(Head(wire)) \/ AlertsEvent
     \/ OverviewEvent(Head(wire))

TimerFires ==
  /\ queued /\ queued' = FALSE
  /\ Ask(filter, TRUE)
  /\ UNCHANGED <<page, version, wire, online, filter, onScreen>> /\ Excuse(FALSE)

(***************************************************************************)
(* What the pages do with an answer and with the choice of the user.       *)
(***************************************************************************)
\* Mutant: requests are not numbered.
IgnoredNever(r) == FALSE

Ignored(r) == page = "tasks" /\ r.seq # seq

AnswerArrives(r) ==
  /\ r \in requests /\ r.version > 0
  /\ requests' = requests \ {r} /\ UNCHANGED seq
  /\ onScreen' = IF Ignored(r) THEN onScreen ELSE [filter |-> r.filter, version |-> r.version]
  /\ UNCHANGED <<page, version, wire, online, filter, queued>>
  /\ Excuse(~Ignored(r) /\ \/ r.version < onScreen.version
                           \/ r.filter # filter /\ page = "alerts")

\* Only a loud request of the task list empties it; a part of the overview
\* that could not be fetched is empty.
Emptied(r) == \/ page = "tasks" /\ ~Ignored(r) /\ r.loud
              \/ page = "overview"
RequestFails(r) ==
  /\ r \in requests
  /\ requests' = requests \ {r} /\ UNCHANGED seq
  /\ onScreen' = IF Emptied(r) THEN Nothing(filter) ELSE onScreen
  /\ UNCHANGED <<page, version, wire, online, filter, queued>>
  /\ Excuse(~Ignored(r))

ChooseFilter(f) ==
  /\ page \in {"tasks", "alerts"} /\ f # filter
  /\ filter' = f /\ Ask(f, TRUE)
  /\ UNCHANGED <<page, version, wire, online, onScreen, queued>>
  /\ Excuse(FALSE)

PagesNext ==
  \/ ServerChanges \/ Disconnected \/ Reconnected \/ EventArrives \/ TimerFires
  \/ \E r \in requests : ServerAnswers(r) \/ AnswerArrives(r) \/ RequestFails(r)
  \/ \E f \in Filter : ChooseFilter(f)

PagesSpec == PagesInit /\ [][PagesNext]_pagesVars

(***************************************************************************)
(* Properties.                                                             *)
(***************************************************************************)
\* When every event and every answer has arrived the page shows what the
\* server has and what the user chose, except after a change that the socket
\* missed, a request that failed, an answer older than what was shown
\* already, an event dropped because a request was under way, or, on the page
\* of alerts, an answer for an earlier tab.
PageIsCurrent ==
  wire = <<>> /\ requests = {} /\ ~queued /\ ~excused
    => onScreen = [filter |-> filter, version |-> version]
=============================================================================
