----------------------------- MODULE NodeCharts -----------------------------
(***************************************************************************)
(* The live charts of one node: useRealtimeMetrics of the web console and  *)
(* useServerGpuHistory of the mobile application.  A chart is filled from  *)
(* three sides, in any order: by the reports that the socket delivers, by  *)
(* one answer with the reports of the last ten minutes, and by the answers *)
(* with the latest report of every node, which the web console asks for    *)
(* when it starts and the application at every refresh.  A browser that    *)
(* jumps from one node to another (its history allows it) keeps the page:  *)
(* the request for the first node is not cancelled.  The screen of the     *)
(* application is made anew for every node.                                *)
(*                                                                         *)
(* A point is a report; the nine curves of the page differ in the value    *)
(* they take from it and are two here: one of the host, one of a card,     *)
(* which a report may not have.  One clock stands for those of the agent,  *)
(* the server and the browser, which are assumed to agree.                 *)
(***************************************************************************)
EXTENDS Integers, Sequences, FiniteSets, FiniteSetsExt

CONSTANTS Node,
          MaxClock, Window,         \* bounds; Window is REALTIME_WINDOW_SECONDS
          MaxReports, MaxSeeds,     \* bounds: reports of each node, requests under way
          MaxOverviews              \* bound: answers with the latest reports

ASSUME ChartAssumption == Window \in Nat \ {0} /\ MaxClock \in Nat /\ MaxReports \in [Node -> Nat]

VARIABLES
  client,   \* "web" or "phone"
  clock,
  recent,   \* recent[n]: the reports of n that the server keeps
  liveWire, \* reports on their way to the client
  overviews, \* answers with the latest reports, on their way: like newest
  lookups,    \* how many were asked for so far
  newest,   \* newest[n]: in latestSnapshots, a set with at most one report
  charts    \* the page, see NoCharts

chartVars == <<client, clock, recent, liveWire, overviews, lookups, newest, charts>>

\* Histories: seen, the reports taken for this node; lost, those that the socket
\* lost while it was shown; overtaken, those that the latest reports brought
\* behind a newer one, or that were still on their way when these brought a newer
\* one; mixed, an answer to a request made for an earlier node (late) has been taken.
NoCharts ==
  [node |-> {}, host |-> {}, card |-> {}, seeds |-> {}, seen |-> {}, lost |-> {},
   overtaken |-> {}, mixed |-> FALSE]

(***************************************************************************)
(* Curves: sets of points, of which the one with the smaller place is      *)
(* drawn first.                                                            *)
(***************************************************************************)
Drawn(curve) == {p.report : p \in curve}

\* The report behind all points that are kept.
appendChartPoint(curve, report) ==
  LET kept == {p \in curve : p.report.at > report.at - Window /\ p.report.at # report.at}
  IN  kept \cup {[report |-> report,
                  place |-> Max({report.at} \cup {p.place + 1 : p \in kept})]}

\* Sorted by time.
InTime(reports) == {[report |-> r, place |-> r.at] : r \in reports}

\* Mutant: what was there is replaced by the answer.
SeedOnly(prev, seed, cutoff) == IF seed = {} THEN prev ELSE InTime(seed)

\* Live points win over those of the answer.
mergeChartPoints(prev, seed, cutoff) ==
  LET times == {r.at : r \in Drawn(prev)}
      all   == Drawn(prev) \cup {r \in seed : r.at \notin times}
  IN  IF seed = {} THEN prev ELSE InTime({r \in all : r.at > cutoff})

(***************************************************************************)
(* What the reports and the answer do to the page.                         *)
(***************************************************************************)
\* A card the report does not have loses its curve; the application merges
\* the curve with itself once it has appended to it, which sorts it.
Taken(c, r) ==
  LET appended == appendChartPoint(c.card, r)
  IN  [c EXCEPT
        !.host = appendChartPoint(@, r),
        !.card = IF ~r.card THEN {}
                 ELSE IF client = "phone"
                 THEN mergeChartPoints(appended, Drawn(@), r.at - Window)
                 ELSE appended,
        !.seen = {s \in @ : s.at > r.at - Window} \cup {r}]

Reset(c, n) == [NoCharts EXCEPT !.node = {n}, !.seeds = c.seeds]

OnTheWay == {liveWire[i] : i \in DOMAIN liveWire}

\* A report of the latest ones: at most one is given.
TakenIfAny(c, reports) ==
  LET r == CHOOSE one \in reports : TRUE
      older == {s \in OnTheWay : s.of = r.of /\ s.at < r.at}
      itself == {s \in {r} : \E t \in Drawn(c.host \cup c.card) : t.at > s.at}
  IN  IF reports = {} THEN c
      ELSE Taken([c EXCEPT !.overtaken = @ \cup older \cup itself], r)

\* The effects of a node that is shown: forget, ask, take the newest report.
Shown(c, n) ==
  LET fresh == Reset(c, n)
      next  == [fresh EXCEPT
                  !.seeds = {[q EXCEPT !.late = TRUE] : q \in @} \cup
                    {[of |-> n, late |-> FALSE, asked |-> clock, served |-> FALSE, rows |-> {}]}]
  IN  TakenIfAny(next, newest[n])

\* The rows of an answer that are inside the window.
Seed(q, rows) == {r \in rows : r.at > q.asked - Window}

Seeded(c, q) ==
  LET cutoff == IF client = "phone" THEN q.asked - Window ELSE clock - Window
      cards  == Seed(q, {r \in q.rows : r.card})
  IN  [c EXCEPT
        !.host = mergeChartPoints(@, Seed(q, q.rows), cutoff),
        !.card = IF client = "phone" THEN InTime(cards) ELSE mergeChartPoints(@, cards, cutoff),
        !.mixed = @ \/ q.late]

(***************************************************************************)
(* Steps.                                                                  *)
(***************************************************************************)
ChartInit ==
  /\ client \in {"web", "phone"} /\ clock = 1
  /\ recent = [n \in Node |-> {}] /\ liveWire = <<>>
  /\ overviews = {} /\ lookups = 0 /\ newest = [n \in Node |-> {}]
  /\ charts = NoCharts

Later ==
  /\ clock < MaxClock /\ clock' = clock + 1
  /\ UNCHANGED <<client, recent, liveWire, overviews, lookups, newest, charts>>

\* A report is stored and sent to the clients.
ReportComes(n, card) ==
  /\ Cardinality(recent[n]) < MaxReports[n]
  /\ \A r \in recent[n] : r.at < clock
  /\ LET r == [of |-> n, at |-> clock, card |-> card]
     IN  /\ recent' = [recent EXCEPT ![n] = @ \cup {r}]
         /\ liveWire' = Append(liveWire, r)
  /\ UNCHANGED <<client, clock, overviews, lookups, newest, charts>>

\* Every report renders the page, so none is skipped.
LiveReport ==
  /\ liveWire # <<>> /\ liveWire' = Tail(liveWire)
  /\ LET r == Head(liveWire)
     IN  /\ newest' = [newest EXCEPT ![r.of] = {r}]
         /\ charts' = IF charts.node = {r.of} THEN Taken(charts, r) ELSE charts
  /\ UNCHANGED <<client, clock, recent, overviews, lookups>>
SocketBreaks ==
  /\ liveWire # <<>> /\ liveWire' = <<>>
  /\ charts' = [charts EXCEPT
       !.lost = @ \cup {r \in OnTheWay : r.of \in charts.node}]
  /\ UNCHANGED <<client, clock, recent, overviews, lookups, newest>>

\* GET /metrics/latest, of useLoadInitialData and of refreshOverview
OverviewServed ==
  /\ lookups < (IF client = "web" THEN 1 ELSE MaxOverviews) /\ lookups' = lookups + 1
  /\ overviews' = overviews \cup
       {[n \in Node |-> {r \in recent[n] : \A s \in recent[n] : s.at <= r.at}]}
  /\ UNCHANGED <<client, clock, recent, liveWire, newest, charts>>
\* What was there is replaced, by an older report too, and the page takes it.
OverviewArrives(got) ==
  /\ overviews' = overviews \ {got} /\ newest' = got
  /\ charts' = TakenIfAny(charts, UNION {got[n] : n \in charts.node})
  /\ UNCHANGED <<client, clock, recent, liveWire, lookups>>
\* The application goes on without any.
OverviewFails(got) ==
  /\ overviews' = overviews \ {got}
  /\ newest' = IF client = "web" THEN newest ELSE [n \in Node |-> {}]
  /\ UNCHANGED <<client, clock, recent, liveWire, lookups, charts>>

\* Opened from a list: a new page, to which no earlier answer belongs.
OpenNode(n) ==
  /\ charts.node = {}
  /\ charts' = Shown(NoCharts, n)
  /\ UNCHANGED <<client, clock, recent, liveWire, overviews, lookups, newest>>
LeaveNode ==
  /\ charts.node # {}
  /\ charts' = NoCharts
  /\ UNCHANGED <<client, clock, recent, liveWire, overviews, lookups, newest>>
JumpTo(n) ==
  /\ client = "web" /\ charts.node # {} /\ n \notin charts.node
  /\ Cardinality(charts.seeds) < MaxSeeds
  /\ charts' = Shown(charts, n)
  /\ UNCHANGED <<client, clock, recent, liveWire, overviews, lookups, newest>>

SeedServed(q) ==
  /\ ~q.served
  /\ charts' = [charts EXCEPT
       !.seeds = (@ \ {q}) \cup
         {[q EXCEPT !.served = TRUE,
                    !.rows = {r \in recent[q.of] : r.at \in q.asked - Window .. q.asked}]}]
  /\ UNCHANGED <<client, clock, recent, liveWire, overviews, lookups, newest>>
SeedArrives(q) ==
  /\ q.served
  /\ charts' = Seeded([charts EXCEPT !.seeds = @ \ {q}], q)
  /\ UNCHANGED <<client, clock, recent, liveWire, overviews, lookups, newest>>
\* The web console ignores it; the application empties its charts.
SeedFails(q) ==
  /\ charts' = IF client = "web" THEN [charts EXCEPT !.seeds = @ \ {q}]
               ELSE [charts EXCEPT !.seeds = @ \ {q}, !.host = {}, !.card = {}, !.seen = {}]
  /\ UNCHANGED <<client, clock, recent, liveWire, overviews, lookups, newest>>

ChartNext ==
  \/ Later \/ LiveReport \/ SocketBreaks \/ LeaveNode \/ OverviewServed
  \/ \E got \in overviews : OverviewArrives(got) \/ OverviewFails(got)
  \/ \E n \in Node : OpenNode(n) \/ JumpTo(n) \/ (\E card \in BOOLEAN : ReportComes(n, card))
  \/ \E q \in charts.seeds : SeedServed(q) \/ SeedArrives(q) \/ SeedFails(q)

ChartSpec == ChartInit /\ [][ChartNext]_chartVars

(***************************************************************************)
(* Properties.                                                             *)
(***************************************************************************)
InWindow(reports) == {r \in reports : r.at > clock - Window}

\* Up to the newest report the page has taken (an answer may know newer ones,
\* which are then delivered out of order), and but for the reports that the socket
\* has lost (which come with an answer, and may have been overtaken) and those
\* that were overtaken where the latest reports are answered.
InOrder(curve) ==
  LET known == {p \in curve : /\ p.report.of \in charts.node
                              /\ p.report \notin charts.lost \cup charts.overtaken
                              /\ \E r \in charts.seen : p.report.at <= r.at}
  IN  \A p, q \in known : p.place < q.place <=> p.report.at < q.report.at

\* In whatever order the reports and the answers come: no report the page has
\* taken in the last ten minutes is missing from the curve of the host, or, on
\* the web, from that of a card all of them have (and those that were overtaken);
\* no curve goes back in time but at a report that the socket has lost, or that
\* the latest reports brought too late or overtook; and all points are of the node
\* that is shown, unless an answer came that was asked for an earlier one.
ChartsAreWhole ==
  charts.node # {} =>
    /\ InWindow(charts.seen) \subseteq Drawn(charts.host)
    /\ client = "web" /\ (\A r \in charts.seen \cup charts.overtaken : r.card) =>
         InWindow(charts.seen) \subseteq Drawn(charts.card)
    /\ InOrder(charts.host) /\ InOrder(charts.card)
    /\ ~charts.mixed =>
         \A r \in Drawn(charts.host) \cup Drawn(charts.card) : r.of \in charts.node
=============================================================================
