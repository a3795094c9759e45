---------------------------- MODULE NodeHistory ----------------------------
(***************************************************************************)
(* The two tabs of a node's page in the web console that look back:        *)
(* useHistoryData draws the snapshots of a range of time, useSnapshotData  *)
(* lists all snapshots of which one is shown.  Both ask when their tab is  *)
(* opened and take the last answer that arrives, which need not be that to *)
(* the last request.  A browser that jumps from one node to another keeps  *)
(* the page and what it has asked for (see NodeCharts).                    *)
(*                                                                         *)
(* The two tabs share the node only: a behaviour opens one of them.        *)
(*                                                                         *)
(* A snapshot is its time; what is drawn of it is left out.  The times     *)
(* typed for a range of one's own are taken as numbers: the fields hold    *)
(* minutes.                                                                *)
(***************************************************************************)
EXTENDS Integers, FiniteSets
Sets == INSTANCE FiniteSetsExt

CONSTANTS Host,
          FirstPreset, OtherPreset,   \* "24h" and another, as how far they look back
          LastTime, MaxAsked    \* bounds: snapshots, requests under way

ASSUME PastAssumption == FirstPreset \in Nat /\ OtherPreset \in Nat /\ LastTime \in Nat

VARIABLES
  looks,    \* the tab of this behaviour
  today,    \* the clock of server and browser
  kept,     \* kept[n]: the snapshots the server has of n
  taken,    \* history: all it ever had
  past      \* the page, see ClosedPast

pastVars == <<looks, today, kept, taken, past>>

Range24(p) == [from |-> today - p, to |-> today]
Everything == [from |-> 0, to |-> LastTime]

NothingShown == [of |-> {}, range |-> Everything, late |-> FALSE]

\* The rows of a range are not told apart, see drawn.
\* asked: [kind, of, range, late, served, rows], late once a newer request of
\* its kind has been made; missed: kinds whose newest request has failed.
\* strange, a history: an answer for another node has chosen the snapshot.
ClosedPast ==
  [host |-> {}, tab |-> "realtime", range |-> Everything, asked |-> {},
   drawn |-> NothingShown, missed |-> {},
   listed |-> NothingShown, timeline |-> {}, selected |-> 0, strange |-> FALSE]

Under(p, kind) == {q \in p.asked : q.kind = kind}

Asking(p, kind, range) ==
  [p EXCEPT
    !.missed = @ \ {kind},
    !.asked = {[q EXCEPT !.late = @ \/ q.kind = kind] : q \in @} \cup
      {[kind |-> kind, of |-> p.host, range |-> range, late |-> FALSE, served |-> FALSE,
        rows |-> {}]}]

\* The effects of useHistoryData and useSnapshotData that ask.
Effects(p) ==
  IF p.tab = "history" THEN Asking(p, "history", p.range)
  ELSE IF p.tab = "snapshot" THEN Asking(p, "snapshot", Everything)
  ELSE p

World == UNCHANGED <<looks, today, kept, taken>>

\* What is reset for a new node; alone, a mutant that keeps the snapshot chosen
\* for the one before.
KeepsSelection(p, n) ==
  [p EXCEPT !.host = {n}, !.tab = "realtime", !.range = Range24(FirstPreset),
            !.drawn = NothingShown,
            !.listed = NothingShown, !.timeline = {}, !.strange = FALSE]

Forgotten(p, n) ==
  [KeepsSelection(p, n) EXCEPT !.selected = 0]

(***************************************************************************)
(* The user.                                                               *)
(***************************************************************************)
OpenHost(n) ==
  /\ past.host = {} /\ past' = Forgotten(ClosedPast, n) /\ World
LeaveHost ==
  /\ past.host # {} /\ past' = ClosedPast /\ World

\* The tabs still ask for what they showed, of the new node, before they are
\* reset: an effect sees the tab and the range it was rendered with.
JumpToHost(n) ==
  /\ past.host # {} /\ n \notin past.host
  /\ Cardinality(past.asked) < MaxAsked
  /\ past' = Forgotten(Effects([past EXCEPT !.host = {n}]), n)
  /\ World

setTab(tab) ==
  /\ past.host # {} /\ past.tab # tab
  /\ Cardinality(past.asked) < MaxAsked
  /\ past' = Effects([past EXCEPT !.tab = tab])
  /\ World

applyRange(range) ==
  /\ past.tab = "history" /\ Cardinality(past.asked) < MaxAsked
  /\ past' = Effects([past EXCEPT !.range = range])
  /\ World
applyPreset(p) == applyRange(Range24(p))
applyCustomRange(from, to) == from < to /\ applyRange([from |-> from, to |-> to])

\* The slider is there when nothing is being loaded; snapshotLoading ends with
\* the first answer.
selectSnapshot(t) ==
  /\ past.tab = "snapshot" /\ t \in past.timeline
  /\ \A q \in Under(past, "snapshot") : q.late
  /\ past' = [past EXCEPT !.selected = t, !.strange = @ \/ past.listed.of # past.host]
  /\ World

(***************************************************************************)
(* The server.                                                             *)
(***************************************************************************)
getMetricsHistory(q) ==
  /\ ~q.served
  /\ \E n \in q.of :
       past' = [past EXCEPT !.asked = (@ \ {q}) \cup
         {[q EXCEPT !.served = TRUE, !.rows = IF q.kind = "history" THEN {} ELSE kept[n]]}]
  /\ World

SnapshotSaved(n) ==
  /\ today < LastTime /\ today' = today + 1
  /\ kept' = [kept EXCEPT ![n] = @ \cup {today'}]
  /\ taken' = [taken EXCEPT ![n] = @ \cup {today'}]
  /\ UNCHANGED <<looks, past>>
\* deleteOldRecentSnapshots
SnapshotDropped(n) ==
  /\ kept[n] # {} /\ kept' = [kept EXCEPT ![n] = @ \ {Sets!Min(@)}]
  /\ UNCHANGED <<looks, today, taken, past>>

(***************************************************************************)
(* Answers.                                                                *)
(***************************************************************************)
Answered(q) == [past EXCEPT !.asked = @ \ {q}]
Label(q)    == [of |-> q.of, range |-> q.range, late |-> q.late]

HistoryArrives(q) ==
  /\ q.kind = "history" /\ q.served
  /\ past' = [Answered(q) EXCEPT !.drawn = Label(q)]
  /\ World
\* Only what nobody has chosen is chosen: the newest.
TimelineArrives(q) ==
  /\ q.kind = "snapshot" /\ q.served
  /\ past' = [Answered(q) EXCEPT
       !.listed = Label(q), !.timeline = q.rows,
       !.selected = IF @ = 0 /\ q.rows # {} THEN Sets!Max(q.rows) ELSE @,
       !.strange = @ \/ (past.selected = 0 /\ q.of # past.host)]
  /\ World
\* A range that cannot be loaded leaves the last one on the screen, a list
\* that cannot be loaded is empty.
AskFails(q) ==
  /\ past' = IF q.kind = "snapshot"
             THEN [Answered(q) EXCEPT !.timeline = {}, !.listed = Label(q)]
             ELSE [Answered(q) EXCEPT !.missed = IF q.late THEN @ ELSE @ \cup {q.kind}]
  /\ World

PastInit ==
  /\ looks \in {"history", "snapshot"}
  /\ today = 2 /\ past = ClosedPast
  /\ \E n \in Host : kept = [h \in Host |-> IF h = n THEN {1} ELSE {2}]
  /\ taken = kept

PastNext ==
  \/ \E n \in Host : OpenHost(n) \/ JumpToHost(n) \/ SnapshotSaved(n) \/ SnapshotDropped(n)
  \/ LeaveHost
  \/ \E tab \in {"realtime", looks} : setTab(tab)
  \/ \E p \in {FirstPreset, OtherPreset} : applyPreset(p)
  \/ \E from, to \in 1 .. LastTime : applyCustomRange(from, to)
  \/ \E t \in 1 .. LastTime : selectSnapshot(t)
  \/ \E q \in past.asked :
       getMetricsHistory(q) \/ HistoryArrives(q) \/ TimelineArrives(q) \/ AskFails(q)

PastSpec == PastInit /\ [][PastNext]_pastVars

(***************************************************************************)
(* Properties.                                                             *)
(***************************************************************************)
\* Once nothing is being loaded, what a tab shows is of the node and the range
\* it names, unless an answer overtook a newer one or the newest request for a
\* range failed; and the snapshot chosen is one of that node's, found in the
\* list unless the server has dropped it or a newer list came before this one.
PastIsWhatWasAsked ==
  /\ past.tab = "history" /\ Under(past, "history") = {} /\ "history" \notin past.missed
     /\ ~past.drawn.late =>
       past.drawn.of = past.host /\ past.drawn.range = past.range
  /\ past.tab = "snapshot" /\ Under(past, "snapshot") = {} /\ ~past.listed.late =>
       /\ past.listed.of = past.host
       /\ \A n \in past.host :
            past.timeline # {} /\ ~past.strange =>
              /\ past.selected \in taken[n]
              /\ \/ past.selected \in past.timeline
                 \/ past.selected \notin kept[n]
                 \/ past.selected > Sets!Max(past.timeline)
=============================================================================
