----------------------------- MODULE AlertsPage -----------------------------
(***************************************************************************)
(* The page of alerts in the web console (Alerts.tsx) with the routes it   *)
(* calls: a list by status and page, loaded anew on every event, and rows  *)
(* that are selected on one page, kept over pages, searches and loads, and *)
(* silenced or unsilenced together, which the server refuses every time.   *)
(* Loads and actions overlap, answers come in any order or not at all, and *)
(* the load that follows an action is for the tab and the page at which it *)
(* was clicked.                                                            *)
(*                                                                         *)
(* All alerts exist from the start.  Their values, and with them the order *)
(* that a column gives and the search, which hides rows, are left out; the *)
(* socket is connected (LivePages has what happens when it is not).  To    *)
(* bound the states, nothing is selected while an action is under way, and *)
(* the button of a row is clicked only while nothing is selected.          *)
(***************************************************************************)
EXTENDS Naturals, Sequences, FiniteSets
Seqs == INSTANCE SequencesExt

CONSTANTS Alarm,        \* alerts
          Tabs,         \* of the four: "all" and statuses
          PAGE_SIZE,
          MaxAsks,      \* bound: loads, actions and events on their way together when
                        \* one more begins; an action counts for two
          MaxOffset     \* bound of the offset

VARIABLES
  status,   \* of an alert
  order,    \* the alerts by updated_at, the latest first
  desk,     \* the page, see DeskInit
  asks,     \* loads under way
  acts,     \* actions under way
  bells,    \* alertStateChange events on their way
  behindhand   \* history: something happened after which the list may be out of date

deskVars == <<status, order, desk, asks, acts, bells, behindhand>>

AlertStatus == {"active", "resolved", "silenced"}
OnTheWay == Cardinality(asks) + Cardinality(acts) + bells

-----------------------------------------------------------------------------
(* The server. *)

\* The query of GET /alerts, over the alerts in their order and their statuses.
queryAlerts(alerts, is, tab, offset) ==
  LET list == SelectSeq(alerts, LAMBDA a : tab = "all" \/ is[a] = tab)
      last == offset + PAGE_SIZE
      cut  == SubSeq(list, offset + 1, IF last < Len(list) THEN last ELSE Len(list))
  IN  [i \in DOMAIN cut |-> [id |-> cut[i], status |-> is[cut[i]]]]
getAlerts(tab, offset) == queryAlerts(order, status, tab, offset)

Latest(a, list) == <<a>> \o SelectSeq(list, LAMBDA b : b # a)

\* silenceAlert takes any alert that is not silenced, also a resolved one.
After(kind, st) ==
  CASE kind = "silence" /\ st # "silenced"   -> "silenced"
    [] kind = "unsilence" /\ st = "silenced" -> "resolved"
    [] OTHER -> st

\* What the page shows is the tab and the page that are chosen.
Current == desk.rows = getAlerts(desk.tab, desk.offset)
BehindIf(cause) == behindhand' = ((behindhand \/ cause) /\ ~Current')
\* An answer on its way has missed what happens now.
Missed == {[l EXCEPT !.late = @ \/ l.served] : l \in asks}

\* The page that has asked is told, and no other.  A batch is refused whatever it
\* asks: its path is also one of /alerts/:id/..., which are looked at first, and
\* there is no alert with the id "batch".
ServeAct(x) ==
  /\ x \in acts /\ x.ids # {}
  /\ \/ /\ x.batch \/ \A a \in x.ids : After(x.kind, status[a]) = status[a]
        /\ acts' = acts \ {x} /\ UNCHANGED <<status, order, asks>>
     \/ /\ ~x.batch
        /\ \E a \in x.ids :
             /\ After(x.kind, status[a]) # status[a]
             /\ status' = [status EXCEPT ![a] = After(x.kind, @)]
             /\ order' = Latest(a, order)
        /\ acts' = (acts \ {x}) \cup {[x EXCEPT !.kind = "done", !.ids = {}]}
        /\ asks' = Missed
  /\ UNCHANGED <<desk, bells>> /\ BehindIf(FALSE)

\* reconcileAlerts, with the event that follows
StatusChanges(a) ==
  /\ status[a] # "silenced"
  /\ status' = [status EXCEPT ![a] = IF @ = "active" THEN "resolved" ELSE "active"]
  /\ order' = Latest(a, order)
  /\ OnTheWay < MaxAsks /\ bells' = bells + 1
  /\ UNCHANGED <<desk, asks, acts>> /\ BehindIf(FALSE)

\* Nobody is told of a report that finds an alert still active or silenced, nor
\* of what another administrator does.
Unannounced(a) ==
  /\ \/ status[a] # "resolved" /\ UNCHANGED status
     \/ \E kind \in {"silence", "unsilence"} :
          /\ After(kind, status[a]) # status[a]
          /\ status' = [status EXCEPT ![a] = After(kind, @)]
  /\ order' = Latest(a, order)
  /\ asks' = Missed
  /\ UNCHANGED <<desk, acts, bells>> /\ BehindIf(TRUE)

ServeList(l) ==
  /\ l \in asks /\ ~l.served
  /\ asks' = (asks \ {l}) \cup {[l EXCEPT !.served = TRUE, !.rows = getAlerts(l.tab, l.offset)]}
  /\ UNCHANGED <<status, order, desk, acts, bells, behindhand>>

-----------------------------------------------------------------------------
(* Loading. *)

\* load, as it was made for a tab and a page.  Those before it are late; of late
\* ones that are alike one is kept.
load(tab, offset) ==
  asks' = {[l EXCEPT !.late = TRUE] : l \in asks} \cup
    {[tab |-> tab, offset |-> offset, late |-> FALSE, served |-> FALSE, rows |-> <<>>]}

ListAnswered(l) ==
  /\ l \in asks /\ l.served /\ asks' = asks \ {l}
  /\ desk' = [desk EXCEPT !.rows = l.rows, !.loading = FALSE]
  /\ UNCHANGED <<status, order, acts, bells>>
  /\ BehindIf(l.late \/ l.tab # desk.tab \/ l.offset # desk.offset)

\* What was shown stays.
ListFails(l) ==
  /\ l \in asks /\ asks' = asks \ {l}
  /\ desk' = [desk EXCEPT !.loading = FALSE]
  /\ UNCHANGED <<status, order, acts, bells>> /\ BehindIf(TRUE)

\* loadRef: for the tab and the page of the moment
BellRings ==
  /\ bells > 0 /\ bells' = bells - 1
  /\ load(desk.tab, desk.offset) /\ desk' = [desk EXCEPT !.loading = TRUE]
  /\ UNCHANGED <<status, order, acts>> /\ BehindIf(FALSE)

-----------------------------------------------------------------------------
(* The user. *)

\* Mutant: the selection survives.
handleTabChangeOnly(tab) ==
  [desk EXCEPT !.tab = tab, !.offset = 0, !.loading = TRUE]

handleTabChange(tab) ==
  [desk EXCEPT !.tab = tab, !.offset = 0, !.loading = TRUE, !.selected = {}, !.under = {}]

ChooseTab(tab) ==
  /\ tab # desk.tab /\ desk' = handleTabChange(tab)
  /\ OnTheWay < MaxAsks /\ load(tab, 0)
  /\ UNCHANGED <<status, order, acts, bells>> /\ BehindIf(FALSE)

\* The rows that are shown: none while the list is loading.
sorted == IF desk.loading THEN {} ELSE Seqs!ToSet(desk.rows)
allVisibleIds == {r.id : r \in sorted}

\* The buttons are there if there are rows, and only a full page has a next one.
TurnPage ==
  /\ sorted # {}
  /\ \E offset \in {desk.offset + PAGE_SIZE, desk.offset - PAGE_SIZE} \cap 0 .. MaxOffset :
       /\ offset > desk.offset => Len(desk.rows) >= PAGE_SIZE
       /\ desk' = [desk EXCEPT !.offset = offset, !.loading = TRUE]
       /\ OnTheWay < MaxAsks /\ load(desk.tab, offset)
  /\ UNCHANGED <<status, order, acts, bells>> /\ BehindIf(FALSE)

toggleRow(id) ==
  IF id \in desk.selected THEN desk.selected \ {id} ELSE desk.selected \cup {id}
toggleAll ==
  IF allVisibleIds \subseteq desk.selected THEN desk.selected \ allVisibleIds
                                           ELSE desk.selected \cup allVisibleIds
Toggle ==
  /\ sorted # {} /\ acts = {}
  /\ \E next \in {toggleAll} \cup {toggleRow(id) : id \in allVisibleIds} :
       desk' = [desk EXCEPT !.selected = next,
                           !.under = IF next = {} THEN {} ELSE @ \cup {desk.tab}]
  /\ UNCHANGED <<status, order, asks, acts, bells, behindhand>>

Act(kind, ids, batch) ==
  /\ OnTheWay + 1 < MaxAsks
  /\ acts' = acts \cup
       {[kind |-> kind, ids |-> ids, batch |-> batch, tab |-> desk.tab, offset |-> desk.offset]}
  /\ UNCHANGED <<status, order, desk, asks, bells, behindhand>>

\* The button of a row.  The one mark that disables it while its action is under
\* way passes to the row that is clicked next, so that it can be clicked twice.
handleSilence(r) ==
  /\ r \in sorted /\ r.status # "resolved" /\ desk.selected = {}
  /\ Act(IF r.status = "active" THEN "silence" ELSE "unsilence", {r.id}, FALSE)

handleBatchSilence ==
  /\ desk.selected # {} /\ ~\E x \in acts : x.batch
  /\ \E kind \in {"silence", "unsilence"} : Act(kind, desk.selected, TRUE)

\* Only an action on one row comes to this: no batch is ever done, so that the
\* selection is not emptied after one.
ActDone(x) ==
  /\ x \in acts /\ x.kind = "done" /\ acts' = acts \ {x}
  /\ load(x.tab, x.offset) /\ desk' = [desk EXCEPT !.loading = TRUE]
  /\ UNCHANGED <<status, order, bells>> /\ BehindIf(FALSE)

\* Failed, or lost on the way there or back: the page does nothing.
ActFails(x) ==
  /\ x \in acts /\ acts' = acts \ {x}
  /\ UNCHANGED <<status, order, desk, asks, bells>> /\ BehindIf(x.kind = "done")

DeskInit ==
  /\ status \in [Alarm -> AlertStatus] /\ order \in Seqs!SetToSeqs(Alarm)
  /\ asks = {[tab |-> "all", offset |-> 0, late |-> FALSE, served |-> FALSE, rows |-> <<>>]}
  \* under: history, the tabs under which the selection was made
  /\ desk = [tab |-> "all", offset |-> 0, rows |-> <<>>, loading |-> TRUE, selected |-> {},
              under |-> {}]
  /\ acts = {} /\ bells = 0 /\ behindhand = FALSE

DeskNext ==
  \/ \E a \in Alarm : StatusChanges(a) \/ Unannounced(a)
  \/ \E l \in asks : ServeList(l) \/ ListAnswered(l) \/ ListFails(l)
  \/ \E tab \in Tabs : ChooseTab(tab)
  \/ BellRings \/ TurnPage \/ Toggle \/ handleBatchSilence
  \/ \E r \in sorted : handleSilence(r)
  \/ \E x \in acts : ServeAct(x) \/ ActDone(x) \/ ActFails(x)

DeskSpec == DeskInit /\ [][DeskNext]_deskVars

(***************************************************************************)
(* Properties.                                                             *)
(***************************************************************************)
\* What the buttons of the bar act upon was selected under the tab on display,
\* though the selection goes beyond the rows on the screen.
SelectionIsOfTheTab == desk.selected # {} => desk.under = {desk.tab}

\* When nothing is under way the list is the page of the tab as the server has
\* it, except after an answer that was not the last, that failed or that was for
\* the tab or page of an earlier click, or after a change nobody was told of.
ListIsCurrent ==
  asks = {} /\ acts = {} /\ bells = 0 /\ ~behindhand => Current

AlertsPageIsTrue == SelectionIsOfTheTab /\ ListIsCurrent
=============================================================================
