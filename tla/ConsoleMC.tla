------------------------------ MODULE ConsoleMC ------------------------------
(***************************************************************************)
(* The machines of the web console share no state: one run checks them,    *)
(* each from its own initial states while the others rest.                 *)
(***************************************************************************)
EXTENDS LivePages, PersonWizard, WebSession, NodeCharts, NodeHistory,
        PersonPages

VARIABLE part     \* the machine of this behaviour

allVars == <<pagesVars, wizVars, webVars, chartVars, pastVars, sheetVars, part>>

\* Nodes are alike: the reports of one of them, and another to come from or go to.
OfOneNode == [n \in Node |-> IF n = CHOOSE h \in Node : TRUE THEN 3 ELSE 0]
LateSeeds == {q \in charts.seeds : q.late}

\* The machines that rest do so in one initial state.
Init ==
  /\ PagesInit /\ WizInit /\ WebInit /\ ChartInit /\ PastInit /\ SheetInit
  /\ part \in {"pages", "wizard", "session", "charts", "latest", "past", "sheet"}
  /\ part # "pages" => page = "store" /\ online
  /\ part # "wizard" => owner = [a \in Acct |-> nil]
  /\ part # "latest" => client = "web"
  /\ part # "past" => looks = "history"
  /\ part # "sheet" => route = "directory"
  \* Nodes are alike: it is enough that one of them has the older snapshot.
  /\ kept[CHOOSE h \in Host : TRUE] = {1}

Next ==
  /\ UNCHANGED part
  /\ \/ part = "pages" /\ PagesNext
        /\ UNCHANGED <<wizVars, webVars, chartVars, pastVars, sheetVars>>
     \/ part = "wizard" /\ WizNext
        /\ UNCHANGED <<pagesVars, webVars, chartVars, pastVars, sheetVars>>
     \/ part = "session" /\ WebNext
        /\ UNCHANGED <<pagesVars, wizVars, chartVars, pastVars, sheetVars>>
     \* The charts twice: on the web without answers with the latest reports, and
     \* with them but without a request for an earlier node on its way.
     \/ part = "charts" /\ ChartNext /\ lookups' = 0
        /\ UNCHANGED <<pagesVars, wizVars, webVars, pastVars, sheetVars>>
     \/ part = "latest" /\ ChartNext /\ LateSeeds' = {}
        /\ UNCHANGED <<pagesVars, wizVars, webVars, pastVars, sheetVars>>
     \/ part = "past" /\ PastNext
        /\ UNCHANGED <<pagesVars, wizVars, webVars, chartVars, sheetVars>>
     \/ part = "sheet" /\ SheetNext
        /\ UNCHANGED <<pagesVars, wizVars, webVars, chartVars, pastVars>>

Spec == Init /\ [][Next]_allVars
=============================================================================
