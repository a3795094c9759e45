------------------------------- MODULE ServerMC -------------------------------
(***************************************************************************)
(* The alerts of a node, the reporting of its tasks, the database file and *)
(* a task on its way to a page share nothing here: one run checks the      *)
(* four, each while the others rest.  The database is there twice: what    *)
(* happens to its files, and what the page of the settings saves in a      *)
(* database of this version.                                               *)
(***************************************************************************)
EXTENDS AlertLoop, TaskReporting, DatabaseStart, TaskWire

VARIABLE part     \* the machine of this behaviour

serverMCVars == <<vars, reportingVars, dbVars, wireVars, part>>

ServerInit ==
    /\ Init /\ ReportingInit /\ DatabaseInit /\ WireInit
    /\ part \in {"alerts", "tasks", "files", "settings", "wire"}
    /\ part # "wire" => spelling = {}
    /\ part \notin {"files", "settings"} => main = {}
    /\ part = "settings" => log = {} /\ \A c \in main : c.tables = AllTables

\* The page of the settings sees fewer kills than the files do.
SettingsNext == DatabaseNext /\ dbPast'.kills < MaxKills

ServerNext ==
    /\ UNCHANGED part
    /\ \/ part = "alerts" /\ Next /\ UNCHANGED <<reportingVars, dbVars, wireVars>>
       \/ part = "tasks" /\ ReportingNext /\ UNCHANGED <<vars, dbVars, wireVars>>
       \/ part = "files" /\ FileNext /\ UNCHANGED <<vars, reportingVars, wireVars>>
       \/ part = "settings" /\ SettingsNext /\ UNCHANGED <<vars, reportingVars, wireVars>>
       \/ part = "wire" /\ WireNext /\ UNCHANGED <<vars, reportingVars, dbVars>>

\* The fairness of AlertLoop and of TaskReporting, each for its own behaviours:
\* what rests is not bound to go on.
ServerFairness ==
    /\ WF_vars(part = "alerts" /\ TimePasses)
    /\ WF_vars(part = "alerts" /\ SweepOffline)
    /\ WF_reportingVars(part = "tasks" /\ CollectCycle)
    /\ WF_reportingVars(part = "tasks" /\ Connect)
    /\ WF_reportingVars(part = "tasks" /\ agentConn \notin open /\ AgentDisconnects)
    /\ \A c \in Conn :
          /\ WF_reportingVars(part = "tasks" /\ ReceiveRegister(c))
          /\ WF_reportingVars(part = "tasks" /\ ReceiveReport(c))
          /\ WF_reportingVars(part = "tasks" /\ c # agentConn /\ SocketDisconnect(c))

ServerSpec == ServerInit /\ [][ServerNext]_serverMCVars /\ ServerFairness
=============================================================================
