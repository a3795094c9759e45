----------------------------- MODULE TaskReporting -----------------------------
(***************************************************************************)
(* How the server comes to know the tasks of a node: the daemon puts its   *)
(* queue into a report on every cycle (state/task_queue.py, reporter.py),  *)
(* sends it if it is connected and never again (transport/client.py); the  *)
(* server keeps one session per agent (realtime.ts, node/registry.ts),          *)
(* compares a report with the one before it (task/differ.ts), writes the   *)
(* tasks to the database and announces what has changed (task/engine.ts,   *)
(* ingest/pipeline.ts).                                                    *)
(*                                                                         *)
(* One agent.  The node's tasks are those of AgentDaemon with the reserved *)
(* state shown as queued, as reports show it, and two outcomes.            *)
(***************************************************************************)
EXTENDS Integers, Sequences, FiniteSets

CONSTANTS
    Task,
    MaxConn,         \* bound on the connections; the last one is never lost
    MaxInFlight,     \* bound on the messages under way on a connection
    DaemonRestarts,  \* bound on the restarts of the daemon
    ServerRestarts,  \* bound on the restarts and crashes of the server
    Overlap          \* may the agent connect again before the server has seen
                     \* the end of the old connection?

ASSUME TaskReportingAssumption ==
    /\ MaxConn \in Nat \ {0} /\ MaxInFlight \in Nat \ {0, 1}
    /\ DaemonRestarts \in Nat /\ ServerRestarts \in Nat
    /\ Overlap \in BOOLEAN

Conn == 1..MaxConn

ActiveStatus == {"queued", "running"}
Outcome      == {"succeeded", "cancelled"}
Terminal     == Outcome \cup {"disappeared"}

\* A report: the status of the tasks it lists.
TaskReport == [Task -> ActiveStatus \cup Outcome \cup {"absent"}]
NoTasks == [t \in Task |-> "absent"]
Register == [type |-> "register"]
Message == {Register} \cup [type : {"report"}, tasks : TaskReport]

Announcement == {"submitted", "started", "ended"}

VARIABLES
    life,        \* what has become of a task on the node
    known,       \* the tasks that the daemon remembers
    reported,    \* the ended ones that a report was built with
    agentConn,   \* the connection that the agent believes to have, or 0
    used,        \* number of connections opened so far
    channel,     \* messages under way to the server
    open,        \* sockets that the server holds
    registered,  \* those whose handlers have an agentId
    agentSession, \* the socket of the agent's session in the registry, or 0
    latest,      \* the latest report; NoTasks also stands for none
    db,          \* status of a task in the table of tasks, or "absent"
    announced,   \* how often a change was announced, at most 2
    restarted    \* restarts so far

agentVars == <<life, known, reported>>
serverVars == <<open, registered, agentSession, latest, db, announced>>
reportingVars == <<agentVars, agentConn, used, channel, serverVars, restarted>>

ReportingInit ==
    /\ life = [t \in Task |-> "new"]
    /\ known = {} /\ reported = {}
    /\ agentConn = 0 /\ used = 0
    /\ channel = [c \in Conn |-> <<>>]
    /\ open = {} /\ registered = {} /\ agentSession = 0
    /\ latest = NoTasks
    /\ db = [t \in Task |-> "absent"]
    /\ announced = [t \in Task |-> [a \in Announcement |-> 0]]
    /\ restarted = [daemon |-> 0, server |-> 0]

-----------------------------------------------------------------------------
(* The node. *)

Submit(t) ==
    /\ life[t] = "new"
    /\ life' = [life EXCEPT ![t] = "queued"]
    /\ known' = known \cup {t}
    /\ UNCHANGED <<reported, agentConn, used, channel, serverVars, restarted>>

\* Mutant: a task that was cancelled meanwhile is launched.
StartAny(t) ==
    /\ t \in known
    /\ life' = [life EXCEPT ![t] = "running"]
    /\ UNCHANGED <<known, reported, agentConn, used, channel, serverVars, restarted>>

Start(t) ==
    /\ t \in known /\ life[t] = "queued"
    /\ life' = [life EXCEPT ![t] = "running"]
    /\ UNCHANGED <<known, reported, agentConn, used, channel, serverVars, restarted>>

Finish(t) ==
    /\ t \in known /\ life[t] = "running"
    /\ life' = [life EXCEPT ![t] = "succeeded"]
    /\ UNCHANGED <<known, reported, agentConn, used, channel, serverVars, restarted>>

\* On the node or by a command of the server.  It is accepted for a task that
\* has ended, which is reported again then.
Cancel(t) ==
    /\ t \in known
    /\ life' = [life EXCEPT ![t] = "cancelled"]
    /\ reported' = reported \ {t}
    /\ UNCHANGED <<known, agentConn, used, channel, serverVars, restarted>>

\* Send a message, which gets nowhere if the server has closed the socket.
Send(c, message) ==
    IF c \in open THEN /\ Len(channel[c]) < MaxInFlight
                       /\ channel' = [channel EXCEPT ![c] = Append(@, message)]
                  ELSE UNCHANGED channel

\* What tick forgets: the ended tasks of an earlier report.
Forgotten(t) == t \in reported

\* tick, schedule, to_snapshot and send_report; without a connection the report
\* is dropped.
CollectCycle ==
    /\ known' = {t \in known : ~Forgotten(t)}
    /\ reported' = {t \in known' : life[t] \in Outcome}
    /\ IF agentConn = 0 THEN UNCHANGED channel
       ELSE Send(agentConn, [type |-> "report",
                             tasks |-> [t \in Task |-> IF t \in known' THEN life[t] ELSE "absent"]])
    /\ UNCHANGED <<life, agentConn, used, serverVars, restarted>>

\* tick without a report after it: a launch raises in the middle of the cycle, or
\* a foreground command has failed or ended.
TickWithoutReport ==
    /\ known' = {t \in known : ~Forgotten(t)}
    /\ reported' = {}
    /\ UNCHANGED <<life, agentConn, used, channel, serverVars, restarted>>

\* The agent connects and registers.
Connect ==
    /\ agentConn = 0 /\ used < MaxConn
    /\ Overlap \/ open = {}
    /\ used' = used + 1
    /\ agentConn' = used + 1
    /\ open' = open \cup {used + 1}
    /\ channel' = [channel EXCEPT ![used + 1] = <<Register>>]
    /\ UNCHANGED <<agentVars, registered, agentSession, latest, db, announced, restarted>>

\* The end of the agent's connection: of what is under way some prefix arrives.
Drop ==
    /\ agentConn' = 0
    /\ IF agentConn = 0 THEN UNCHANGED channel
       ELSE \E n \in 0..Len(channel[agentConn]) :
               channel' = [channel EXCEPT ![agentConn] = SubSeq(@, 1, n)]

AgentDisconnects ==
    /\ agentConn # 0 /\ used < MaxConn
    /\ Drop
    /\ UNCHANGED <<agentVars, used, serverVars, restarted>>

\* The queue is in memory only: the new daemon knows nothing of the old tasks.
DaemonRestart ==
    /\ restarted.daemon < DaemonRestarts /\ used < MaxConn
    /\ restarted' = [restarted EXCEPT !.daemon = @ + 1]
    /\ life' = [t \in Task |-> IF life[t] \in ActiveStatus THEN "lost" ELSE life[t]]
    /\ known' = {} /\ reported' = {}
    /\ Drop
    /\ UNCHANGED <<used, serverVars>>

-----------------------------------------------------------------------------
(* The server. *)

\* Mutant: only running tasks are missed.
DisappearedRunning(r) == {t \in Task : latest[t] = "running" /\ r[t] = "absent"}

\* Mutant: a queued task is taken for gone.
DisappearedUnlessRunning(r) ==
    {t \in Task : latest[t] \in ActiveStatus /\ r[t] \notin Outcome \cup {"running"}}

\* Tasks of the report before this one that are in neither of its lists.
Disappeared(r) == {t \in Task : latest[t] \in ActiveStatus /\ r[t] = "absent"}

\* The status that the table of tasks is given.
Persisted(r, t) == IF t \in Disappeared(r) THEN "disappeared" ELSE r[t]

Listed(r) == {t \in Task : r[t] # "absent"}

\* The table after the tasks of S have been written.
Upserted(r, S) == [t \in Task |-> IF t \in S THEN Persisted(r, t) ELSE db[t]]

Ended(r) == {t \in Task : r[t] \in Outcome} \cup Disappeared(r)

\* Mutant: a task that first appears as running is started only.
ChangesWithoutSubmitted(r) ==
    {<<"submitted", t>> : t \in {u \in Task : r[u] = "queued" /\ latest[u] = "absent"}}
    \cup {<<"started", t>> : t \in {u \in Task : r[u] = "running" /\ latest[u] # "running"}}
    \cup {<<"ended", t>> : t \in Ended(r)}

\* diffTasks: the changes that a report is announced with.
Changes(r) ==
    {<<"submitted", t>> : t \in {u \in Task : r[u] \in ActiveStatus /\ latest[u] \notin ActiveStatus}}
    \cup {<<"started", t>> : t \in {u \in Task : r[u] = "running" /\ latest[u] # "running"}}
    \cup {<<"ended", t>> : t \in Ended(r)}

TakeReport(r) ==
    /\ latest' = r
    /\ db' = Upserted(r, Listed(r) \cup Disappeared(r))
    /\ announced' = [t \in Task |-> [a \in Announcement |->
          IF <<a, t>> \in Changes(r) /\ announced[t][a] < 2 THEN announced[t][a] + 1
                                                            ELSE announced[t][a]]]

Taken(c) == channel' = [channel EXCEPT ![c] = Tail(@)]

ReceiveRegister(c) ==
    /\ c \in open /\ channel[c] # <<>> /\ Head(channel[c]).type = "register"
    /\ Taken(c)
    /\ registered' = registered \cup {c}
    /\ agentSession' = c
    /\ UNCHANGED <<agentVars, agentConn, used, open, latest, db, announced, restarted>>

\* A report is taken if the agent has a session, be it that of another socket.
ReceiveReport(c) ==
    /\ c \in open /\ channel[c] # <<>> /\ Head(channel[c]).type = "report"
    /\ Taken(c)
    /\ IF c \in registered /\ agentSession # 0
       THEN TakeReport(Head(channel[c]).tasks)
       ELSE UNCHANGED <<latest, db, announced>>
    /\ UNCHANGED <<agentVars, agentConn, used, open, registered, agentSession, restarted>>

\* The registry forgets the session of the agent, whichever socket it has.
DetachSession(c) == IF c \in registered THEN 0 ELSE agentSession

\* The server sees the end of a connection: it is closed, or its pings are not
\* answered.  What was under way is lost.
SocketDisconnect(c) ==
    /\ c \in open
    /\ c = agentConn => used < MaxConn
    /\ open' = open \ {c}
    /\ registered' = registered \ {c}
    /\ agentSession' = DetachSession(c)
    /\ channel' = [channel EXCEPT ![c] = <<>>]
    /\ UNCHANGED <<agentVars, agentConn, used, latest, db, announced, restarted>>

ForgetServer ==
    /\ restarted.server < ServerRestarts /\ used < MaxConn
    /\ restarted' = [restarted EXCEPT !.server = @ + 1]
    /\ open' = {} /\ registered' = {} /\ agentSession' = 0
    /\ latest' = NoTasks
    /\ channel' = [c \in Conn |-> <<>>]
    /\ UNCHANGED <<agentVars, agentConn, used, announced>>

\* Sessions and latest reports are in memory, the table of tasks is not.
ServerRestart == ForgetServer /\ UNCHANGED db

\* The server dies while it writes the tasks of a report: those that have
\* disappeared come last, and nothing has been announced.
CrashWhileProcessing(c) ==
    /\ c \in registered /\ agentSession # 0
    /\ channel[c] # <<>> /\ Head(channel[c]).type = "report"
    /\ LET r == Head(channel[c]).tasks IN
       \E S \in SUBSET (Listed(r) \cup Disappeared(r)) :
          /\ S \cap Disappeared(r) # {} => Listed(r) \subseteq S
          /\ db' = Upserted(r, S)
    /\ ForgetServer

-----------------------------------------------------------------------------

ReportingNext ==
    \/ \E t \in Task : Submit(t) \/ Start(t) \/ Finish(t) \/ Cancel(t)
    \/ CollectCycle
    \/ TickWithoutReport
    \/ Connect
    \/ AgentDisconnects
    \/ DaemonRestart
    \/ \E c \in Conn :
          \/ ReceiveRegister(c)
          \/ ReceiveReport(c)
          \/ SocketDisconnect(c)
          \/ CrashWhileProcessing(c)
    \/ ServerRestart

ReportingSpec == ReportingInit /\ [][ReportingNext]_reportingVars

\* The cycle runs for ever, the client reconnects for ever, both sides notice
\* in time (pings) that the other one has gone, and TCP delivers.
ReportingFairness ==
    /\ WF_reportingVars(CollectCycle)
    /\ WF_reportingVars(Connect)
    /\ WF_reportingVars(agentConn \notin open /\ AgentDisconnects)
    /\ \A c \in Conn :
          /\ WF_reportingVars(ReceiveRegister(c))
          /\ WF_reportingVars(ReceiveReport(c))
          /\ WF_reportingVars(c # agentConn /\ SocketDisconnect(c))

FairReportingSpec == ReportingSpec /\ ReportingFairness

-----------------------------------------------------------------------------
(* Properties. *)

\* A task that the table shows as ended never goes back to queued or running
\* there (task/engine.ts writes whatever a report says), whichever reports are
\* lost and whoever restarts, as long as the reports arrive in order.
TerminalStays ==
    [][\A t \in Task : db[t] \in Terminal => db'[t] \in Terminal]_reportingVars

\* What the table says of an end is true.  A task is written down as disappeared
\* only if the node does not have it any more: a lost report alone makes no task
\* disappear (task/differ.ts).  An outcome is one that the task has had, and if it
\* is cancelled there the task was cancelled (task/engine.ts).
TableIsTrue ==
    \A t \in Task :
        /\ db[t] = "disappeared" => life[t] \notin ActiveStatus
        /\ db[t] \in Outcome => life[t] \in {db[t], "cancelled"}

\* Nobody is told of the start of a task that has not been submitted, and of
\* nothing but its end once a task has ended (task/differ.ts).
AnnouncedInOrder ==
    /\ \A t \in Task : announced[t]["started"] > 0 => announced[t]["submitted"] > 0
    /\ \A t \in Task : announced[t]["ended"] > 0 => db[t] \in Terminal

\* As long as the server does not restart, the table and the announcements
\* agree: a status was announced when it was written (ingest/pipeline.ts).
TableIsAnnounced ==
    restarted.server = 0 => \A t \in Task :
        /\ db[t] = "running" => announced[t]["started"] > 0
        /\ db[t] \in ActiveStatus => announced[t]["submitted"] > 0
        /\ db[t] \in Terminal <=> announced[t]["ended"] > 0

\* What is announced agrees with the table, and comes in its order.
AnnouncementsAgree == AnnouncedInOrder /\ TableIsAnnounced

\* A task that the table shows as active and that the node does not have any
\* more is shown as ended in the end, though the report that said so was lost,
\* unless the server forgets at a restart which tasks it was told of before.
EndIsSeen ==
    \A t \in Task :
        db[t] \in ActiveStatus /\ life[t] \notin ActiveStatus
            ~> (db[t] \in Terminal \/ restarted.server > 0)

\* With a connection that lasts, a task that ends is stored with its outcome:
\* reports are not kept, but one is built before the task is forgotten.
OutcomeArrives ==
    \A t \in Task :
        agentConn = MaxConn /\ agentSession = MaxConn /\ t \in known \ reported /\ life[t] \in Outcome
            ~> db[t] \in Outcome

\* The end of a task, and with a lasting connection its outcome, gets to the table.
EndReachesTheTable == EndIsSeen /\ OutcomeArrives

\* An agent whose connection lasts has a session (realtime.ts).
SessionLasts == <>[](agentConn = MaxConn) => <>[](agentSession = MaxConn)

=============================================================================
