-------------------------------- MODULE Fleet --------------------------------
(***************************************************************************)
(* The table of servers and the sessions of several nodes.  A node is      *)
(* filed under the row that names its agent id when it registers, and     *)
(* stays filed there as long as that session lasts; an administrator may   *)
(* meanwhile give the row to another agent, or delete it.  Commands for a  *)
(* task go to the first session that bears the id of the server the task   *)
(* is filed under.                                                         *)
(*                                                                         *)
(* Agent ids are those of different nodes; reports are taken in order (see *)
(* TaskReporting for what one node's reports do to its tasks).             *)
(***************************************************************************)
EXTENDS Naturals, Sequences, FiniteSets, SequencesExt

CONSTANTS Agent,           \* the nodes, by agent id
          Job,             \* the tasks
          NodeOf(_),       \* the node that runs a task
          gone,            \* no agent: the row was deleted
          MaxRows          \* bound: rows ever created

ASSUME FleetAssumption ==
  /\ gone \notin Agent /\ MaxRows \in Nat
  /\ \A j \in Job : NodeOf(j) \in Agent

VARIABLES
  rows,      \* servers: the agent id of every row ever created, by server id
  wires,     \* sockets the server knows: [agent, nr, alive, registered]
  sessions,  \* AgentSessionRegistry.sessions, in the order of the Map:
             \* [agent, server, nr], and whether the row was taken away since
  filed,     \* tasks: the server id of the row, 0 before there is one
  obeyed,    \* history: the last command a node got, [by, job, excused], or none
  handed     \* history: servers given to another agent

fleetVars == <<rows, wires, sessions, filed, obeyed, handed>>

Socket == {1, 2}   \* the connection of a node and one that broke before

None == 0
getServerByAgentId(a) ==
  IF a \in ToSet(rows) THEN CHOOSE id \in DOMAIN rows : rows[id] = a ELSE None

\* The place of a session, 0 if there is none.
SessionOf(a)  == SelectInSeq(sessions, LAMBDA x : x.agent = a)
SessionOn(id) == SelectInSeq(sessions, LAMBDA x : x.server = id)
getSession(a) == sessions[SessionOf(a)]
getSessionByServerId(id) == sessions[SessionOn(id)]

(***************************************************************************)
(* The connections of the nodes.                                           *)
(***************************************************************************)
Connect(a) ==
  /\ ~\E w \in wires : w.agent = a /\ w.alive
  /\ \E nr \in Socket \ {w.nr : w \in {x \in wires : x.agent = a}} :
       wires' = wires \cup {[agent |-> a, nr |-> nr, alive |-> TRUE, registered |-> FALSE]}
  /\ UNCHANGED <<rows, sessions, filed, obeyed, handed>>

\* The server notices later; the end of a socket that never registered is of no
\* consequence.
ConnectionBreaks(w) ==
  /\ w.alive
  /\ wires' = (wires \ {w}) \cup (IF w.registered THEN {[w EXCEPT !.alive = FALSE]} ELSE {})
  /\ UNCHANGED <<rows, sessions, filed, obeyed, handed>>

\* A Map keeps the place of a key that is set again.
attachSession(x) ==
  sessions' = IF SessionOf(x.agent) = 0 THEN Append(sessions, x)
              ELSE [sessions EXCEPT ![SessionOf(x.agent)] = x]
detachSession(a) ==
  sessions' = IF SessionOf(a) = 0 THEN sessions ELSE RemoveAt(sessions, SessionOf(a))

\* agent:register, with createServer for a node that has no row
register(w) ==
  /\ w.alive /\ ~w.registered
  /\ IF getServerByAgentId(w.agent) = None
     THEN Len(rows) < MaxRows /\ rows' = Append(rows, w.agent)
     ELSE UNCHANGED rows
  /\ attachSession([agent |-> w.agent, nr |-> w.nr, taken |-> FALSE,
                    server |-> IF rows' = rows THEN getServerByAgentId(w.agent) ELSE Len(rows')])
  /\ wires' = (wires \ {w}) \cup {[w EXCEPT !.registered = TRUE]}
  /\ UNCHANGED <<filed, obeyed, handed>>

\* agent:report; every task in it is written with the server of the session
report(w, j) ==
  /\ w.alive /\ w.registered /\ NodeOf(j) = w.agent
  /\ SessionOf(w.agent) # 0
  /\ filed' = [filed EXCEPT ![j] = getSession(w.agent).server]
  /\ UNCHANGED <<rows, wires, sessions, obeyed, handed>>

\* disconnect; the session is the agent's, whichever socket made it
disconnected(w) ==
  /\ ~w.alive /\ wires' = wires \ {w}
  /\ detachSession(w.agent)
  /\ UNCHANGED <<rows, filed, obeyed, handed>>

(***************************************************************************)
(* The routes of the administrator.                                        *)
(***************************************************************************)
Taken(id) == [i \in DOMAIN sessions |->
                [sessions[i] EXCEPT !.taken = @ \/ sessions[i].server = id]]

\* agent_id is UNIQUE: a second row for an agent is refused.
createServer(a) ==
  /\ Len(rows) < MaxRows /\ a \notin ToSet(rows)
  /\ rows' = Append(rows, a)
  /\ UNCHANGED <<wires, sessions, filed, obeyed, handed>>

updateServer(id, a) ==
  /\ rows[id] # gone /\ a \notin ToSet(rows)
  /\ rows' = [rows EXCEPT ![id] = a]
  /\ sessions' = Taken(id) /\ handed' = handed \cup {id}
  /\ UNCHANGED <<wires, filed, obeyed>>

deleteServer(id) ==
  /\ rows[id] # gone
  /\ rows' = [rows EXCEPT ![id] = gone]
  /\ sessions' = Taken(id)
  /\ UNCHANGED <<wires, filed, obeyed, handed>>

\* GET /statuses
online(id) == rows[id] # gone /\ SessionOf(rows[id]) # 0

\* Mutant: the command goes to the first node there is.
Anyone(id) == sessions[1]
Addressee(id) == getSessionByServerId(id)

\* cancelTask and setPriority, for the server the task is filed under; nobody
\* is told when there is no session, or when its socket is dead.
Command(j) ==
  /\ filed[j] # None /\ SessionOn(filed[j]) # 0
  /\ LET x == Addressee(filed[j])
     IN  /\ \E w \in wires : w.agent = x.agent /\ w.nr = x.nr /\ w.alive
         /\ obeyed' = {[by |-> x.agent, job |-> j, excused |-> filed[j] \in handed]}
  /\ UNCHANGED <<rows, wires, sessions, filed, handed>>

\* The registry is in memory, the tables are not.
RestartApp ==
  /\ wires # {}
  /\ wires' = {} /\ sessions' = <<>>
  /\ UNCHANGED <<rows, filed, obeyed, handed>>

(***************************************************************************)
(* Behaviours.                                                             *)
(***************************************************************************)
FleetInit ==
  /\ rows = <<>> /\ wires = {} /\ sessions = <<>>
  /\ filed = [j \in Job |-> None] /\ obeyed = {} /\ handed = {}

FleetNext ==
  \/ \E a \in Agent : Connect(a) \/ createServer(a)
  \/ \E w \in wires : ConnectionBreaks(w) \/ register(w) \/ disconnected(w)
                      \/ (\E j \in Job : report(w, j))
  \/ \E id \in DOMAIN rows : deleteServer(id) \/ (\E a \in Agent : updateServer(id, a))
  \/ \E j \in Job : Command(j)
  \/ RestartApp

FleetSpec == FleetInit /\ [][FleetNext]_fleetVars

(***************************************************************************)
(* Properties.                                                             *)
(***************************************************************************)
\* A command for a task reaches the node that has the task, unless the server
\* it is filed under was given to another agent; and while nobody takes its row
\* away, a session files under the one row that names its agent, is the only
\* one to do so, and answers for a socket the server still knows, so that a
\* server shown online is one whose commands have somewhere to go.
CommandsReachTheirNode ==
  /\ \A c \in obeyed : c.by = NodeOf(c.job) \/ c.excused
  /\ \A i \in DOMAIN sessions : LET x == sessions[i] IN
       /\ \E w \in wires : w.agent = x.agent /\ w.nr = x.nr /\ w.registered
       /\ ~x.taken => /\ rows[x.server] = x.agent /\ online(x.server)
                      /\ \A k \in DOMAIN sessions \ {i} :
                           sessions[k].server = x.server => sessions[k].taken
=============================================================================
