------------------------------ MODULE Supervisor ------------------------------
(***************************************************************************)
(* Starting, stopping and restarting the agent from the command line       *)
(* (cli_runtime.py, daemon/supervisor.py): processes, the pid file, and    *)
(* the path of the control socket, which the daemon binds                  *)
(* (daemon/socket_server.py).  Commands and processes run side by side and *)
(* share nothing but the two files.                                        *)
(*                                                                         *)
(* A process identifier is free again as soon as its process has ended;    *)
(* any other program may then be given it.                                 *)
(***************************************************************************)
EXTENDS Naturals, FiniteSets

CONSTANTS Pid, Command, nobody, stale   \* stale: a path whose daemon has died

\* An operating system has finitely many process identifiers.
ASSUME SupervisorAssumption == IsFiniteSet(Pid)

VARIABLES
  proc,       \* per pid: "free", "other" (another program), or a Stage
  foreground, \* the daemons that run_foreground started
  pidFile,    \* the pid in config.pid_file
  path,       \* whose socket config.socket_path names
  command,    \* [op, step, pid], per command line
  overlapped,    \* history: commands overlapped, or overtook a starting daemon
  doubled     \* history: two daemons have been there at the same time

supVars == <<proc, foreground, pidFile, path, command, overlapped, doubled>>

\* A child of fork, its pid file written, serving, told to stop, socket closed.
Stage  == {"forked", "written", "serving", "stopping", "closed"}
Quiet  == [op |-> "none", step |-> "none", pid |-> nobody]
Agents == {p \in Pid : proc[p] \in Stage}
Daemons == {p \in Pid : proc[p] \in Stage \ {"forked"}}
Detached == Daemons \ foreground
is_process_running(p) == p \in {q \in Pid : proc[q] # "free"}

SupInit ==
  /\ proc = [p \in Pid |-> "free"] /\ foreground = {}
  /\ pidFile = nobody /\ path = nobody
  /\ command = [c \in Command |-> Quiet]
  /\ overlapped = FALSE /\ doubled = FALSE

(***************************************************************************)
(* History: nothing is remembered once no daemon and no command is left.   *)
(***************************************************************************)
Others(c) == {d \in Command \ {c} : command[d] # Quiet}
Remember(overlap) ==
  LET left == Agents' # {} \/ \E c \in Command : command'[c] # Quiet IN
  /\ overlapped' = (left /\ (overlapped \/ overlap))
  /\ doubled' = (left /\ (doubled \/ Cardinality(Daemons') > 1))
Acts(c) == Remember(Others(c) # {} \/ \E p \in Pid : proc[p] = "forked")

Becomes(p, stage) == proc' = [proc EXCEPT ![p] = stage]
\* The end of a process: its socket, if the path still names it, is stale.
Ends(p) ==
  /\ Becomes(p, "free") /\ foreground' = foreground \ {p}
  /\ path' = IF path = p THEN stale ELSE path
Continue(c, step, p) == command' = [command EXCEPT ![c].step = step, ![c].pid = p]
Finish(c) == command' = [command EXCEPT ![c] = Quiet]

(***************************************************************************)
(* The commands.  restart is stop, whatever it returns, and then start.    *)
(***************************************************************************)
Run(c, op) ==
  /\ command[c] = Quiet
  /\ command' = [command EXCEPT ![c] =
       [op |-> op, step |-> IF op = "start" THEN "prepare" ELSE "read", pid |-> nobody]]
  /\ UNCHANGED <<proc, foreground, pidFile, path>> /\ Acts(c)

AfterStop(c) == IF command[c].op = "restart" THEN Continue(c, "prepare", nobody) ELSE Finish(c)

read_pid_file(c) ==
  /\ command[c].step = "read"
  /\ IF pidFile = nobody THEN AfterStop(c) ELSE Continue(c, "kill", pidFile)
  /\ UNCHANGED <<proc, foreground, pidFile, path>> /\ Acts(c)

\* os.kill raises where the pid file is stale, and the command ends, restart
\* as well.  Before start() has installed its handler, SIGTERM just kills.
Terminate(c) ==
  /\ command[c].step = "kill"
  /\ LET p == command[c].pid IN
     IF ~is_process_running(p)
       THEN Finish(c) /\ UNCHANGED <<proc, foreground, path>>
       ELSE /\ Continue(c, "wait", p)
            /\ \/ proc[p] \in {"forked", "written", "other"} /\ Ends(p)
               \/ proc[p] = "serving" /\ Becomes(p, "stopping") /\ UNCHANGED <<foreground, path>>
               \/ proc[p] \in {"stopping", "closed", "other"} /\ UNCHANGED <<proc, foreground, path>>
  /\ UNCHANGED pidFile /\ Acts(c)

\* wait_for_exit: the process has gone, or five seconds have passed.
wait_for_exit(c) ==
  /\ command[c].step = "wait"
  /\ pidFile' = IF is_process_running(command[c].pid) THEN pidFile ELSE nobody
  /\ AfterStop(c)
  /\ UNCHANGED <<proc, foreground, path>> /\ Acts(c)

\* Mutant: a pid file is always taken for stale.
PrepareAnyway == TRUE

prepare_pid_file == ~is_process_running(pidFile)

\* The parent returns at once; the child writes the pid file.
start_background_daemon(c) ==
  /\ command[c].step = "prepare"
  /\ \/ /\ prepare_pid_file
        /\ pidFile' = nobody
        /\ \E p \in Pid : proc[p] = "free" /\ Becomes(p, "forked")
     \/ ~prepare_pid_file /\ UNCHANGED <<proc, pidFile>>
  /\ Finish(c)
  /\ UNCHANGED <<foreground, path>> /\ Acts(c)

run_foreground(p) ==
  /\ proc[p] = "free"
  /\ Becomes(p, "written") /\ foreground' = foreground \cup {p}
  /\ UNCHANGED <<pidFile, path, command>> /\ Remember(FALSE)

(***************************************************************************)
(* The daemons.                                                            *)
(***************************************************************************)
write_pid_file(p) ==
  /\ proc[p] = "forked"
  /\ Becomes(p, "written") /\ pidFile' = p
  /\ UNCHANGED <<foreground, path, command>> /\ Remember(FALSE)

\* Handlers, then the socket: whatever has the path is unlinked.
serve_forever(p) ==
  /\ proc[p] = "written"
  /\ Becomes(p, "serving") /\ path' = p
  /\ UNCHANGED <<foreground, pidFile, command>> /\ Remember(FALSE)

Interrupted(p) ==
  /\ proc[p] = "serving" /\ p \in foreground
  /\ Becomes(p, "stopping")
  /\ UNCHANGED <<foreground, pidFile, path, command>> /\ Remember(FALSE)

\* The thread of the socket looks once a second and does not outlive the
\* main thread: mostly the path stays.  It is unlinked whoever has it.
CloseSocket(p) ==
  /\ proc[p] = "stopping"
  /\ Becomes(p, "closed") /\ path' = nobody
  /\ UNCHANGED <<foreground, pidFile, command>> /\ Remember(FALSE)

\* start() has returned, or its service could not be set up.
DaemonEnds(p) ==
  /\ proc[p] \in {"written", "stopping", "closed"}
  /\ Ends(p)
  /\ pidFile' = IF p \in foreground THEN pidFile ELSE nobody
  /\ UNCHANGED command /\ Remember(FALSE)

Killed(p) ==
  /\ proc[p] \in Stage /\ Ends(p)
  /\ UNCHANGED <<pidFile, command>> /\ Remember(FALSE)

OtherProgram(p) ==
  /\ \/ proc[p] = "free" /\ Becomes(p, "other")
     \/ proc[p] = "other" /\ Becomes(p, "free")
  /\ UNCHANGED <<foreground, pidFile, path, command>> /\ Remember(FALSE)

SupNext ==
  \/ \E c \in Command :
       \/ \E op \in {"start", "stop", "restart"} : Run(c, op)
       \/ read_pid_file(c) \/ Terminate(c) \/ wait_for_exit(c) \/ start_background_daemon(c)
  \/ \E p \in Pid :
       \/ run_foreground(p) \/ write_pid_file(p) \/ serve_forever(p) \/ Interrupted(p)
       \/ CloseSocket(p) \/ DaemonEnds(p) \/ Killed(p) \/ OtherProgram(p)

SupSpec == SupInit /\ [][SupNext]_supVars

(***************************************************************************)
(* Properties.                                                             *)
(***************************************************************************)
\* The pid file names every background daemon, so that there is one of them
\* at most and status, stop and restart reach it: also after daemons were
\* killed, refused to end in time, or left their pid to another program; only
\* commands that overlap, or that come before a daemon just started has
\* written its file, break it.  And a daemon that serves has the path of the
\* socket, whatever died before and left its own there, as long as no second
\* daemon was there with it.
DaemonIsReachable ==
  /\ ~overlapped => \A p \in Detached : pidFile = p
  /\ ~doubled => \A p \in Pid : proc[p] = "serving" => path = p
===============================================================================
