----------------------------- MODULE AgentDaemon -----------------------------
(***************************************************************************)
(* The agent daemon (pmeow/daemon/service.py) with everything that drives  *)
(* a task through its life: the collection cycle, the runtime monitor, the *)
(* runner with its child processes, the socket handlers, and the           *)
(* foreground command line, which runs its task in the user's terminal.    *)
(*                                                                         *)
(* Every handler that takes the daemon lock is one action.  The collection *)
(* cycle, the monitor and the handlers run in threads of their own, and    *)
(* the command line is another process, so their actions interleave.       *)
(* Which queued tasks fit on the GPUs is the scheduler's decision          *)
(* (GpuAdmission): here the cycle may launch any of the queued tasks.      *)
(***************************************************************************)
EXTENDS TaskQueue

CONSTANT Foreground   \* the tasks submitted by the pmeow command line

ASSUME ForegroundAssumption == Foreground \subseteq Task

VARIABLES
    q,         \* DaemonService.task_queue
    tracked,   \* TaskRunner._procs: the background tasks with a Popen object
    child,     \* the operating system's view of a task's process
    deadline,  \* attach_deadline of a reserved foreground task
    cli        \* where the command line of a foreground task is

vars == <<q, tracked, child, deadline, cli>>

Background == Task \ Foreground

ChildState    == {"unborn", "alive", "zombie_zero", "zombie_nonzero", "reaped"}
DeadlineState == {"none", "ahead", "passed"}
CliState      == {"off", "polling", "launching", "spawned", "attached",
                  "exited_zero", "exited_nonzero", "launch_failed", "done", "dead"}

Zombie(t) == child[t] \in {"zombie_zero", "zombie_nonzero"}

\* The exit code a zombie holds for whoever waits for it.
ExitOf(t) == IF child[t] = "zombie_zero" THEN "exit_zero" ELSE "exit_nonzero"

TypeOK ==
    /\ q \in Queue
    /\ tracked \subseteq Background
    /\ child \in [Task -> ChildState]
    /\ deadline \in [Task -> DeadlineState]
    /\ cli \in [Foreground -> CliState]

Init ==
    /\ q = EmptyQueue
    /\ tracked = {}
    /\ child = [t \in Task |-> "unborn"]
    /\ deadline = [t \in Task |-> "none"]
    /\ cli = [t \in Foreground |-> "off"]

-----------------------------------------------------------------------------
(* Handlers of the daemon's socket and of the server's commands. *)

\* submit_task of a background task.
SubmitBackground(t) ==
    /\ t \in Background
    /\ q.status[t] = "new"
    /\ \E p \in Priority : q' = Submit(q, t, p)
    /\ UNCHANGED <<tracked, child, deadline, cli>>

\* set_task_priority refuses a task that is not queued.
SetTaskPriority(t, p) ==
    /\ q' = SetPriority(q, t, p)
    /\ UNCHANGED <<tracked, child, deadline, cli>>

\* Mutant: the killed process stays in the runner's table.
KillLeavesTracked(t) ==
    /\ IF t \in q.running /\ t \in tracked
       THEN child' = [child EXCEPT ![t] = "reaped"]
       ELSE UNCHANGED child
    /\ UNCHANGED tracked

\* cancel_task kills and waits for the process of a running task the runner
\* tracks.  A foreground process is not tracked and is left alone.
Kill(t) ==
    IF t \in q.running /\ t \in tracked
    THEN /\ child' = [child EXCEPT ![t] = "reaped"]
         /\ tracked' = tracked \ {t}
    ELSE UNCHANGED <<child, tracked>>

CancelTask(t) ==
    /\ t \in Known(q)
    /\ q' = Cancel(q, t)
    /\ Kill(t)
    /\ UNCHANGED <<deadline, cli>>

-----------------------------------------------------------------------------
(* The locked part of collect_cycle. *)

Exited == {t \in tracked : Zombie(t)}

\* check_completed() polls the children, so the exited ones are reaped.
Polled(q0) == PushCompletion(q0, Exited, [t \in Task |-> ExitOf(t)])

\* Mutant: a foreground reservation gets no deadline.
LaunchWithoutDeadline(q0, L, F) ==
    /\ L \cup F \subseteq q0.queued
    /\ L \cap F = {}
    /\ tracked' = (tracked \ Exited) \cup (L \cap Background)
    /\ child' = [t \in Task |->
                    IF t \in Exited THEN "reaped"
                    ELSE IF t \in L \cap Background THEN "alive" ELSE child[t]]
    /\ UNCHANGED deadline

\* Reserve and launch the tasks of L; the launch of F, if there is one, raises.
Launch(q0, L, F) ==
    /\ L \cup F \subseteq q0.queued
    /\ L \cap F = {}
    /\ tracked' = (tracked \ Exited) \cup (L \cap Background)
    /\ child' = [t \in Task |->
                    IF t \in Exited THEN "reaped"
                    ELSE IF t \in L \cap Background THEN "alive" ELSE child[t]]
    /\ deadline' = [t \in Task |->
                       IF t \in L \cap Foreground THEN "ahead" ELSE deadline[t]]

\* All decisions are carried out and the report is built.
CollectCycle ==
    \E q0 \in Tick(Polled(q)) : \E L \in SUBSET q0.queued :
        /\ Launch(q0, L, {})
        /\ q' = ToSnapshot(Start(Reserve(q0, L), L \cap Background))
        /\ UNCHANGED cli

\* runner.start() raises for task f (its directory is gone, its command cannot
\* be executed): f stays reserved, and the exception ends the cycle before the
\* later decisions and before the report.
CollectCycleFails ==
    \E q0 \in Tick(Polled(q)) : \E f \in Background \cap q0.queued :
    \E L \in SUBSET (q0.queued \ {f}) :
        /\ Launch(q0, L, {f})
        /\ q' = Reserve(Start(Reserve(q0, L), L \cap Background), {f})
        /\ UNCHANGED cli

-----------------------------------------------------------------------------
(* RuntimeMonitorLoop.tick only pushes observations.  A zombie still counts  *)
(* as alive, and start() always records a PID.                               *)

\* Mutants: a zombie counts as gone; only the daemon's own children are looked at.
VanishedZombies   == {t \in q.running : child[t] # "alive"}
VanishedChildren  == {t \in q.running \cap Background : child[t] = "reaped"}

Vanished == {t \in q.running : child[t] = "reaped"}
Overdue  == {t \in q.reserved : deadline[t] = "passed"}

MonitorTick ==
    /\ q' = PushRuntime(q, Vanished \cup Overdue,
                [t \in Task |-> IF t \in q.running THEN "pid_disappeared"
                                                   ELSE "attach_timeout"])
    /\ UNCHANGED <<tracked, child, deadline, cli>>

-----------------------------------------------------------------------------
(* The foreground command line and the handlers it calls. *)

CliAt(t, from, to) ==
    /\ cli[t] = from
    /\ cli' = [cli EXCEPT ![t] = to]

\* submit_task of a foreground task; the command line starts to poll.
SubmitForeground(t) ==
    /\ CliAt(t, "off", "polling")
    /\ q.status[t] = "new"
    /\ \E p \in Priority : q' = Submit(q, t, p)
    /\ UNCHANGED <<tracked, child, deadline>>

\* get_task shows the task reserved, or shows it ended or forgotten.
CliPoll(t) ==
    /\ \/ CliAt(t, "polling", "launching") /\ t \in q.reserved
       \/ CliAt(t, "polling", "done") /\ t \in q.terminal
       \/ CliAt(t, "polling", "done") /\ t \notin Known(q)
    /\ UNCHANGED <<q, tracked, child, deadline>>

\* Popen succeeds or raises.
CliSpawn(t) ==
    /\ \/ /\ CliAt(t, "launching", "spawned")
          /\ child' = [child EXCEPT ![t] = "alive"]
       \/ CliAt(t, "launching", "launch_failed") /\ UNCHANGED child
    /\ UNCHANGED <<q, tracked, deadline>>

\* Mutants: a rejected command line leaves its child alone; the daemon confirms
\* whatever state the task is in.
ConfirmWithoutKill(t) ==
    /\ \/ CliAt(t, "spawned", "attached") /\ t \in q.reserved
       \/ CliAt(t, "spawned", "launch_failed")
    /\ q' = Start(q, {t} \cap q.reserved)
    /\ UNCHANGED <<tracked, child, deadline>>

ConfirmUnguarded(t) ==
    /\ CliAt(t, "spawned", "attached")
    /\ q' = Start(q, {t})
    /\ UNCHANGED <<tracked, child, deadline>>

\* confirm_foreground_launch starts a reserved task.  Unless the command line
\* gets True for an answer (the task may not be reserved any more, and the
\* daemon may fail after the start) it kills the child it has just spawned.
ConfirmForegroundLaunch(t) ==
    /\ \/ CliAt(t, "spawned", "attached") /\ t \in q.reserved /\ UNCHANGED child
       \/ /\ CliAt(t, "spawned", "launch_failed")
          /\ child' = [child EXCEPT ![t] = "reaped"]
    /\ q' = Start(q, {t} \cap q.reserved)
    /\ UNCHANGED <<tracked, deadline>>

\* fail_foreground_launch only acts on a reserved task.
FailForegroundLaunch(t) ==
    /\ CliAt(t, "launch_failed", "done")
    /\ IF t \in q.reserved
       THEN q' \in Tick(PushRuntime(q, {t}, [u \in Task |-> "launch_failed"]))
       ELSE UNCHANGED q
    /\ UNCHANGED <<tracked, child, deadline>>

\* The command line waits for its child: proc.wait() returns.
CliReap(t) ==
    /\ \/ child[t] = "zombie_zero" /\ CliAt(t, "attached", "exited_zero")
       \/ child[t] = "zombie_nonzero" /\ CliAt(t, "attached", "exited_nonzero")
    /\ child' = [child EXCEPT ![t] = "reaped"]
    /\ UNCHANGED <<q, tracked, deadline>>

\* finish_foreground_task pushes the exit code and ticks, whatever state the
\* task is in, as long as it is still known.
FinishForegroundTask(t) ==
    /\ \/ CliAt(t, "exited_zero", "done")
       \/ CliAt(t, "exited_nonzero", "done")
    /\ LET exit == IF cli[t] = "exited_zero" THEN "exit_zero" ELSE "exit_nonzero"
       IN IF t \in Known(q)
          THEN q' \in Tick(PushCompletion(q, {t}, [u \in Task |-> exit]))
          ELSE UNCHANGED q
    /\ UNCHANGED <<tracked, child, deadline>>

\* Ctrl-C while the command line polls cancels the task.
CliInterruptPolling(t) ==
    /\ CliAt(t, "polling", "done")
    /\ q' = Cancel(q, t)
    /\ UNCHANGED <<tracked, child, deadline>>

\* Ctrl-C later ends the wait with exit code 130.  The child gets the signal
\* as well, and may die of it or ignore it.
CliInterruptLaunched(t) ==
    /\ \E from \in {"launching", "spawned", "attached"} :
           CliAt(t, from, "exited_nonzero")
    /\ \/ UNCHANGED child
       \/ /\ child[t] \notin {"unborn", "reaped"}
          /\ child' = [child EXCEPT ![t] = "reaped"]
    /\ UNCHANGED <<q, tracked, deadline>>

\* The command line is killed with its terminal, without a word to the daemon.
CliDies(t) ==
    /\ cli[t] \notin {"off", "done", "dead"}
    /\ cli' = [cli EXCEPT ![t] = "dead"]
    /\ UNCHANGED <<q, tracked, child, deadline>>

-----------------------------------------------------------------------------
(* The environment. *)

\* A process exits.  Its parent may still wait for it; an orphan's exit is
\* collected by the system at once.
Parented(t) == t \in tracked \/ (t \in Foreground /\ cli[t] \in {"spawned", "attached"})

ChildExits(t) ==
    /\ child[t] = "alive"
    /\ \E s \in (IF Parented(t) THEN {"zombie_zero", "zombie_nonzero"} ELSE {"reaped"}) :
           child' = [child EXCEPT ![t] = s]
    /\ UNCHANGED <<q, tracked, deadline, cli>>

\* A zombie whose parent has gone is collected by the system.
ZombieCollected(t) ==
    /\ Zombie(t) /\ ~Parented(t)
    /\ child' = [child EXCEPT ![t] = "reaped"]
    /\ UNCHANGED <<q, tracked, deadline, cli>>

\* Time passes the attach deadline of a task that is still reserved (once it
\* runs nobody reads the deadline again).
DeadlinePasses(t) ==
    /\ t \in q.reserved
    /\ deadline[t] = "ahead"
    /\ deadline' = [deadline EXCEPT ![t] = "passed"]
    /\ UNCHANGED <<q, tracked, child, cli>>

-----------------------------------------------------------------------------

CliStep(t) ==
    \/ SubmitForeground(t)
    \/ CliPoll(t)
    \/ CliSpawn(t)
    \/ ConfirmForegroundLaunch(t)
    \/ FailForegroundLaunch(t)
    \/ CliReap(t)
    \/ FinishForegroundTask(t)
    \/ CliInterruptPolling(t)
    \/ CliInterruptLaunched(t)
    \/ CliDies(t)

Next ==
    \/ \E t \in Task :
        \/ SubmitBackground(t)
        \/ \E p \in Priority : SetTaskPriority(t, p)
        \/ CancelTask(t)
        \/ ChildExits(t)
        \/ ZombieCollected(t)
        \/ DeadlinePasses(t)
    \/ CollectCycle
    \/ CollectCycleFails
    \/ MonitorTick
    \/ \E t \in Foreground : CliStep(t)

Spec == Init /\ [][Next]_vars

\* The daemon's threads run for ever: the collection cycle is repeated whether
\* or not the last one failed, the monitor polls every second, and time passes.
\* A command line that is neither interrupted nor killed makes its next call,
\* and the system collects orphans.  Nobody has to submit, cancel or exit.
CliProgress(t) ==
    \/ CliPoll(t)
    \/ CliSpawn(t)
    \/ ConfirmForegroundLaunch(t)
    \/ FailForegroundLaunch(t)
    \/ CliReap(t)
    \/ FinishForegroundTask(t)

Fairness ==
    /\ WF_vars(CollectCycle \/ CollectCycleFails)
    /\ WF_vars(MonitorTick)
    /\ \A t \in Task : WF_vars(DeadlinePasses(t)) /\ WF_vars(ZombieCollected(t))
    /\ \A t \in Foreground : WF_vars(CliProgress(t))

FairSpec == Spec /\ Fairness

-----------------------------------------------------------------------------
(* Invariants. *)

\* The four collections and the status field always tell the same story: no
\* task is in two collections or in the wrong one, whatever order completions,
\* observations, cancellations and launches arrive in.
QueueConsistent == Consistent(q)

\* The runner tracks exactly the running background tasks, and their processes
\* have not been reaped: no background process is left running without a
\* record that holds its GPUs, and no running background task is without one.
\* The monitor has nothing to say of them: a child of the daemon stays a zombie
\* until check_completed polls it, and its reservation has no deadline.
BackgroundProcessOwned ==
    /\ tracked = q.running \cap Background
    /\ \A t \in Background :
          /\ t \in tracked <=> child[t] \in {"alive", "zombie_zero", "zombie_nonzero"}
          /\ q.observed[t] = "none"
          /\ q.reason[t] \notin RuntimeReason

\* What the daemon believes of a foreground task agrees with its process, which
\* it does not see: the task counts as running only once its command line has
\* spawned the process and asked for the confirmation, and when the launch is
\* reported as failed no process is left that could still use the GPUs which
\* the report frees, whatever the cycle, the monitor and cancellations did
\* between the spawn and the answer.
ForegroundProcessKnown ==
    \A t \in Foreground :
        /\ t \in q.running =>
              /\ child[t] # "unborn"
              /\ cli[t] \notin {"off", "polling", "launching", "spawned"}
        /\ cli[t] = "launch_failed" \/ q.reason[t] = "launch_failed"
              => child[t] \in {"unborn", "reaped"}

-----------------------------------------------------------------------------
(* Action properties. *)

\* The end that is written down is the one that the task has had.  The exit code
\* of a background process is never lost to a race: a running task whose process
\* waits with its exit code ends with the outcome the code says, or is cancelled.
\* And a task is declared dead by disappearance only if its process is gone.
EndIsTrue ==
    [][\A t \in Task :
          /\ t \in Background \cap q.running /\ Zombie(t) /\ t \notin q.running'
                => q'.reason[t] \in {ExitOf(t), "cancelled"}
          /\ q.reason[t] # "pid_disappeared" /\ q'.reason[t] = "pid_disappeared"
                => child[t] = "reaped"]_vars

\* A task is forgotten only after a report has carried its end, unless more
\* ended tasks wait for a report than MaxTerminal allows.
NoSilentForgetting ==
    [][\A t \in Known(q) \ Known(q') :
          \/ t \in q.terminal /\ q.reported[t]
          \/ Cardinality(q'.terminal) = MaxTerminal]_vars

\* The daemon implements the abstract lifecycle.
life ==
    [t \in Task |->
        IF q.status[t] \in TerminalStatus /\ t \notin q.terminal
        THEN "forgotten" ELSE q.status[t]]

Lifecycle == INSTANCE TaskLifecycle
LifecycleSpec == Lifecycle!Spec

-----------------------------------------------------------------------------
(* Liveness, under Fairness. *)

\* A reservation for a foreground task does not outlive a command line that is
\* gone: it is confirmed, given up, or times out.
ForegroundReservationResolved ==
    \A t \in Foreground : t \in q.reserved ~> t \notin q.reserved

\* The end of a running task's process is noticed, whether or not the command
\* line lives to report it: of a background process the exit code is polled, of a
\* foreground process the absence is seen.
ExitIsNoticed ==
    \A t \in Task :
        t \in q.running /\ (child[t] = "reaped" \/ (t \in Background /\ Zombie(t)))
            ~> t \notin q.running

\* The end of a task reaches a report.
EndIsReported ==
    \A t \in Task : t \in q.terminal ~> (q.reported[t] \/ t \notin q.terminal)

\* From the process to the report: the end of a task becomes known.
EndBecomesKnown == ExitIsNoticed /\ EndIsReported

-----------------------------------------------------------------------------
(* What the repository says and the code does not do. *)

\* runtime_monitor.py:3-4 scans "reserved tasks for attach timeout": a task
\* that has been confirmed in time is not ended for it.
AttachTimeoutOnlyReserved ==
    [][\A t \in Task :
          q.reason[t] # "attach_timeout" /\ q'.reason[t] = "attach_timeout"
              => t \in q.reserved]_vars

\* The control flow of the agent's architecture leads from a reservation to
\* the launch: a background task does not stay reserved.
BackgroundReservationResolved ==
    \A t \in Background : t \in q.reserved ~> t \notin q.reserved

=============================================================================
