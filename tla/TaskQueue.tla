------------------------------ MODULE TaskQueue ------------------------------
(***************************************************************************)
(* The agent's in-memory task container (pmeow/state/task_queue.py).       *)
(*                                                                         *)
(* A queue is a record and every operation of the class is an operator     *)
(* from a queue to the queue after the call, so that a handler that makes  *)
(* several calls while it holds the daemon lock is the composition of      *)
(* their operators.  A task is its identifier; identifiers are handed out  *)
(* in submission order and stand for created_at as well.                   *)
(*                                                                         *)
(* The two observation buffers are kept as the first pending observation   *)
(* of each task: tick() acts on the first one it finds for a task and      *)
(* skips the later ones, because the task is no longer active by then.     *)
(***************************************************************************)
EXTENDS Naturals, FiniteSets

CONSTANTS
    Task,          \* the tasks that may ever be submitted
    Priority,      \* the priorities a task may have, smaller runs first
    MaxTerminal    \* _MAX_TERMINAL, the cap on remembered terminal tasks

ASSUME TaskQueueAssumption ==
    /\ Task \subseteq Nat
    /\ Priority \subseteq Nat
    /\ Priority # {}
    /\ MaxTerminal \in Nat

-----------------------------------------------------------------------------

ActiveStatus   == {"queued", "reserved", "running"}
TerminalStatus == {"succeeded", "failed", "cancelled", "abnormal"}
Status         == {"new"} \cup ActiveStatus \cup TerminalStatus

\* What the executor and the runtime monitor may report of a task.
ExitReason    == {"exit_zero", "exit_nonzero"}
RuntimeReason == {"pid_disappeared", "attach_timeout", "launch_failed"}
EndReason     == ExitReason \cup RuntimeReason \cup {"cancelled"}

Queue ==
    [queued    : SUBSET Task,
     reserved  : SUBSET Task,
     running   : SUBSET Task,
     terminal  : SUBSET Task,
     status    : [Task -> Status],
     reason    : [Task -> {"none"} \cup EndReason],
     reported  : [Task -> BOOLEAN],
     priority  : [Task -> Priority],
     completed : [Task -> {"none"} \cup ExitReason],
     observed  : [Task -> {"none"} \cup RuntimeReason]]

EmptyQueue ==
    [queued    |-> {},
     reserved  |-> {},
     running   |-> {},
     terminal  |-> {},
     status    |-> [t \in Task |-> "new"],
     reason    |-> [t \in Task |-> "none"],
     reported  |-> [t \in Task |-> FALSE],
     priority  |-> [t \in Task |-> CHOOSE p \in Priority : TRUE],
     completed |-> [t \in Task |-> "none"],
     observed  |-> [t \in Task |-> "none"]]

\* The tasks get() finds.
Known(q) == q.queued \cup q.reserved \cup q.running \cup q.terminal

\* list_queued() yields the queued tasks in this order: _reorder_queued sorts
\* them by priority, then creation time, after every submission and change.
Before(q, t, u) ==
    \/ q.priority[t] < q.priority[u]
    \/ q.priority[t] = q.priority[u] /\ t < u

-----------------------------------------------------------------------------

Submit(q, t, p) ==
    [q EXCEPT !.queued   = @ \cup {t},
              !.status   = [@ EXCEPT ![t] = "queued"],
              !.priority = [@ EXCEPT ![t] = p]]

SetPriority(q, t, p) ==
    IF t \in q.queued THEN [q EXCEPT !.priority[t] = p] ELSE q

\* reserve() for each task of T.
Reserve(q, T) ==
    [q EXCEPT !.queued   = @ \ T,
              !.reserved = @ \cup T,
              !.status   = [t \in Task |-> IF t \in T THEN "reserved" ELSE @[t]]]

\* start() for each task of T.
Start(q, T) ==
    [q EXCEPT !.reserved = @ \ T,
              !.running  = @ \cup T,
              !.status   = [t \in Task |-> IF t \in T THEN "running" ELSE @[t]]]

\* The status a task ends with is fixed by the reason it ends for.
StatusOf(reason) ==
    CASE reason = "exit_zero"    -> "succeeded"
      [] reason = "exit_nonzero" -> "failed"
      [] reason = "cancelled"    -> "cancelled"
      [] OTHER                   -> "abnormal"

\* Mutant: the reserved index is not popped.
TransitionKeepsReserved(q, T, why) ==
    [q EXCEPT
       !.queued   = @ \ T,
       !.running  = @ \ T,
       !.terminal = @ \cup T,
       !.status   = [t \in Task |-> IF t \in T THEN StatusOf(why[t]) ELSE @[t]],
       !.reason   = [t \in Task |-> IF t \in T THEN why[t] ELSE @[t]],
       !.reported = [t \in Task |-> IF t \in T THEN FALSE ELSE @[t]]]

\* Each task of T leaves the active collections for the reason why[t].
TransitionToTerminal(q, T, why) ==
    [q EXCEPT
       !.queued   = @ \ T,
       !.reserved = @ \ T,
       !.running  = @ \ T,
       !.terminal = @ \cup T,
       !.status   = [t \in Task |-> IF t \in T THEN StatusOf(why[t]) ELSE @[t]],
       !.reason   = [t \in Task |-> IF t \in T THEN why[t] ELSE @[t]],
       !.reported = [t \in Task |-> IF t \in T THEN FALSE ELSE @[t]]]

\* cancel() takes any task get() finds, the terminal ones included.
Cancel(q, t) ==
    IF t \in Known(q)
    THEN TransitionToTerminal(q, {t}, [u \in Task |-> "cancelled"])
    ELSE q

-----------------------------------------------------------------------------

\* push_completion() for each task of T.
PushCompletion(q, T, exit) ==
    [q EXCEPT !.completed =
        [t \in Task |-> IF t \in T /\ @[t] = "none" THEN exit[t] ELSE @[t]]]

\* push_runtime() for each task of T.
PushRuntime(q, T, why) ==
    [q EXCEPT !.observed =
        [t \in Task |-> IF t \in T /\ @[t] = "none" THEN why[t] ELSE @[t]]]

\* Mutant: the reclaim test is negated.
AdvanceReclaimsUnreported(q) ==
    LET finished == {t \in q.running : q.completed[t] # "none"}
        anomalous == {t \in (q.running \cup q.reserved) \ finished : q.observed[t] # "none"}
        why == [t \in Task |-> IF t \in finished THEN q.completed[t] ELSE q.observed[t]]
        ended == TransitionToTerminal(q, finished \cup anomalous, why)
    IN  [ended EXCEPT
           !.completed = [t \in Task |-> "none"],
           !.observed  = [t \in Task |-> "none"],
           !.terminal  = {t \in @ : ended.reported[t]}]

\* Steps 1 to 3 of tick().  A completion counts for a running task only, a
\* runtime observation for a running or reserved one that no completion has
\* ended; then the terminal tasks that a report has carried are forgotten.
Advance(q) ==
    LET finished == {t \in q.running : q.completed[t] # "none"}
        anomalous == {t \in (q.running \cup q.reserved) \ finished : q.observed[t] # "none"}
        why == [t \in Task |-> IF t \in finished THEN q.completed[t] ELSE q.observed[t]]
        ended == TransitionToTerminal(q, finished \cup anomalous, why)
    IN  [ended EXCEPT
           !.completed = [t \in Task |-> "none"],
           !.observed  = [t \in Task |-> "none"],
           !.terminal  = {t \in @ : ~ended.reported[t]}]

\* Step 4 forgets the oldest terminal tasks beyond MaxTerminal.  Their age is
\* not modelled: any set of the right size may be the oldest.
Excess(q) ==
    {D \in SUBSET q.terminal :
        \/ D = {} /\ Cardinality(q.terminal) <= MaxTerminal
        \/ /\ Cardinality(q.terminal) > MaxTerminal
           /\ Cardinality(q.terminal \ D) = MaxTerminal}

Drop(q, D) == [q EXCEPT !.terminal = @ \ D]

\* tick() yields one of these queues.
Tick(q) == UNION {{Drop(a, D) : D \in Excess(a)} : a \in {Advance(q)}}

\* to_snapshot() marks every terminal task as reported.
ToSnapshot(q) ==
    [q EXCEPT !.reported = [t \in Task |-> @[t] \/ t \in q.terminal]]

\* The status the snapshot shows: a reserved task is shown as queued, a task
\* that is in no collection is not shown.
PublicStatus(q, t) ==
    CASE t \in q.queued \cup q.reserved -> "queued"
      [] t \in q.running                -> "running"
      [] t \in q.terminal               -> q.status[t]
      [] OTHER                          -> "absent"

-----------------------------------------------------------------------------

\* Every known task is in exactly one collection, the one its status names, and
\* has ended exactly if it has a reason.
Placed(q) ==
    /\ \A t \in Task : t \in q.queued <=> q.status[t] = "queued"
    /\ \A t \in Task : t \in q.reserved <=> q.status[t] = "reserved"
    /\ \A t \in Task : t \in q.running <=> q.status[t] = "running"
    /\ \A t \in q.terminal : q.status[t] \in TerminalStatus
    /\ \A t \in Task : q.status[t] \in TerminalStatus <=> q.reason[t] # "none"

\* The executor's completions are consumed by the tick() that follows them
\* under the same lock: between operations their buffer is empty.
Consistent(q) == Placed(q) /\ \A t \in Task : q.completed[t] = "none"

=============================================================================
