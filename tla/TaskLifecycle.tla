---------------------------- MODULE TaskLifecycle ----------------------------
(***************************************************************************)
(* What the agent promises of a task, whatever its threads and the command *)
(* lines do: the phases it goes through and the moves between them.  The   *)
(* statuses are those of TaskStatus (pmeow/models.py); "forgotten" is a    *)
(* task that tick() has reclaimed.                                         *)
(***************************************************************************)
CONSTANT Task

VARIABLE life

Ended == {"succeeded", "failed", "cancelled", "abnormal"}
Phase == {"new", "queued", "reserved", "running", "forgotten"} \cup Ended

\* A task is launched through a reservation, runs before it can succeed or
\* fail, ends once, and is forgotten for good.  Cancellation takes a task from
\* any phase, the ended ones included.
Edge ==
    {<<"new", "queued">>, <<"queued", "reserved">>, <<"reserved", "running">>,
     <<"running", "succeeded">>, <<"running", "failed">>,
     <<"running", "abnormal">>, <<"reserved", "abnormal">>}
    \cup {<<p, "cancelled">> : p \in {"queued", "reserved", "running"} \cup Ended}
    \cup {<<p, "forgotten">> : p \in Ended}

\* Moves that one critical section of the daemon makes in one step: it reserves
\* and starts a background task, and it may end a task and forget it at once
\* when too many ended tasks are remembered.
Shortcut ==
    {<<"queued", "running">>, <<"running", "forgotten">>, <<"reserved", "forgotten">>}

TypeInvariant == life \in [Task -> Phase]

Init == life = [t \in Task |-> "new"]

Next ==
    /\ life' \in [Task -> Phase]
    /\ \A t \in Task :
          life'[t] = life[t] \/ <<life[t], life'[t]>> \in Edge \cup Shortcut

Spec == Init /\ [][Next]_life

=============================================================================
