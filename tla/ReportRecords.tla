----------------------------- MODULE ReportRecords -----------------------------
(***************************************************************************)
(* What the reports of one node leave in the server's database besides the *)
(* task itself and the alerts (ingest/pipeline.ts): the scheduling history *)
(* of a task, the security events and the metric snapshots, written in     *)
(* this order by a handler that the server can die in; an operator decides *)
(* on the security events meanwhile.                                       *)
(*                                                                         *)
(* Two clocks count seconds: the server's paces the snapshots and cuts the *)
(* history that it shows, the agent's stamps the reports and evaluations   *)
(* and trims the history.  The agent's is Behind the server's; the time    *)
(* that a report takes is part of that.                                    *)
(***************************************************************************)
EXTENDS SecurityEvents, Snapshots, ScheduleHistory

CONSTANTS
    Behinds,      \* by how much the agent's clock may be behind the server's
    MaxTime,      \* bound on the server's clock
    MaxRestarts,  \* bound on the deaths of the server
    MaxRepeats    \* processes that a report lists for findings, at most

ASSUME ReportRecordsAssumption ==
    /\ Behinds \subseteq Int
    /\ MaxTime \in Nat /\ MaxRestarts \in Nat /\ MaxRepeats \in Nat

VARIABLES
    now,         \* the server's clock
    behind,      \* how far the agent's is behind it
    evaluated,   \* when the task was last evaluated (agent's clock), Never if not
    received,    \* that time in the last report that the server has taken, Never
                 \* if there was none or the server died while writing it
    restarts

recordsVars == <<events, snapshots, lastId, lastAt, schedule,
          now, behind, evaluated, received, restarts>>

agentTime == now - behind

RecordsInit ==
    /\ SecurityInit /\ SnapshotsInit /\ ScheduleInit
    /\ now = 0 /\ behind \in Behinds
    /\ evaluated = Never /\ received = Never
    /\ restarts = 0

Found == UNION {[1..n -> Finding] : n \in 0..MaxRepeats}

-----------------------------------------------------------------------------

Tick ==
    /\ now < MaxTime
    /\ now' = now + 1
    /\ UNCHANGED <<events, snapshots, lastId, lastAt, schedule, behind, evaluated, received,
                   restarts>>

\* The scheduler of the node evaluates the queued task.
Evaluate ==
    /\ evaluated # agentTime
    /\ evaluated' = agentTime
    /\ UNCHANGED <<events, snapshots, lastId, lastAt, schedule, now, behind, received,
                   restarts>>

\* Step 3: the task is in the report, with the evaluation if there was one.
WriteSchedule ==
    /\ schedule' = IF evaluated = Never THEN schedule
                   ELSE upsertTaskScheduleSnapshot(schedule, evaluated, agentTime)
    /\ received' = evaluated

\* The server dies in step 3, between the coarse row and the fine one.
WriteScheduleTorn ==
    /\ evaluated # Never
    /\ schedule' = upsertScheduleSnapshot(schedule, "archive", evaluated)
    /\ received' = Never

\* Step 5.
WriteEvents(found) == events' = processSecurityCheck(events, found)

\* processReport, to its end.
ProcessReport(found) ==
    /\ WriteSchedule
    /\ WriteEvents(found)
    /\ WriteSnapshots(agentTime, now)
    /\ UNCHANGED <<now, behind, evaluated, restarts>>

\* What the memory holds after a restart: the tables stay, the paces are gone.
ForgetPaces == lastAt' = [tier \in Tier |-> Never]

Restart ==
    /\ restarts < MaxRestarts
    /\ restarts' = restarts + 1
    /\ ForgetPaces
    /\ UNCHANGED <<events, snapshots, lastId, schedule, now, behind, evaluated, received>>

\* The server dies while it writes the history, between two findings (then found
\* are those before its death), or between saving a recent snapshot and trimming.
DieInReport(found) ==
    /\ restarts < MaxRestarts
    /\ restarts' = restarts + 1
    /\ \/ WriteScheduleTorn /\ found = <<>> /\ UNCHANGED <<events, snapshots, lastId>>
       \/ WriteSchedule /\ WriteEvents(found) /\ UNCHANGED <<snapshots, lastId>>
       \/ WriteSchedule /\ WriteEvents(found) /\ WriteSnapshotTorn(agentTime, now)
    /\ ForgetPaces
    /\ UNCHANGED <<now, behind, evaluated>>

Decide ==
    /\ \E i \in DOMAIN events : MarkSafe(i) \/ Unresolve(i)
    /\ UNCHANGED <<snapshots, lastId, lastAt, schedule, now, behind, evaluated, received,
                   restarts>>

RecordsNext ==
    \/ Tick
    \/ Evaluate
    \/ \E found \in Found : ProcessReport(found) \/ DieInReport(found)
    \/ Restart
    \/ Decide

RecordsSpec == RecordsInit /\ [][RecordsNext]_recordsVars

-----------------------------------------------------------------------------
(* Properties. *)

\* Trimming: a death of the server leaves at most one recent snapshot too many; an
\* archived snapshot is never lost; and a recent one goes only while one that is as
\* new stays, so that getLatestSnapshot does not go back in time.
TrimmingIsRight ==
    /\ Cardinality(Rows(snapshots', "recent")) <= KeepCount + restarts'
    /\ Rows(snapshots, "archive") \subseteq Rows(snapshots', "archive")
    /\ \A row \in Rows(snapshots, "recent") :
          \E later \in Rows(snapshots', "recent") : later.timestamp >= row.timestamp

\* At the cutoff the reader goes from the fine rows to the coarse ones without a
\* gap: the latest evaluation that the server has been told is always shown, as long
\* as the agent's clock is not ahead of the server's.
LatestEvaluationIsShown ==
    received # Never => \E row \in getTaskScheduleHistory(now) : row.source = received

\* What is trimmed is not missed: the fine rows stay as many as are wanted, but for
\* those of deaths, no coarse row goes, and the latest evaluation is shown.
RetentionIsRight == [][TrimmingIsRight /\ LatestEvaluationIsShown']_recordsVars

=============================================================================
