----------------------------- MODULE GpuAdmission -----------------------------
(***************************************************************************)
(* GPU admission on the node: the snapshot that the collection cycle takes *)
(* of the task queue without the daemon lock (collector/snapshot.py), the  *)
(* ledgers and the greedy batch of the scheduler (queue/scheduler.py) over *)
(* the history window (queue/history.py), and the reclaim of memory that   *)
(* an exclusive task turns out not to need (daemon/service.py).            *)
(*                                                                         *)
(* A task's life is the one TaskLifecycle promises, with every end in one  *)
(* phase; AgentDaemon is the detailed model of how it ends.  Memory is in  *)
(* MB; ledgers are kept in hundredths of a MB, so that the factors 0.98    *)
(* and 1.05 stay whole numbers.                                            *)
(***************************************************************************)
EXTENDS Integers, FiniteSets, FiniteSetsExt, SequencesExt

CONSTANTS
    Task,         \* tasks, numbered in the order of their submission
    Foreground,   \* those that wait for a confirmation of their command line
    MayFail,      \* background tasks whose launch may raise
    Exclusive,    \* tasks with vram_mode = exclusive_auto
    Need,         \* requested_vram_mb of a shared task, per GPU
    Count,        \* require_gpu_count
    Priority,     \* priorities, smaller runs first
    Gpu,          \* indices of the node's GPUs
    Total,        \* memory of a GPU
    Noisy,        \* GPUs that processes outside PMEOW may use
    Foreign,      \* memory such processes may be seen to use, with 0
    Usage,        \* memory an exclusive task may be seen to use, with 0
    MaxSamples    \* bound on the samples of the history window

ASSUME GpuAdmissionAssumption ==
    /\ Task \subseteq Nat /\ Gpu \subseteq Nat /\ Priority \subseteq Nat
    /\ IsFiniteSet(Task) /\ IsFiniteSet(Gpu) /\ Priority # {}
    /\ Foreground \subseteq Task /\ Exclusive \subseteq Task
    /\ MayFail \subseteq Task \ Foreground
    /\ Need \in [Task -> Nat] /\ Count \in [Task -> Nat]
    /\ \A t \in Exclusive : Need[t] = 0
    /\ Total \in [Gpu -> Nat \ {0}] /\ Noisy \subseteq Gpu
    /\ Foreign \subseteq Nat /\ 0 \in Foreign
    /\ Usage \subseteq Nat /\ 0 \in Usage
    /\ MaxSamples \in Nat \ {0}

VARIABLES
    life,       \* "new", "queued", "reserved", "running" or "ended"
    prio,       \* TaskRecord.priority
    assigned,   \* TaskRecord.assigned_gpus
    peak,       \* auto_peak_vram_by_gpu_mb, 0 where there is no entry
    reclaimed,  \* auto_reclaimed_vram_by_gpu_mb, 0 where the value is None
    done,       \* tasks with auto_reclaim_done
    phase,      \* how far the cycle's thread is with its snapshot
    view,       \* the tasks the snapshot lists
    samples     \* GpuHistoryTracker._samples: of each GPU whether tasks were on it, and the
                \* memory of the processes that are not PMEOW's

gpuVars == <<life, prio, assigned, peak, reclaimed, done, phase, view, samples>>
taskVars == <<life, prio, assigned, peak, reclaimed, done>>

Active(t) == life[t] \in {"reserved", "running"}

-----------------------------------------------------------------------------
(* Ledgers.  They are built from the tasks of the view, what the snapshot    *)
(* saw of other processes, and what the batch has given away so far.         *)

ExclusiveActive(t, g) == t \in Exclusive /\ reclaimed[t][g] = 0
Declared(t, g) == IF t \in Exclusive THEN reclaimed[t][g] ELSE Need[t]

Viewed(g) == {t \in view : g \in assigned[t]}
Memory(g) == [t \in Task |-> Declared(t, g)]
Managed(g) == SumFunctionOnSet(Memory(g), Viewed(g))

\* The batch so far: the tasks decided, in order, with their GPUs, and the
\* memory and GPUs it has promised.
EmptyBatch ==
    [decided |-> <<>>,
     gpus    |-> [t \in Task |-> {}],
     pending |-> [g \in Gpu |-> 0],
     owned   |-> {}]

Reserved(b, g) == Managed(g) + b.pending[g]

Owned(b, g) == g \in b.owned \/ \E t \in Viewed(g) : ExclusiveActive(t, g)

\* history holds the samples of the window, the present one included.
ForeignPeak(history, g) == Max({0} \cup {history[i][g].foreign : i \in DOMAIN history})

Free(b, history, g) ==
    Max({0, 98 * Total[g] - 100 * Reserved(b, g) - 105 * ForeignPeak(history, g)})

\* Mutant: a GPU must have more than what is asked for.
EligibleSharedStrict(b, history, g, need) ==
    ~Owned(b, g) /\ Free(b, history, g) > 100 * need

EligibleShared(b, history, g, need) ==
    ~Owned(b, g) /\ Free(b, history, g) >= 100 * need

IdleInSample(s, g) == ~s[g].tasks /\ 100 * s[g].foreign < 3 * Total[g]

\* busy: the GPUs whose utilisation or memory use is 3 percent or more now.
EligibleExclusive(b, history, busy, g) ==
    /\ ~Owned(b, g)
    /\ Reserved(b, g) = 0
    /\ g \notin busy
    /\ \A i \in DOMAIN history : IdleInSample(history[i], g)

Eligible(b, history, busy, t) ==
    {g \in Gpu : IF t \in Exclusive THEN EligibleExclusive(b, history, busy, g)
                                    ELSE EligibleShared(b, history, g, Need[t])}

\* By free memory, ties in the order of the indices.
Better(b, history, g, h) ==
    \/ Free(b, history, g) > Free(b, history, h)
    \/ Free(b, history, g) = Free(b, history, h) /\ g < h

\* The first n of S.
Best(b, history, S, n) ==
    CHOOSE B \in SUBSET S :
        /\ Cardinality(B) = n
        /\ \A g \in B, h \in S \ B : Better(b, history, g, h)

\* Mutant: the batch forgets the memory it has promised.
ConsiderWithoutPending(b, history, busy, t) ==
    LET eligible == Eligible(b, history, busy, t)
        chosen == Best(b, history, eligible, Count[t])
    IN  IF Cardinality(eligible) < Count[t] THEN b
        ELSE [b EXCEPT !.decided = Append(b.decided, t),
                       !.gpus[t] = chosen,
                       !.owned = IF t \in Exclusive THEN b.owned \cup chosen ELSE b.owned]

\* One task of the queue: it takes its GPUs if enough are eligible.
Consider(b, history, busy, t) ==
    LET eligible == Eligible(b, history, busy, t)
        chosen == Best(b, history, eligible, Count[t])
    IN  IF Cardinality(eligible) < Count[t] THEN b
        ELSE [decided |-> Append(b.decided, t),
              gpus    |-> [b.gpus EXCEPT ![t] = chosen],
              pending |-> [g \in Gpu |-> b.pending[g] + IF g \in chosen THEN Need[t] ELSE 0],
              owned   |-> IF t \in Exclusive THEN b.owned \cup chosen ELSE b.owned]

\* The order of the queue.
Before(t, u) ==
    \/ prio[t] < prio[u]
    \/ prio[t] = prio[u] /\ t < u

Queued == {t \in Task : life[t] = "queued"}
Hindmost(S) == CHOOSE t \in S : \A u \in S \ {t} : Before(u, t)

\* Mutant: the queue is served in the order of submission.
TryScheduleInOrder(history, busy) ==
    MapThenFoldSet(LAMBDA t, b : Consider(b, history, busy, t), EmptyBatch,
                   LAMBDA t : t, LAMBDA S : Max(S), Queued)

\* The task that is considered last is the one considered after all the others.
TrySchedule(history, busy) ==
    MapThenFoldSet(LAMBDA t, b : Consider(b, history, busy, t), EmptyBatch,
                   LAMBDA t : t, Hindmost, Queued)

-----------------------------------------------------------------------------
(* Reclaim of the memory of running exclusive tasks.                         *)

\* What is reserved for a task that was seen to use at most p on a GPU: 0 keeps
\* the GPU exclusive.
ReclaimTo(p, total) ==
    IF p = 0 \/ 10 * p >= 7 * total THEN 0
    ELSE Max({(11 * p + 9) \div 10, p + 512})

\* The undecided running exclusive tasks note the use the snapshot has seen of
\* them; those of T, whose observation window has passed, are decided.
UpdateAutoReclaim(T, seen) ==
    LET watched == {t \in Exclusive \ done : life[t] = "running"}
        newPeak == [t \in Exclusive |-> [g \in Gpu |->
                       IF t \in watched \cap view /\ g \in assigned[t]
                       THEN Max({peak[t][g], seen[t]}) ELSE peak[t][g]]]
    IN  /\ T \subseteq watched
        /\ peak' = newPeak
        /\ done' = done \cup T
        /\ reclaimed' = [t \in Exclusive |-> [g \in Gpu |->
               IF t \in T /\ g \in assigned[t]
               THEN ReclaimTo(newPeak[t][g], Total[g]) ELSE reclaimed[t][g]]]

-----------------------------------------------------------------------------
(* Actions. *)

GpuInit ==
    /\ life = [t \in Task |-> "new"]
    /\ prio = [t \in Task |-> CHOOSE p \in Priority : TRUE]
    /\ assigned = [t \in Task |-> {}]
    /\ peak = [t \in Exclusive |-> [g \in Gpu |-> 0]]
    /\ reclaimed = [t \in Exclusive |-> [g \in Gpu |-> 0]]
    /\ done = {}
    /\ phase = "idle"
    /\ view = {}
    /\ samples = <<>>

\* validate_request_possible.
Possible(t) ==
    /\ Count[t] <= Cardinality(Gpu)
    /\ t \notin Exclusive /\ Need[t] > 0 =>
          Count[t] <= Cardinality({g \in Gpu : 98 * Total[g] >= 100 * Need[t]})

\* The daemon refuses requests that can never fit once it has seen the GPUs.
\* Tasks are numbered as they come.
Submit(t) ==
    /\ life[t] = "new"
    /\ \A u \in Task : u < t => life[u] # "new"
    /\ samples # <<>> => Possible(t)
    /\ life' = [life EXCEPT ![t] = "queued"]
    /\ \E p \in Priority : prio' = [prio EXCEPT ![t] = p]
    /\ UNCHANGED <<assigned, peak, reclaimed, done, phase, view, samples>>

SetTaskPriority(t, p) ==
    /\ life[t] = "queued"
    /\ prio' = [prio EXCEPT ![t] = p]
    /\ UNCHANGED <<life, assigned, peak, reclaimed, done, phase, view, samples>>

\* The command line of a foreground task confirms the launch.
Confirm(t) ==
    /\ t \in Foreground /\ life[t] = "reserved"
    /\ life' = [life EXCEPT ![t] = "running"]
    /\ UNCHANGED <<prio, assigned, peak, reclaimed, done, phase, view, samples>>

\* A task ends: exit, timeout, failed launch or cancellation.
End(t) ==
    /\ life[t] \in {"queued", "reserved", "running"}
    /\ life' = [life EXCEPT ![t] = "ended"]
    /\ UNCHANGED <<prio, assigned, peak, reclaimed, done, phase, view, samples>>

\* collect_snapshot lists the running tasks, then the reserved ones, and does
\* not hold the lock.
ReadRunning ==
    /\ phase = "idle"
    /\ phase' = "half"
    /\ view' = {t \in Task : life[t] = "running"}
    /\ UNCHANGED <<taskVars, samples>>

ReadReserved ==
    /\ phase = "half"
    /\ phase' = "read"
    /\ view' = view \cup {t \in Task : life[t] = "reserved"}
    /\ UNCHANGED <<taskVars, samples>>

\* The sample that the present snapshot adds to the history.
Present(foreign) == [g \in Gpu |-> [tasks |-> Viewed(g) # {}, foreign |-> foreign[g]]]

\* The first n decisions are carried out.
Carry(b, n) ==
    LET L == {b.decided[i] : i \in 1..n}
    IN  /\ life' = [t \in Task |-> IF t \notin L THEN life[t]
                                   ELSE IF t \in Foreground THEN "reserved" ELSE "running"]
        /\ assigned' = [t \in Task |-> IF t \in L THEN b.gpus[t] ELSE assigned[t]]

\* The launch of decision n + 1 raises, and the rest of the batch is dropped.
CarryUntilFailure(b, n) ==
    LET f == b.decided[n + 1]
        L == {b.decided[i] : i \in 1..n}
    IN  /\ f \in MayFail
        /\ life' = [t \in Task |-> IF t = f THEN "reserved"
                                   ELSE IF t \notin L THEN life[t]
                                   ELSE IF t \in Foreground THEN "reserved" ELSE "running"]
        /\ assigned' = [t \in Task |-> IF t \in L \cup {f} THEN b.gpus[t] ELSE assigned[t]]

\* The locked part of collect_cycle: history, reclaim, schedule, launch.  Of the
\* old samples only those within the window are left.
CollectCycle ==
    /\ phase = "read"
    /\ phase' = "idle"
    /\ view' = {}
    /\ \E foreign \in {f \in [Gpu -> Foreign] : \A g \in Gpu \ Noisy : f[g] = 0},
          busy \in SUBSET Noisy,
          kept \in {SubSeq(samples, k + 1, Len(samples)) : k \in 0..Len(samples)} :
        /\ Len(kept) < MaxSamples
        /\ samples' = Append(kept, Present(foreign))
        /\ \E b \in {TrySchedule(Append(kept, Present(foreign)), busy)} :
               \/ Carry(b, Len(b.decided))
               \/ \E n \in 0..Len(b.decided) - 1 : CarryUntilFailure(b, n)
    /\ \E seen \in [Exclusive -> Usage], T \in SUBSET Exclusive : UpdateAutoReclaim(T, seen)
    /\ UNCHANGED prio

GpuNext ==
    \/ \E t \in Task :
        \/ Submit(t)
        \/ \E p \in Priority : SetTaskPriority(t, p)
        \/ Confirm(t)
        \/ End(t)
    \/ ReadRunning
    \/ ReadReserved
    \/ CollectCycle

GpuSpec == GpuInit /\ [][GpuNext]_gpuVars

\* The cycle's thread runs for ever, tasks end, and a reservation for a command
\* line is confirmed or released (AgentDaemon: ForegroundReservationResolved).
GpuFairness ==
    /\ WF_gpuVars(ReadRunning) /\ WF_gpuVars(ReadReserved) /\ WF_gpuVars(CollectCycle)
    /\ \A t \in Task :
          /\ WF_gpuVars(life[t] = "running" /\ End(t))
          /\ WF_gpuVars(t \in Foreground /\ life[t] = "reserved" /\ End(t))

GpuFairSpec == GpuSpec /\ GpuFairness

-----------------------------------------------------------------------------
(* Properties. *)

On(g) == {t \in Task : Active(t) /\ g \in assigned[t]}

\* The memory promised to the reserved and running tasks of a GPU never exceeds
\* what the scheduler may give away, whatever order tasks are submitted, ended
\* and reclaimed in: two decisions of a batch, or a decision and a task that
\* has not allocated anything yet, are never promised the same memory.
CapacityRespected ==
    \A g \in Gpu : 100 * SumFunctionOnSet(Memory(g), On(g)) <= 98 * Total[g]

\* As long as a task owns a GPU exclusively no other task has been given it.
ExclusiveAlone ==
    \A g \in Gpu : \A t \in On(g) : ExclusiveActive(t, g) => On(g) = {t}

\* What the scheduler promises of a GPU can be kept.
PromisesCanBeKept == CapacityRespected /\ ExclusiveAlone

\* Could task t still be put on GPU g next to what the snapshot has seen and
\* the tasks of V that the batch has launched?
Room(t, g, V) ==
    LET there == Viewed(g) \cup {v \in V : g \in assigned'[v]}
    IN  IF t \in Exclusive
        THEN /\ there = {} /\ g \notin Noisy
             /\ \A i \in DOMAIN samples' : ~samples'[i][g].tasks
        ELSE /\ \A v \in there : ~ExclusiveActive(v, g)
             /\ 98 * Total[g] >= 100 * (Need[t] + SumFunctionOnSet(Memory(g), there))
                                  + 105 * ForeignPeak(samples', g)

\* A task is overtaken in the queue only by tasks that could not help it by
\* waiting: without the later ones it still would not fit.
NoOvertaking ==
    [][LET launched == {t \in Queued : life'[t] \in {"reserved", "running"}}
       IN  \A t \in Queued \ launched : \A u \in launched :
               life'[t] = "queued" /\ Before(t, u)
                   => Cardinality({g \in Gpu : Room(t, g, {v \in launched : Before(v, t)})})
                          < Count[t]]_gpuVars

\* A request that the daemon accepts as possible is launched or cancelled in
\* the end, provided the tasks before it end and nobody else uses the GPUs.
AcceptedEventuallyRuns ==
    \A t \in Task : life[t] = "queued" /\ Possible(t) ~> life[t] # "queued"

=============================================================================
