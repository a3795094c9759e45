------------------------- MODULE AgentDaemonProofs -------------------------
(***************************************************************************)
(* Proofs about the agent: its daemon, for every set of tasks, every set   *)
(* of foreground tasks and priorities and every MaxTerminal, and the       *)
(* commands that start, stop and restart it, for every finite set of       *)
(* process identifiers and any number of command lines.                    *)
(***************************************************************************)
EXTENDS AgentDaemon, Supervisor, FiniteSetTheorems, TLAPS

-----------------------------------------------------------------------------
(***************************************************************************)
(* The task container: every operation keeps it well-typed and consistent. *)
(* The lemmas are stated per operator, in the form the proofs about the    *)
(* handlers cite them.                                                     *)
(***************************************************************************)

USE DEF Queue, Placed, Consistent, Status, ActiveStatus, TerminalStatus,
        EndReason, ExitReason, RuntimeReason

WellFormed(c) == c \in Queue /\ Consistent(c)

\* A status determined by an end reason is terminal.
LEMMA StatusOfType ==
    ASSUME NEW r \in EndReason
    PROVE  StatusOf(r) \in TerminalStatus
BY DEF StatusOf

\* The empty queue is well-formed.
LEMMA EmptyQueueWellFormed == WellFormed(EmptyQueue)
<1>1. (CHOOSE p \in Priority : TRUE) \in Priority
  BY TaskQueueAssumption
<1>2. QED
  BY <1>1 DEF EmptyQueue, WellFormed

\* submit() of a task that was never submitted.
LEMMA SubmitWellFormed ==
    ASSUME NEW c, WellFormed(c), NEW t \in Task, NEW p \in Priority,
           c.status[t] = "new"
    PROVE  WellFormed(Submit(c, t, p))
<1> DEFINE d == Submit(c, t, p)
<1>a. /\ c \in Queue
      /\ [c.status EXCEPT ![t] = "queued"] \in [Task -> Status]
      /\ [c.priority EXCEPT ![t] = p] \in [Task -> Priority]
      /\ c.queued \cup {t} \in SUBSET Task
  BY DEF WellFormed
<1>1. d \in Queue
  BY <1>a DEF Submit
<1>2. /\ d.queued = c.queued \cup {t}
      /\ d.reserved = c.reserved /\ d.running = c.running
      /\ d.terminal = c.terminal /\ d.reason = c.reason
      /\ d.completed = c.completed
      /\ d.status = [c.status EXCEPT ![t] = "queued"]
  BY DEF Submit, WellFormed
<1>3. c.status \in [Task -> Status]
  BY DEF WellFormed
<1> HIDE DEF d
<1>4. Consistent(d)
  BY <1>2, <1>3 DEF WellFormed
<1>5. QED
  BY <1>1, <1>4 DEF WellFormed, d

\* set_priority(), also of a task that is not queued.
LEMMA SetPriorityWellFormed ==
    ASSUME NEW c, WellFormed(c), NEW t \in Task, NEW p \in Priority
    PROVE  WellFormed(SetPriority(c, t, p))
BY DEF SetPriority, WellFormed

\* reserve() of queued tasks.
LEMMA ReserveWellFormed ==
    ASSUME NEW c, WellFormed(c), NEW T, T \subseteq c.queued
    PROVE  WellFormed(Reserve(c, T))
<1> DEFINE d == Reserve(c, T)
<1>1. d \in Queue
  BY DEF Reserve, WellFormed
<1>2. /\ d.queued = c.queued \ T
      /\ d.reserved = c.reserved \cup T /\ d.running = c.running
      /\ d.terminal = c.terminal /\ d.reason = c.reason
      /\ d.completed = c.completed
      /\ d.status = [t \in Task |-> IF t \in T THEN "reserved" ELSE c.status[t]]
  BY DEF Reserve, WellFormed
<1> HIDE DEF d
<1>4. Consistent(d)
  BY <1>2 DEF WellFormed
<1>5. QED
  BY <1>1, <1>4 DEF WellFormed, d

\* start() of reserved tasks.
LEMMA StartWellFormed ==
    ASSUME NEW c, WellFormed(c), NEW T, T \subseteq c.reserved
    PROVE  WellFormed(Start(c, T))
<1> DEFINE d == Start(c, T)
<1>1. d \in Queue
  BY DEF Start, WellFormed
<1>2. /\ d.queued = c.queued
      /\ d.reserved = c.reserved \ T /\ d.running = c.running \cup T
      /\ d.terminal = c.terminal /\ d.reason = c.reason
      /\ d.completed = c.completed
      /\ d.status = [t \in Task |-> IF t \in T THEN "running" ELSE c.status[t]]
  BY DEF Start, WellFormed
<1> HIDE DEF d
<1>4. Consistent(d)
  BY <1>2 DEF WellFormed
<1>5. QED
  BY <1>1, <1>4 DEF WellFormed, d

\* Pushing an observation changes a buffer and nothing else.
LEMMA PushCompletionType ==
    ASSUME NEW c \in Queue, NEW T, NEW exit \in [Task -> ExitReason]
    PROVE  PushCompletion(c, T, exit) \in Queue
BY DEF PushCompletion

\* push_runtime() fills a buffer and leaves the collections alone.
LEMMA PushRuntimeWellFormed ==
    ASSUME NEW c, WellFormed(c), NEW T, NEW why \in [Task -> RuntimeReason]
    PROVE  WellFormed(PushRuntime(c, T, why))
<1> DEFINE d == PushRuntime(c, T, why)
<1>1. d \in Queue
  BY DEF PushRuntime, WellFormed
<1>2. /\ d.queued = c.queued /\ d.reserved = c.reserved /\ d.running = c.running
      /\ d.terminal = c.terminal /\ d.reason = c.reason
      /\ d.completed = c.completed /\ d.status = c.status
  BY DEF PushRuntime, WellFormed
<1> HIDE DEF d
<1>3. Consistent(d)
  BY <1>2 DEF WellFormed
<1>4. QED
  BY <1>1, <1>3 DEF WellFormed, d

-----------------------------------------------------------------------------
(* Transitions to terminal states. *)

\* Queue d is queue c after the tasks of T have ended for the reasons why.
Transitioned(c, d, T, why) ==
    /\ d \in Queue
    /\ d.queued = c.queued \ T
    /\ d.reserved = c.reserved \ T
    /\ d.running = c.running \ T
    /\ d.terminal = c.terminal \cup T
    /\ d.completed = c.completed
    /\ d.observed = c.observed
    /\ \A t \in T : /\ d.status[t] = StatusOf(why[t])
                    /\ d.reason[t] = why[t]
                    /\ d.reported[t] = FALSE
    /\ \A t \in Task \ T : /\ d.status[t] = c.status[t]
                           /\ d.reason[t] = c.reason[t]
                           /\ d.reported[t] = c.reported[t]

\* TransitionToTerminal is such a transition.
LEMMA TransitionFacts ==
    ASSUME NEW c \in Queue, NEW T \in SUBSET Task, NEW why,
           \A t \in T : why[t] \in EndReason
    PROVE  Transitioned(c, TransitionToTerminal(c, T, why), T, why)
<1> DEFINE d == TransitionToTerminal(c, T, why)
           st == [t \in Task |-> IF t \in T THEN StatusOf(why[t]) ELSE c.status[t]]
           rs == [t \in Task |-> IF t \in T THEN why[t] ELSE c.reason[t]]
           rp == [t \in Task |-> IF t \in T THEN FALSE ELSE c.reported[t]]
<1>1. st \in [Task -> Status]
  BY StatusOfType
<1>2. rs \in [Task -> {"none"} \cup EndReason]
  OBVIOUS
<1>3. rp \in [Task -> BOOLEAN]
  OBVIOUS
<1>4. d = [c EXCEPT !.queued = @ \ T, !.reserved = @ \ T, !.running = @ \ T,
                    !.terminal = @ \cup T, !.status = st, !.reason = rs,
                    !.reported = rp]
  BY DEF TransitionToTerminal
<1> HIDE DEF st, rs, rp, d
<1>5. d \in Queue
  BY <1>1, <1>2, <1>3, <1>4
<1>6. /\ d.queued = c.queued \ T /\ d.reserved = c.reserved \ T
      /\ d.running = c.running \ T /\ d.terminal = c.terminal \cup T
      /\ d.completed = c.completed /\ d.observed = c.observed
      /\ d.status = st /\ d.reason = rs /\ d.reported = rp
  BY <1>4
<1>7. \A t \in T : st[t] = StatusOf(why[t]) /\ rs[t] = why[t] /\ rp[t] = FALSE
  BY DEF st, rs, rp
<1>8. \A t \in Task \ T : /\ st[t] = c.status[t] /\ rs[t] = c.reason[t]
                          /\ rp[t] = c.reported[t]
  BY DEF st, rs, rp
<1>9. QED
  BY <1>5, <1>6, <1>7, <1>8 DEF Transitioned, d

\* Ending tasks keeps the collections and the statuses in step.
LEMMA TransitionPlaced ==
    ASSUME NEW c \in Queue, Placed(c), NEW T \in SUBSET Task, NEW why,
           \A t \in T : why[t] \in EndReason,
           NEW d, Transitioned(c, d, T, why)
    PROVE  Placed(d)
<1>1. \A t \in T : d.status[t] \in TerminalStatus /\ d.reason[t] # "none"
  BY StatusOfType DEF Transitioned
<1>2. SUFFICES ASSUME NEW t \in Task
      PROVE  /\ t \in d.queued <=> d.status[t] = "queued"
             /\ t \in d.reserved <=> d.status[t] = "reserved"
             /\ t \in d.running <=> d.status[t] = "running"
             /\ t \in d.terminal => d.status[t] \in TerminalStatus
             /\ d.status[t] \in TerminalStatus <=> d.reason[t] # "none"
  BY DEF Transitioned
<1>3. CASE t \in T
  BY <1>1, <1>3 DEF Transitioned
<1>4. CASE t \notin T
  BY <1>4 DEF Transitioned
<1>5. QED
  BY <1>3, <1>4

\* cancel() of any task, active, ended or unknown.
LEMMA CancelWellFormed ==
    ASSUME NEW c, WellFormed(c), NEW t \in Task
    PROVE  WellFormed(Cancel(c, t))
<1> DEFINE why == [u \in Task |-> "cancelled"]
           d == TransitionToTerminal(c, {t}, why)
<1>1. Transitioned(c, d, {t}, why)
  <2>1. \A u \in {t} : why[u] \in EndReason
    OBVIOUS
  <2>2. QED
    BY <2>1, TransitionFacts DEF WellFormed
<1>2. Placed(d)
  <2>1. \A u \in {t} : why[u] \in EndReason
    OBVIOUS
  <2>2. c \in Queue /\ Placed(c) /\ {t} \in SUBSET Task
    BY DEF WellFormed
  <2> HIDE DEF why, d, Queue, Placed, EndReason
  <2>3. QED
    BY <1>1, <2>1, <2>2, TransitionPlaced
<1>3. WellFormed(d)
  BY <1>1, <1>2 DEF WellFormed, Transitioned
<1>4. QED
  BY <1>3 DEF Cancel

\* Forgetting terminal tasks.
LEMMA DropWellFormed ==
    ASSUME NEW c, WellFormed(c), NEW D
    PROVE  WellFormed(Drop(c, D))
<1> DEFINE d == Drop(c, D)
<1>1. d = [c EXCEPT !.terminal = c.terminal \ D]
  BY DEF Drop
<1>2. d \in Queue
  BY <1>1 DEF WellFormed
<1>3. /\ d.queued = c.queued /\ d.reserved = c.reserved /\ d.running = c.running
      /\ d.terminal \subseteq c.terminal /\ d.reason = c.reason
      /\ d.completed = c.completed /\ d.status = c.status
  BY <1>1 DEF WellFormed
<1> HIDE DEF d
<1>4. Consistent(d)
  BY <1>3 DEF WellFormed
<1>5. QED
  BY <1>2, <1>4 DEF WellFormed, d

-----------------------------------------------------------------------------
(* tick(). *)

\* The tasks a tick ends, and why: what Advance computes of a queue.
FinishedBy(c) == {t \in c.running : c.completed[t] # "none"}
AnomalousIn(c) ==
    {t \in (c.running \cup c.reserved) \ FinishedBy(c) : c.observed[t] # "none"}
EndedBy(c) == FinishedBy(c) \cup AnomalousIn(c)
WhyOf(c) ==
    [t \in Task |-> IF t \in FinishedBy(c) THEN c.completed[t] ELSE c.observed[t]]

\* Advance ends EndedBy(c), forgets the reported and empties the buffers.  The
\* completions may still be in their buffer before.
LEMMA AdvanceFacts ==
    ASSUME NEW c \in Queue, Placed(c)
    PROVE  \E e : /\ Transitioned(c, e, EndedBy(c), WhyOf(c))
                  /\ Placed(e)
                  /\ Advance(c) =
                        [e EXCEPT !.completed = [t \in Task |-> "none"],
                                  !.observed  = [t \in Task |-> "none"],
                                  !.terminal  = {t \in e.terminal : ~e.reported[t]}]
<1> DEFINE e == TransitionToTerminal(c, EndedBy(c), WhyOf(c))
<1>1. EndedBy(c) \in SUBSET Task
  BY DEF EndedBy, FinishedBy, AnomalousIn
<1>2. \A t \in EndedBy(c) : WhyOf(c)[t] \in EndReason
  BY DEF EndedBy, FinishedBy, AnomalousIn, WhyOf
<1>3. Advance(c) =
          [e EXCEPT !.completed = [t \in Task |-> "none"],
                    !.observed  = [t \in Task |-> "none"],
                    !.terminal  = {t \in e.terminal : ~e.reported[t]}]
  BY DEF Advance, EndedBy, FinishedBy, AnomalousIn, WhyOf
<1> HIDE DEF Queue, EndReason, Placed
<1>4. Transitioned(c, e, EndedBy(c), WhyOf(c))
  BY <1>1, <1>2, TransitionFacts
<1> HIDE DEF e
<1>5. Placed(e)
  BY <1>1, <1>2, <1>4, TransitionPlaced
<1>6. QED
  BY <1>3, <1>4, <1>5

\* Steps 1 to 3 of tick() consume the completions.
LEMMA AdvanceWellFormed ==
    ASSUME NEW c \in Queue, Placed(c)
    PROVE  WellFormed(Advance(c))
<1> DEFINE blank == [t \in Task |-> "none"]
           d == Advance(c)
<1>1. PICK e : /\ Transitioned(c, e, EndedBy(c), WhyOf(c))
               /\ Placed(e)
               /\ d = [e EXCEPT !.completed = blank, !.observed = blank,
                                !.terminal = {t \in e.terminal : ~e.reported[t]}]
  BY AdvanceFacts
<1>2. e \in Queue
  BY <1>1 DEF Transitioned
<1>3. d \in Queue
  <2>1. /\ blank \in [Task -> {"none"} \cup ExitReason]
        /\ blank \in [Task -> {"none"} \cup RuntimeReason]
    BY <1>2
  <2> DEFINE kept == {t \in e.terminal : ~e.reported[t]}
  <2>2. kept \in SUBSET Task
    BY <1>2
  <2>3. d = [e EXCEPT !.completed = blank, !.observed = blank, !.terminal = kept]
    BY <1>1
  <2> HIDE DEF blank, kept, d
  <2>4. QED
    BY <1>2, <2>1, <2>2, <2>3
<1>4. /\ d.queued = e.queued /\ d.reserved = e.reserved /\ d.running = e.running
      /\ d.terminal \subseteq e.terminal /\ d.reason = e.reason
      /\ d.completed = blank /\ d.status = e.status
  BY <1>1, <1>2
<1> HIDE DEF d
<1>5. Consistent(d)
  BY <1>1, <1>4
<1>6. QED
  BY <1>3, <1>5 DEF WellFormed, d

\* tick(), with the completions that check_completed has just pushed.
LEMMA TickWellFormed ==
    ASSUME NEW c \in Queue, Placed(c), NEW d \in Tick(c)
    PROVE  WellFormed(d)
<1>1. PICK D : d = Drop(Advance(c), D)
  BY DEF Tick
<1>2. QED
  BY <1>1, AdvanceWellFormed, DropWellFormed

\* What tick() does to each collection, and to the status and the end reason of
\* each task.
LEMMA TickFacts ==
    ASSUME NEW c \in Queue, Placed(c), NEW d \in Tick(c)
    PROVE  /\ EndedBy(c) \subseteq c.running \cup c.reserved
           /\ d.queued = c.queued \ EndedBy(c)
           /\ d.reserved = c.reserved \ EndedBy(c)
           /\ d.running = c.running \ EndedBy(c)
           /\ d.terminal \subseteq c.terminal \cup EndedBy(c)
           /\ \A t \in Task : d.observed[t] = "none"
           /\ \A t \in EndedBy(c) : /\ d.status[t] = StatusOf(WhyOf(c)[t])
                                   /\ d.reason[t] = WhyOf(c)[t]
           /\ \A t \in Task \ EndedBy(c) : /\ d.status[t] = c.status[t]
                                           /\ d.reason[t] = c.reason[t]
<1> DEFINE blank == [t \in Task |-> "none"]
           a == Advance(c)
<1>1. PICK D : d = Drop(a, D)
  BY DEF Tick
<1>2. PICK e : /\ Transitioned(c, e, EndedBy(c), WhyOf(c))
               /\ Placed(e)
               /\ a = [e EXCEPT !.completed = blank, !.observed = blank,
                                !.terminal = {t \in e.terminal : ~e.reported[t]}]
  BY AdvanceFacts
<1>3. e \in Queue
  BY <1>2 DEF Transitioned
<1>4. /\ a.queued = e.queued /\ a.reserved = e.reserved /\ a.running = e.running
      /\ a.terminal \subseteq e.terminal /\ a.reason = e.reason
      /\ a.observed = blank /\ a.status = e.status
  BY <1>2, <1>3
<1>5. a \in Queue
  BY AdvanceWellFormed DEF WellFormed
<1> HIDE DEF a, blank
<1>6. /\ d.queued = a.queued /\ d.reserved = a.reserved /\ d.running = a.running
      /\ d.terminal \subseteq a.terminal /\ d.reason = a.reason
      /\ d.observed = a.observed /\ d.status = a.status
  BY <1>1, <1>5 DEF Drop
<1>7. EndedBy(c) \subseteq c.running \cup c.reserved
  BY DEF EndedBy, FinishedBy, AnomalousIn
<1>8. EndedBy(c) \subseteq Task
  BY <1>7
<1>9. \A t \in Task : d.observed[t] = "none"
  BY <1>4, <1>6 DEF blank
<1>10. QED
  BY <1>2, <1>4, <1>6, <1>7, <1>8, <1>9 DEF Transitioned

\* to_snapshot() only marks.
LEMMA ToSnapshotWellFormed ==
    ASSUME NEW c, WellFormed(c)
    PROVE  WellFormed(ToSnapshot(c))
<1> DEFINE rp == [t \in Task |-> c.reported[t] \/ t \in c.terminal]
           d == ToSnapshot(c)
<1>1. d = [c EXCEPT !.reported = rp]
  BY DEF ToSnapshot
<1>2. rp \in [Task -> BOOLEAN]
  BY DEF WellFormed
<1> HIDE DEF rp
<1>3. d \in Queue
  BY <1>1, <1>2 DEF WellFormed
<1>4. /\ d.queued = c.queued /\ d.reserved = c.reserved /\ d.running = c.running
      /\ d.terminal = c.terminal /\ d.reason = c.reason
      /\ d.completed = c.completed /\ d.status = c.status
  BY <1>1 DEF WellFormed
<1> HIDE DEF d
<1>5. Consistent(d)
  BY <1>4 DEF WellFormed
<1>6. QED
  BY <1>3, <1>5 DEF WellFormed, d

-----------------------------------------------------------------------------
(* What the operations leave of the running tasks, of the pending            *)
(* observations and of the end reasons.                                      *)

\* Nothing of the three has changed.
SameRun(c, d) ==
    d.running = c.running /\ d.observed = c.observed /\ d.reason = c.reason

\* submit() changes none of them,
LEMMA SubmitRun ==
    ASSUME NEW c \in Queue, NEW t, NEW p
    PROVE  SameRun(c, Submit(c, t, p))
BY DEF Submit, SameRun

\* nor does set_priority(),
LEMMA SetPriorityRun ==
    ASSUME NEW c \in Queue, NEW t, NEW p
    PROVE  SameRun(c, SetPriority(c, t, p))
BY DEF SetPriority, SameRun

\* nor does reserve(),
LEMMA ReserveRun ==
    ASSUME NEW c \in Queue, NEW T
    PROVE  SameRun(c, Reserve(c, T))
BY DEF Reserve, SameRun

\* nor does to_snapshot().
LEMMA ToSnapshotRun ==
    ASSUME NEW c \in Queue
    PROVE  SameRun(c, ToSnapshot(c))
BY DEF ToSnapshot, SameRun

\* start() adds running tasks.
LEMMA StartRun ==
    ASSUME NEW c \in Queue, NEW T
    PROVE  /\ Start(c, T).running = c.running \cup T
           /\ Start(c, T).observed = c.observed
           /\ Start(c, T).reason = c.reason
BY DEF Start

\* push_completion() fills one buffer with the first completion of a task,
LEMMA PushCompletionRun ==
    ASSUME NEW c \in Queue, NEW T, NEW exit
    PROVE  /\ SameRun(c, PushCompletion(c, T, exit))
           /\ PushCompletion(c, T, exit).queued = c.queued
           /\ PushCompletion(c, T, exit).reserved = c.reserved
           /\ \A t \in Task : PushCompletion(c, T, exit).completed[t] =
                 IF t \in T /\ c.completed[t] = "none" THEN exit[t] ELSE c.completed[t]
BY DEF PushCompletion, SameRun

\* and push_runtime() the other with its first observation.
LEMMA PushRuntimeRun ==
    ASSUME NEW c \in Queue, NEW T, NEW why
    PROVE  /\ PushRuntime(c, T, why).running = c.running
           /\ PushRuntime(c, T, why).reserved = c.reserved
           /\ PushRuntime(c, T, why).completed = c.completed
           /\ PushRuntime(c, T, why).reason = c.reason
           /\ \A t \in Task : PushRuntime(c, T, why).observed[t] =
                 IF t \in T /\ c.observed[t] = "none" THEN why[t] ELSE c.observed[t]
BY DEF PushRuntime

\* cancel() ends one task, for the reason of a cancellation.
LEMMA CancelRun ==
    ASSUME NEW c, WellFormed(c), NEW t \in Task
    PROVE  /\ Cancel(c, t).running = c.running \ {t}
           /\ Cancel(c, t).observed = c.observed
           /\ \A u \in Task : \/ Cancel(c, t).reason[u] = c.reason[u]
                              \/ Cancel(c, t).reason[u] = "cancelled"
<1> DEFINE why == [u \in Task |-> "cancelled"]
           d == TransitionToTerminal(c, {t}, why)
<1>1. Transitioned(c, d, {t}, why)
  <2>1. \A u \in {t} : why[u] \in EndReason
    OBVIOUS
  <2>2. QED
    BY <2>1, TransitionFacts DEF WellFormed
<1>2. Cancel(c, t) = IF t \in Known(c) THEN d ELSE c
  BY DEF Cancel
<1>3. CASE t \in Known(c)
  BY <1>1, <1>2, <1>3 DEF Transitioned
<1>4. CASE t \notin Known(c)
  BY <1>2, <1>4 DEF Known
<1>5. QED
  BY <1>3, <1>4

\* tick() forgets a task only if a report has carried its end or there are more
\* ended tasks than it may keep.
LEMMA TickForgets ==
    ASSUME NEW c \in Queue, Placed(c), NEW d \in Tick(c), NEW t \in Known(c) \ Known(d)
    PROVE  \/ t \in c.terminal /\ c.reported[t]
           \/ Cardinality(d.terminal) = MaxTerminal
<1> DEFINE a == Advance(c)
<1>1. PICK D : D \in Excess(a) /\ d = Drop(a, D)
  BY DEF Tick
<1>2. PICK e : /\ Transitioned(c, e, EndedBy(c), WhyOf(c))
               /\ Placed(e)
               /\ a = [e EXCEPT !.completed = [u \in Task |-> "none"],
                                !.observed  = [u \in Task |-> "none"],
                                !.terminal  = {u \in e.terminal : ~e.reported[u]}]
  BY AdvanceFacts
<1>3. e \in Queue /\ EndedBy(c) \subseteq Task
  BY <1>2, TickFacts DEF Transitioned
<1>4. /\ a.queued = e.queued /\ a.reserved = e.reserved /\ a.running = e.running
      /\ a.terminal = {u \in e.terminal : ~e.reported[u]}
  BY <1>2, <1>3
<1>5. a \in Queue
  BY AdvanceWellFormed DEF WellFormed
<1> HIDE DEF a
<1>6. /\ d.queued = a.queued /\ d.reserved = a.reserved /\ d.running = a.running
      /\ d.terminal = a.terminal \ D
  BY <1>1, <1>5 DEF Drop
<1>7. D = {} \/ Cardinality(d.terminal) = MaxTerminal
  BY <1>1, <1>6 DEF Excess
<1>8. t \in Task /\ t \notin a.queued \cup a.reserved \cup a.running
  BY <1>6 DEF Known
<1>9. ASSUME D = {} PROVE t \in c.terminal /\ c.reported[t]
  <2>1. t \notin a.terminal
    BY <1>6, <1>9 DEF Known
  <2>2. t \in e.terminal /\ e.reported[t]
    BY <1>2, <1>3, <1>4, <1>8, <2>1 DEF Transitioned, Known
  <2>3. t \notin EndedBy(c)
    BY <2>2, <1>2 DEF Transitioned
  <2>4. QED
    BY <1>2, <1>8, <2>2, <2>3 DEF Transitioned
<1>10. QED
  BY <1>7, <1>9

\* reserve() and start() neither end a task nor forget one.
LEMMA ReserveEnds ==
    ASSUME NEW c \in Queue, NEW T
    PROVE  /\ Reserve(c, T).reason = c.reason /\ Reserve(c, T).terminal = c.terminal
           /\ Known(c) \subseteq Known(Reserve(c, T))
<1>1. /\ Reserve(c, T).reason = c.reason /\ Reserve(c, T).terminal = c.terminal
      /\ Reserve(c, T).queued = c.queued \ T /\ Reserve(c, T).running = c.running
      /\ Reserve(c, T).reserved = c.reserved \cup T
  BY DEF Reserve
<1>2. QED
  BY <1>1 DEF Known

\* The same of start().
LEMMA StartEnds ==
    ASSUME NEW c \in Queue, NEW T
    PROVE  /\ Start(c, T).reason = c.reason /\ Start(c, T).terminal = c.terminal
           /\ Known(c) \subseteq Known(Start(c, T))
<1>1. /\ Start(c, T).reason = c.reason /\ Start(c, T).terminal = c.terminal
      /\ Start(c, T).queued = c.queued /\ Start(c, T).running = c.running \cup T
      /\ Start(c, T).reserved = c.reserved \ T
  BY DEF Start
<1>2. QED
  BY <1>1 DEF Known

\* cancel() of any task leaves every task known that was.
LEMMA CancelKnown ==
    ASSUME NEW c, WellFormed(c), NEW t \in Task
    PROVE  Known(c) \subseteq Known(Cancel(c, t))
<1> DEFINE why == [u \in Task |-> "cancelled"]
           d == TransitionToTerminal(c, {t}, why)
<1>1. Transitioned(c, d, {t}, why)
  <2>1. \A u \in {t} : why[u] \in EndReason
    OBVIOUS
  <2>2. QED
    BY <2>1, TransitionFacts DEF WellFormed
<1>2. Cancel(c, t) = IF t \in Known(c) THEN d ELSE c
  BY DEF Cancel
<1> HIDE DEF d, why
<1>3. QED
  BY <1>1, <1>2 DEF Transitioned, Known

-----------------------------------------------------------------------------
(***************************************************************************)
(* The handlers of the daemon and the cycle of its collection.             *)
(***************************************************************************)
HIDE DEF Queue, Placed, Consistent, Status, ActiveStatus, TerminalStatus,
         EndReason, ExitReason, RuntimeReason


\* The inductive invariant of type correctness: the guards of the handlers read
\* the collections, so they keep q in Queue only if it is consistent.
Sound == TypeOK /\ QueueConsistent

\* The daemon starts with an empty queue and no process.
LEMMA SoundInit == Init => Sound
BY EmptyQueueWellFormed, ForegroundAssumption
   DEF Init, Sound, TypeOK, QueueConsistent, WellFormed, Background,
       ChildState, DeadlineState, CliState

\* What check_completed() pushes for the tick that follows.
LEMMA PolledFacts ==
    ASSUME NEW c, WellFormed(c)
    PROVE  Polled(c) \in Queue /\ Placed(Polled(c))
<1> DEFINE exit == [t \in Task |-> ExitOf(t)]
           d == PushCompletion(c, Exited, exit)
<1>1. exit \in [Task -> ExitReason]
  BY DEF ExitOf, ExitReason
<1>2. d \in Queue
  <2> HIDE DEF exit
  <2>1. QED
    BY <1>1, PushCompletionType DEF WellFormed
<1>3. /\ d.queued = c.queued /\ d.reserved = c.reserved /\ d.running = c.running
      /\ d.terminal = c.terminal /\ d.reason = c.reason /\ d.status = c.status
  BY DEF PushCompletion, WellFormed, Queue
<1> HIDE DEF d
<1>4. Placed(d)
  BY <1>3 DEF WellFormed, Consistent, Placed
<1>5. QED
  BY <1>2, <1>4 DEF d, Polled

\* The locked part of the cycle keeps the queue well-formed, whichever tasks
\* it launches and whether or not one of the launches raises.
LEMMA CycleWellFormed ==
    ASSUME WellFormed(q), NEW q0 \in Tick(Polled(q)),
           NEW L \in SUBSET q0.queued
    PROVE  /\ WellFormed(q0)
           /\ WellFormed(Reserve(q0, L))
           /\ WellFormed(Start(Reserve(q0, L), L \cap Background))
<1>1. WellFormed(q0)
  BY PolledFacts, TickWellFormed
<1>2. WellFormed(Reserve(q0, L))
  BY <1>1, ReserveWellFormed
<1>3. L \cap Background \subseteq Reserve(q0, L).reserved
  BY <1>1 DEF Reserve, WellFormed, Queue
<1>4. QED
  BY <1>1, <1>2, <1>3, StartWellFormed

\* Every action keeps the queue well-formed.
LEMMA QueueStep == Sound /\ [Next]_vars => WellFormed(q')
<1> SUFFICES ASSUME Sound, [Next]_vars PROVE WellFormed(q')
  OBVIOUS
<1>0. WellFormed(q)
  BY DEF Sound, TypeOK, QueueConsistent, WellFormed
<1>1. ASSUME NEW t \in Task, SubmitBackground(t) PROVE WellFormed(q')
  BY <1>0, <1>1, SubmitWellFormed DEF SubmitBackground
<1>2. ASSUME NEW t \in Task, NEW p \in Priority, SetTaskPriority(t, p)
      PROVE  WellFormed(q')
  BY <1>0, <1>2, SetPriorityWellFormed DEF SetTaskPriority
<1>3. ASSUME NEW t \in Task, CancelTask(t) PROVE WellFormed(q')
  BY <1>0, <1>3, CancelWellFormed DEF CancelTask
<1>4. CASE CollectCycle
  <2>1. PICK q0 \in Tick(Polled(q)) : \E L \in SUBSET q0.queued :
            q' = ToSnapshot(Start(Reserve(q0, L), L \cap Background))
    BY <1>4 DEF CollectCycle
  <2>2. PICK L \in SUBSET q0.queued :
            q' = ToSnapshot(Start(Reserve(q0, L), L \cap Background))
    BY <2>1
  <2>3. QED
    BY <1>0, <2>2, CycleWellFormed, ToSnapshotWellFormed
<1>5. CASE CollectCycleFails
  <2>a. PICK q0 \in Tick(Polled(q)) :
            \E f \in Background \cap q0.queued : \E L \in SUBSET (q0.queued \ {f}) :
                q' = Reserve(Start(Reserve(q0, L), L \cap Background), {f})
    BY <1>5 DEF CollectCycleFails
  <2>b. PICK f \in Background \cap q0.queued : \E L \in SUBSET (q0.queued \ {f}) :
            q' = Reserve(Start(Reserve(q0, L), L \cap Background), {f})
    BY <2>a
  <2>1. PICK L \in SUBSET (q0.queued \ {f}) :
            q' = Reserve(Start(Reserve(q0, L), L \cap Background), {f})
    BY <2>b
  <2> DEFINE c == Start(Reserve(q0, L), L \cap Background)
  <2>2. WellFormed(q0) /\ WellFormed(c)
    BY <1>0, <2>1, CycleWellFormed
  <2>3. {f} \subseteq c.queued
    <3>1. Reserve(q0, L).queued = q0.queued \ L
      BY <2>2 DEF Reserve, WellFormed, Queue
    <3>2. Reserve(q0, L) \in Queue
      BY <2>1, <1>0, CycleWellFormed DEF WellFormed
    <3>3. c.queued = Reserve(q0, L).queued
      BY <3>2 DEF Start, Queue
    <3>4. QED
      BY <2>1, <3>1, <3>3
  <2> HIDE DEF c
  <2>4. WellFormed(Reserve(c, {f}))
    BY <2>2, <2>3, ReserveWellFormed
  <2>5. QED
    BY <2>1, <2>4 DEF c
<1>6. CASE MonitorTick
  <2> DEFINE why == [t \in Task |-> IF t \in q.running THEN "pid_disappeared"
                                                       ELSE "attach_timeout"]
  <2>1. why \in [Task -> RuntimeReason]
    BY DEF RuntimeReason
  <2>2. q' = PushRuntime(q, Vanished \cup Overdue, why)
    BY <1>6 DEF MonitorTick
  <2> HIDE DEF why
  <2>3. QED
    BY <1>0, <2>1, <2>2, PushRuntimeWellFormed
<1>7. ASSUME NEW t \in Foreground, SubmitForeground(t) PROVE WellFormed(q')
  BY <1>0, <1>7, SubmitWellFormed, ForegroundAssumption DEF SubmitForeground
<1>8. ASSUME NEW t \in Foreground, ConfirmForegroundLaunch(t) PROVE WellFormed(q')
  <2>1. {t} \cap q.reserved \subseteq q.reserved
    OBVIOUS
  <2>2. QED
    BY <1>0, <1>8, <2>1, StartWellFormed DEF ConfirmForegroundLaunch
<1>9. ASSUME NEW t \in Foreground, FailForegroundLaunch(t) PROVE WellFormed(q')
  <2> DEFINE why == [u \in Task |-> "launch_failed"]
  <2>1. why \in [Task -> RuntimeReason]
    BY DEF RuntimeReason
  <2>2. q' = q \/ q' \in Tick(PushRuntime(q, {t}, why))
    BY <1>9 DEF FailForegroundLaunch
  <2> HIDE DEF why
  <2>3. WellFormed(PushRuntime(q, {t}, why))
    BY <1>0, <2>1, PushRuntimeWellFormed
  <2>4. QED
    BY <1>0, <2>2, <2>3, TickWellFormed DEF WellFormed, Consistent
<1>10. ASSUME NEW t \in Foreground, FinishForegroundTask(t) PROVE WellFormed(q')
  <2> DEFINE code == IF cli[t] = "exited_zero" THEN "exit_zero" ELSE "exit_nonzero"
             exit == [u \in Task |-> code]
             c == PushCompletion(q, {t}, exit)
  <2>1. exit \in [Task -> ExitReason]
    BY DEF ExitReason
  <2>2. q' = q \/ q' \in Tick(c)
    BY <1>10 DEF FinishForegroundTask
  <2> HIDE DEF exit
  <2>3. c \in Queue
    BY <1>0, <2>1, PushCompletionType DEF WellFormed
  <2>4. Placed(c)
    BY <1>0 DEF PushCompletion, WellFormed, Queue, Consistent, Placed
  <2> HIDE DEF c
  <2>5. QED
    BY <1>0, <2>2, <2>3, <2>4, TickWellFormed
<1>11. ASSUME NEW t \in Foreground, CliInterruptPolling(t) PROVE WellFormed(q')
  BY <1>0, <1>11, CancelWellFormed, ForegroundAssumption DEF CliInterruptPolling
<1>12. ASSUME UNCHANGED q PROVE WellFormed(q')
  BY <1>0, <1>12
<1>13. ASSUME NEW t \in Foreground, CliStep(t) PROVE WellFormed(q')
  BY <1>7, <1>8, <1>9, <1>10, <1>11, <1>12, <1>13
     DEF CliStep, CliPoll, CliSpawn, CliReap, CliInterruptLaunched, CliDies
<1>14. QED
  BY <1>1, <1>2, <1>3, <1>4, <1>5, <1>6, <1>12, <1>13
     DEF Next, vars, ChildExits, ZombieCollected, DeadlinePasses

\* Every action keeps the processes, deadlines and command lines well-typed.
ProcessesOK ==
    /\ tracked \subseteq Background
    /\ child \in [Task -> ChildState]
    /\ deadline \in [Task -> DeadlineState]
    /\ cli \in [Foreground -> CliState]

\* No action takes them out of their types.
LEMMA ProcessesStep == ProcessesOK /\ [Next]_vars => ProcessesOK'
<1> SUFFICES ASSUME ProcessesOK, [Next]_vars PROVE ProcessesOK'
  OBVIOUS
<1> USE DEF ProcessesOK, ChildState, DeadlineState, CliState
<1>1. ASSUME NEW t \in Task, CancelTask(t) PROVE ProcessesOK'
  BY <1>1 DEF CancelTask, Kill
<1>2. ASSUME NEW q0, NEW L, NEW F, Launch(q0, L, F), UNCHANGED cli
      PROVE  ProcessesOK'
  BY <1>2 DEF Launch
<1>3. CollectCycle \/ CollectCycleFails => ProcessesOK'
  BY <1>2 DEF CollectCycle, CollectCycleFails
<1>4. ASSUME NEW t \in Foreground, CliStep(t) PROVE ProcessesOK'
  <2>1. CASE SubmitForeground(t)
    BY <2>1 DEF SubmitForeground, CliAt
  <2>2. CASE CliPoll(t)
    BY <2>2 DEF CliPoll, CliAt
  <2>3. CASE CliSpawn(t)
    BY <2>3 DEF CliSpawn, CliAt
  <2>4. CASE ConfirmForegroundLaunch(t)
    BY <2>4 DEF ConfirmForegroundLaunch, CliAt
  <2>5. CASE FailForegroundLaunch(t)
    BY <2>5 DEF FailForegroundLaunch, CliAt
  <2>6. CASE CliReap(t)
    BY <2>6 DEF CliReap, CliAt
  <2>7. CASE FinishForegroundTask(t)
    BY <2>7 DEF FinishForegroundTask, CliAt
  <2>8. CASE CliInterruptPolling(t)
    BY <2>8 DEF CliInterruptPolling, CliAt
  <2>9. CASE CliInterruptLaunched(t)
    BY <2>9 DEF CliInterruptLaunched, CliAt
  <2>10. CASE CliDies(t)
    BY <2>10 DEF CliDies
  <2>11. QED
    BY <1>4, <2>1, <2>2, <2>3, <2>4, <2>5, <2>6, <2>7, <2>8, <2>9, <2>10 DEF CliStep
<1>5. ASSUME NEW t \in Task, ChildExits(t) PROVE ProcessesOK'
  BY <1>5 DEF ChildExits
<1>6. ASSUME NEW t \in Task, ZombieCollected(t) PROVE ProcessesOK'
  BY <1>6 DEF ZombieCollected
<1>7. ASSUME NEW t \in Task, DeadlinePasses(t) PROVE ProcessesOK'
  BY <1>7 DEF DeadlinePasses
<1>8. ASSUME UNCHANGED <<tracked, child, deadline, cli>> PROVE ProcessesOK'
  BY <1>8
<1>9. QED
  BY <1>1, <1>3, <1>4, <1>5, <1>6, <1>7, <1>8
     DEF Next, vars, SubmitBackground, SetTaskPriority, MonitorTick

\* Type correctness holds in every behaviour: no order of completions,
\* observations, cancellations, failed launches and command line calls takes
\* the daemon's state out of its types.
THEOREM TypeCorrect == Spec => []TypeOK
<1>1. Sound /\ [Next]_vars => Sound'
  BY QueueStep, ProcessesStep
     DEF Sound, TypeOK, ProcessesOK, QueueConsistent, WellFormed
<1>2. Sound => TypeOK
  BY DEF Sound
<1>3. QED
  BY <1>1, <1>2, SoundInit, PTL DEF Spec

\* The collections of the queue and the statuses of the tasks agree in every
\* reachable state.
THEOREM QueueAlwaysConsistent == Spec => []QueueConsistent
<1>1. Sound /\ [Next]_vars => Sound'
  BY QueueStep, ProcessesStep
     DEF Sound, TypeOK, ProcessesOK, QueueConsistent, WellFormed
<1>2. Sound => QueueConsistent
  BY DEF Sound
<1>3. QED
  BY <1>1, <1>2, SoundInit, PTL DEF Spec

-----------------------------------------------------------------------------
(* Ownership of the background processes. *)

\* Inductive together with Sound: that the monitor has nothing to say of a
\* background task also rests on its reservation having no deadline.
Owned ==
    /\ BackgroundProcessOwned
    /\ \A t \in Background : deadline[t] = "none"

\* No process, no record.
LEMMA OwnedInit == Init => Owned
BY TaskQueueAssumption, ForegroundAssumption
   DEF Init, Owned, BackgroundProcessOwned, EmptyQueue, Background, RuntimeReason

\* A step that leaves the runner, the processes and the deadlines alone keeps
\* the ownership if it leaves the background part of the queue alone.
LEMMA OwnedByQueue ==
    ASSUME Owned, UNCHANGED <<tracked, child, deadline>>,
           q'.running \cap Background = q.running \cap Background,
           \A t \in Background : q'.observed[t] = "none",
           \A t \in Background : q'.reason[t] \notin RuntimeReason
    PROVE  Owned'
BY DEF Owned, BackgroundProcessOwned, Background

\* A tick that ends no background task.
LEMMA TickOfForeground ==
    ASSUME Sound, Owned, UNCHANGED <<tracked, child, deadline>>,
           NEW c \in Queue, Placed(c),
           c.running = q.running, c.reason = q.reason,
           \A t \in Background : c.completed[t] = "none" /\ c.observed[t] = "none",
           q' \in Tick(c)
    PROVE  Owned'
<1>1. EndedBy(c) \cap Background = {}
  BY DEF EndedBy, FinishedBy, AnomalousIn
<1>2. /\ q'.running = c.running \ EndedBy(c)
      /\ \A t \in Task : q'.observed[t] = "none"
      /\ \A t \in Task \ EndedBy(c) : q'.reason[t] = c.reason[t]
  BY TickFacts
<1>3. \A t \in Background : t \in Task \ EndedBy(c)
  BY <1>1 DEF Background
<1>4. q'.running \cap Background = q.running \cap Background
  BY <1>1, <1>2
<1>5. \A t \in Background : q'.reason[t] \notin RuntimeReason
  BY <1>2, <1>3 DEF Owned, BackgroundProcessOwned
<1>6. \A t \in Background : q'.observed[t] = "none"
  BY <1>2, <1>3
<1>7. QED
  BY <1>4, <1>5, <1>6, OwnedByQueue

\* The cycle hands every background process over: the exited ones leave the
\* table with their exit code, the launched ones enter it.
LEMMA CycleOwned ==
    ASSUME Sound, Owned, NEW q0 \in Tick(Polled(q)),
           NEW L \in SUBSET q0.queued, NEW F, Launch(q0, L, F),
           q'.running = q0.running \cup (L \cap Background),
           q'.observed = q0.observed, q'.reason = q0.reason
    PROVE  Owned'
<1> DEFINE c == Polled(q)
           exit == [t \in Task |-> ExitOf(t)]
<1>0. q \in Queue /\ \A t \in Task : q.completed[t] = "none"
  BY DEF Sound, TypeOK, QueueConsistent, Consistent
<1>1. c \in Queue /\ Placed(c)
  BY <1>0, PolledFacts DEF Sound, QueueConsistent, WellFormed
<1>2. c = PushCompletion(q, Exited, exit)
  BY DEF Polled
<1>3. /\ c.running = q.running /\ c.observed = q.observed /\ c.reason = q.reason
      /\ \A t \in Task : c.completed[t] =
            IF t \in Exited /\ q.completed[t] = "none" THEN exit[t] ELSE q.completed[t]
  <2> HIDE DEF c, exit
  <2>1. QED
    BY <1>0, <1>2, PushCompletionRun DEF SameRun
<1>4. \A t \in Task : /\ t \in Exited => c.completed[t] \in ExitReason
                      /\ t \notin Exited => c.completed[t] = "none"
  BY <1>0, <1>3 DEF ExitOf, ExitReason
<1> HIDE DEF c, exit
<1>5. q0 \in Tick(c)
  BY DEF c
<1>6. /\ q0.queued = c.queued \ EndedBy(c)
      /\ q0.running = c.running \ EndedBy(c)
      /\ \A t \in Task : q0.observed[t] = "none"
      /\ \A t \in EndedBy(c) : q0.reason[t] = WhyOf(c)[t]
      /\ \A t \in Task \ EndedBy(c) : q0.reason[t] = c.reason[t]
  BY <1>1, <1>5, TickFacts
<1>7. /\ tracked = q.running \cap Background
      /\ Exited \subseteq q.running \cap Background
      /\ \A t \in Background : q.observed[t] = "none" /\ t \in Task
  BY DEF Owned, BackgroundProcessOwned, Exited, Background
<1>8. \A t \in Background : /\ t \in EndedBy(c) <=> t \in Exited
                            /\ t \in Exited => t \in FinishedBy(c)
  BY <1>3, <1>4, <1>7 DEF EndedBy, FinishedBy, AnomalousIn, ExitReason
<1>9. L \cap Exited = {}
  BY <1>6, <1>7, <1>8
<1>10. /\ tracked' = (tracked \ Exited) \cup (L \cap Background)
       /\ child' = [t \in Task |->
                      IF t \in Exited THEN "reaped"
                      ELSE IF t \in L \cap Background THEN "alive" ELSE child[t]]
       /\ \A t \in Background : deadline'[t] = deadline[t]
  BY DEF Launch, Background
<1>11. tracked' = q'.running \cap Background
  BY <1>3, <1>6, <1>7, <1>8, <1>9, <1>10
<1>12. ASSUME NEW t \in Background
       PROVE  t \in tracked' <=> child'[t] \in {"alive", "zombie_zero", "zombie_nonzero"}
  BY <1>7, <1>9, <1>10 DEF Owned, BackgroundProcessOwned
<1>13. ASSUME NEW t \in Background PROVE q'.reason[t] \notin RuntimeReason
  <2>1. CASE t \in Exited
    BY <1>4, <1>6, <1>7, <1>8, <2>1 DEF WhyOf, ExitReason, RuntimeReason
  <2>2. CASE t \notin Exited
    BY <1>3, <1>6, <1>7, <1>8, <2>2 DEF Owned, BackgroundProcessOwned
  <2>3. QED
    BY <2>1, <2>2
<1>14. \A t \in Background : deadline'[t] = "none"
  BY <1>10 DEF Owned
<1>15. \A t \in Background : q'.observed[t] = "none"
  BY <1>6, <1>7
<1>16. QED
  BY <1>11, <1>12, <1>13, <1>14, <1>15 DEF Owned, BackgroundProcessOwned

\* Every action keeps the ownership.
LEMMA OwnedStep == Sound /\ Owned /\ [Next]_vars => Owned'
<1> SUFFICES ASSUME Sound, Owned, [Next]_vars PROVE Owned'
  OBVIOUS
<1>a. WellFormed(q) /\ q \in Queue /\ Placed(q) /\ \A t \in Task : q.completed[t] = "none"
  BY DEF Sound, TypeOK, QueueConsistent, WellFormed, Consistent
<1>b. child \in [Task -> ChildState] /\ deadline \in [Task -> DeadlineState]
  BY DEF Sound, TypeOK
<1>c. \A t \in Foreground : t \in Task /\ t \notin Background
  BY ForegroundAssumption DEF Background
<1>d. \A t \in Background : /\ q.observed[t] = "none"
                            /\ q.reason[t] \notin RuntimeReason
                            /\ deadline[t] = "none"
                            /\ t \in Task
  BY DEF Owned, BackgroundProcessOwned, Background
<1>e. ASSUME SameRun(q, q'), UNCHANGED <<tracked, child, deadline>> PROVE Owned'
  BY <1>d, <1>e, OwnedByQueue DEF SameRun
<1>1. ASSUME NEW t \in Task, SubmitBackground(t) PROVE Owned'
  BY <1>a, <1>e, <1>1, SubmitRun DEF SubmitBackground
<1>2. ASSUME NEW t \in Task, NEW p \in Priority, SetTaskPriority(t, p) PROVE Owned'
  BY <1>a, <1>e, <1>2, SetPriorityRun DEF SetTaskPriority
<1>3. ASSUME NEW t \in Task, CancelTask(t) PROVE Owned'
  <2>1. /\ q'.running = q.running \ {t}
        /\ q'.observed = q.observed
        /\ \A u \in Task : q'.reason[u] = q.reason[u] \/ q'.reason[u] = "cancelled"
    BY <1>a, <1>3, CancelRun DEF CancelTask
  <2>2. \A u \in Background : q'.observed[u] = "none" /\ q'.reason[u] \notin RuntimeReason
    BY <1>d, <2>1 DEF RuntimeReason
  <2>3. CASE t \in q.running /\ t \in tracked
    <3>1. child' = [child EXCEPT ![t] = "reaped"] /\ tracked' = tracked \ {t}
      BY <1>3, <2>3 DEF CancelTask, Kill
    <3>2. UNCHANGED deadline
      BY <1>3 DEF CancelTask
    <3>3. QED
      BY <1>b, <1>d, <2>1, <2>2, <3>1, <3>2 DEF Owned, BackgroundProcessOwned
  <2>4. CASE ~(t \in q.running /\ t \in tracked)
    <3>1. UNCHANGED <<tracked, child, deadline>>
      BY <1>3, <2>4 DEF CancelTask, Kill
    <3>2. q'.running \cap Background = q.running \cap Background
      BY <2>1, <2>4 DEF Owned, BackgroundProcessOwned
    <3>3. QED
      BY <2>2, <3>1, <3>2, OwnedByQueue
  <2>5. QED
    BY <2>3, <2>4
<1>4. CASE CollectCycle
  <2>1. PICK q0 \in Tick(Polled(q)) : \E L \in SUBSET q0.queued :
            /\ Launch(q0, L, {})
            /\ q' = ToSnapshot(Start(Reserve(q0, L), L \cap Background))
    BY <1>4 DEF CollectCycle
  <2>2. PICK L \in SUBSET q0.queued :
            /\ Launch(q0, L, {})
            /\ q' = ToSnapshot(Start(Reserve(q0, L), L \cap Background))
    BY <2>1
  <2> DEFINE r == Reserve(q0, L)
             s == Start(r, L \cap Background)
  <2>3. q0 \in Queue /\ r \in Queue /\ s \in Queue
    BY <1>a, CycleWellFormed DEF WellFormed
  <2>4. SameRun(q0, r)
    BY <2>3, ReserveRun
  <2>5. s.running = r.running \cup (L \cap Background)
        /\ s.observed = r.observed /\ s.reason = r.reason
    <3> HIDE DEF r
    <3>1. QED
      BY <2>3, StartRun
  <2>6. SameRun(s, q')
    <3>1. q' = ToSnapshot(s)
      BY <2>2
    <3> HIDE DEF s
    <3>2. QED
      BY <2>3, <3>1, ToSnapshotRun
  <2> HIDE DEF r, s
  <2>7. QED
    BY <2>2, <2>4, <2>5, <2>6, CycleOwned DEF SameRun
<1>5. CASE CollectCycleFails
  <2>1. PICK q0 \in Tick(Polled(q)) :
            \E f \in Background \cap q0.queued : \E L \in SUBSET (q0.queued \ {f}) :
                /\ Launch(q0, L, {f})
                /\ q' = Reserve(Start(Reserve(q0, L), L \cap Background), {f})
    BY <1>5 DEF CollectCycleFails
  <2>2. PICK f \in Background \cap q0.queued : \E L \in SUBSET (q0.queued \ {f}) :
                /\ Launch(q0, L, {f})
                /\ q' = Reserve(Start(Reserve(q0, L), L \cap Background), {f})
    BY <2>1
  <2>3. PICK L \in SUBSET (q0.queued \ {f}) :
                /\ Launch(q0, L, {f})
                /\ q' = Reserve(Start(Reserve(q0, L), L \cap Background), {f})
    BY <2>2
  <2> DEFINE r == Reserve(q0, L)
             s == Start(r, L \cap Background)
  <2>4. L \in SUBSET q0.queued
    BY <2>3
  <2>5. q0 \in Queue /\ r \in Queue /\ s \in Queue
    BY <1>a, <2>4, CycleWellFormed DEF WellFormed
  <2>6. SameRun(q0, r)
    BY <2>5, ReserveRun
  <2>7. s.running = r.running \cup (L \cap Background)
        /\ s.observed = r.observed /\ s.reason = r.reason
    <3> HIDE DEF r
    <3>1. QED
      BY <2>5, StartRun
  <2>8. SameRun(s, q')
    <3>1. q' = Reserve(s, {f})
      BY <2>3
    <3> HIDE DEF s
    <3>2. QED
      BY <2>5, <3>1, ReserveRun
  <2> HIDE DEF r, s
  <2>9. QED
    BY <2>3, <2>4, <2>6, <2>7, <2>8, CycleOwned DEF SameRun
<1>6. CASE MonitorTick
  <2> DEFINE why == [t \in Task |-> IF t \in q.running THEN "pid_disappeared"
                                                       ELSE "attach_timeout"]
  <2>1. /\ q' = PushRuntime(q, Vanished \cup Overdue, why)
        /\ UNCHANGED <<tracked, child, deadline>>
    BY <1>6 DEF MonitorTick
  <2> HIDE DEF why
  <2>2. /\ q'.running = q.running /\ q'.reason = q.reason
        /\ \A t \in Task : q'.observed[t] =
              IF t \in Vanished \cup Overdue /\ q.observed[t] = "none"
              THEN why[t] ELSE q.observed[t]
    BY <1>a, <2>1, PushRuntimeRun
  <2>3. \A t \in Background : t \notin Vanished \cup Overdue
    BY <1>d DEF Vanished, Overdue, Owned, BackgroundProcessOwned
  <2>4. \A t \in Background : q'.observed[t] = "none"
    BY <1>d, <2>2, <2>3
  <2>5. QED
    BY <1>d, <2>1, <2>2, <2>4, OwnedByQueue
<1>7. ASSUME NEW t \in Foreground, CliStep(t) PROVE Owned'
  <2>1. CASE SubmitForeground(t)
    BY <1>a, <1>e, <2>1, SubmitRun DEF SubmitForeground
  <2>2. CASE CliPoll(t)
    BY <1>e, <2>2 DEF CliPoll, SameRun
  <2>3. ASSUME NEW s \in ChildState, child' = [child EXCEPT ![t] = s],
               UNCHANGED <<tracked, deadline>>, SameRun(q, q')
        PROVE  Owned'
    BY <1>b, <1>c, <2>3 DEF Owned, BackgroundProcessOwned, SameRun
  <2>4. CASE CliSpawn(t)
    BY <1>e, <2>3, <2>4 DEF CliSpawn, SameRun, ChildState
  <2>5. CASE ConfirmForegroundLaunch(t)
    <3>1. /\ q' = Start(q, {t} \cap q.reserved)
          /\ UNCHANGED <<tracked, deadline>>
          /\ UNCHANGED child \/ child' = [child EXCEPT ![t] = "reaped"]
      BY <2>5 DEF ConfirmForegroundLaunch
    <3>2. /\ q'.running = q.running \cup ({t} \cap q.reserved)
          /\ q'.observed = q.observed /\ q'.reason = q.reason
      BY <1>a, <3>1, StartRun
    <3>3. q'.running \cap Background = q.running \cap Background
      BY <1>c, <3>2
    <3>4. ASSUME NEW u \in Background PROVE child'[u] = child[u]
      <4>1. u # t /\ u \in Task
        BY <1>c DEF Background
      <4>2. CASE child' = [child EXCEPT ![t] = "reaped"]
        BY <1>b, <4>1, <4>2
      <4>3. QED
        BY <3>1, <4>2
    <3>5. QED
      BY <3>1, <3>2, <3>3, <3>4 DEF Owned, BackgroundProcessOwned
  <2>6. CASE FailForegroundLaunch(t)
    <3> DEFINE why == [u \in Task |-> "launch_failed"]
               c == PushRuntime(q, {t}, why)
    <3>1. /\ UNCHANGED q \/ q' \in Tick(c)
          /\ UNCHANGED <<tracked, child, deadline>>
      BY <2>6 DEF FailForegroundLaunch
    <3>2. why \in [Task -> RuntimeReason]
      BY DEF RuntimeReason
    <3> HIDE DEF why
    <3>3. c \in Queue /\ Placed(c)
      BY <1>a, <3>2, PushRuntimeWellFormed DEF WellFormed, Consistent
    <3>4. /\ c.running = q.running /\ c.reason = q.reason /\ c.completed = q.completed
          /\ \A u \in Task : c.observed[u] =
                IF u \in {t} /\ q.observed[u] = "none" THEN why[u] ELSE q.observed[u]
      BY <1>a, PushRuntimeRun
    <3> HIDE DEF c
    <3>5. \A u \in Background : c.completed[u] = "none" /\ c.observed[u] = "none"
      BY <1>a, <1>c, <1>d, <3>4
    <3>6. CASE q' \in Tick(c)
      BY <3>1, <3>3, <3>4, <3>5, <3>6, TickOfForeground
    <3>7. CASE UNCHANGED q
      BY <1>e, <3>1, <3>7 DEF SameRun
    <3>8. QED
      BY <3>1, <3>6, <3>7
  <2>7. CASE CliReap(t)
    BY <2>3, <2>7 DEF CliReap, SameRun, ChildState
  <2>8. CASE FinishForegroundTask(t)
    <3> DEFINE code == IF cli[t] = "exited_zero" THEN "exit_zero" ELSE "exit_nonzero"
               exit == [u \in Task |-> code]
               c == PushCompletion(q, {t}, exit)
    <3>1. /\ UNCHANGED q \/ q' \in Tick(c)
          /\ UNCHANGED <<tracked, child, deadline>>
      BY <2>8 DEF FinishForegroundTask
    <3>2. exit \in [Task -> ExitReason]
      BY DEF ExitReason
    <3> HIDE DEF exit
    <3>3. c \in Queue
      BY <1>a, <3>2, PushCompletionType
    <3>4. /\ SameRun(q, c)
          /\ \A u \in Task : c.completed[u] =
                IF u \in {t} /\ q.completed[u] = "none" THEN exit[u] ELSE q.completed[u]
      BY <1>a, PushCompletionRun
    <3>5. Placed(c)
      BY <1>a DEF PushCompletion, Queue, Placed
    <3> HIDE DEF c
    <3>6. \A u \in Background : c.completed[u] = "none" /\ c.observed[u] = "none"
      BY <1>a, <1>c, <1>d, <3>4 DEF SameRun
    <3>7. CASE q' \in Tick(c)
      BY <3>1, <3>3, <3>4, <3>5, <3>6, <3>7, TickOfForeground DEF SameRun
    <3>8. CASE UNCHANGED q
      BY <1>e, <3>1, <3>8 DEF SameRun
    <3>9. QED
      BY <3>1, <3>7, <3>8
  <2>9. CASE CliInterruptPolling(t)
    <3>1. /\ q'.running = q.running \ {t}
          /\ q'.observed = q.observed
          /\ \A u \in Task : q'.reason[u] = q.reason[u] \/ q'.reason[u] = "cancelled"
          /\ UNCHANGED <<tracked, child, deadline>>
      BY <1>a, <1>c, <2>9, CancelRun DEF CliInterruptPolling
    <3>2. q'.running \cap Background = q.running \cap Background
      BY <1>c, <3>1
    <3>3. \A u \in Background : q'.reason[u] \notin RuntimeReason
      BY <1>d, <3>1 DEF RuntimeReason
    <3>4. QED
      BY <1>d, <3>1, <3>2, <3>3, OwnedByQueue
  <2>10. CASE CliInterruptLaunched(t)
    BY <1>e, <2>3, <2>10 DEF CliInterruptLaunched, SameRun, ChildState
  <2>11. CASE CliDies(t)
    BY <1>e, <2>11 DEF CliDies, SameRun
  <2>12. QED
    BY <1>7, <2>1, <2>2, <2>4, <2>5, <2>6, <2>7, <2>8, <2>9, <2>10, <2>11 DEF CliStep
<1>8. ASSUME NEW t \in Task, ChildExits(t) PROVE Owned'
  <2>1. PICK s \in (IF Parented(t) THEN {"zombie_zero", "zombie_nonzero"} ELSE {"reaped"}) :
            child' = [child EXCEPT ![t] = s]
    BY <1>8 DEF ChildExits
  <2>2. UNCHANGED <<q, tracked, deadline>> /\ child[t] = "alive"
    BY <1>8 DEF ChildExits
  <2>3. t \in Background => t \in tracked /\ s \in {"zombie_zero", "zombie_nonzero"}
    BY <2>1, <2>2 DEF Parented, Owned, BackgroundProcessOwned
  <2>4. QED
    BY <1>b, <2>1, <2>2, <2>3 DEF Owned, BackgroundProcessOwned
<1>9. ASSUME NEW t \in Task, ZombieCollected(t) PROVE Owned'
  <2>1. t \notin Background
    BY <1>9 DEF ZombieCollected, Zombie, Parented, Owned, BackgroundProcessOwned
  <2>2. QED
    BY <1>b, <1>9, <2>1 DEF ZombieCollected, Owned, BackgroundProcessOwned
<1>10. ASSUME NEW t \in Task, DeadlinePasses(t) PROVE Owned'
  BY <1>b, <1>d, <1>10 DEF DeadlinePasses, Owned, BackgroundProcessOwned
<1>11. ASSUME UNCHANGED vars PROVE Owned'
  BY <1>e, <1>11 DEF vars, SameRun
<1>12. QED
  BY <1>1, <1>2, <1>3, <1>4, <1>5, <1>6, <1>7, <1>8, <1>9, <1>10, <1>11 DEF Next

\* The runner tracks exactly the running background tasks and their processes,
\* and the runtime monitor never writes one of them off, whichever order cycles,
\* failing launches, cancellations, exits and monitor ticks interleave in.
THEOREM BackgroundAlwaysOwned == Spec => []BackgroundProcessOwned
<1>1. Sound /\ [Next]_vars => Sound'
  BY QueueStep, ProcessesStep
     DEF Sound, TypeOK, ProcessesOK, QueueConsistent, WellFormed
<1>2. Owned => BackgroundProcessOwned
  BY DEF Owned
<1>3. QED
  BY <1>1, <1>2, SoundInit, OwnedInit, OwnedStep, PTL DEF Spec

-----------------------------------------------------------------------------
(* The foreground tasks, whose processes the daemon does not see. *)

\* Inductive together with Sound: how far the command line is says whether it has
\* spawned the process, only the report of a failed launch writes launch_failed,
\* and nothing stays in the buffer that was observed of a process still there.
Followed(t) ==
    /\ cli[t] \in {"off", "polling", "launching"} => child[t] = "unborn"
    /\ cli[t] = "spawned" => child[t] # "unborn"
    /\ cli[t] = "launch_failed" => child[t] \in {"unborn", "reaped"}
    /\ t \in q.running =>
          /\ child[t] # "unborn"
          /\ cli[t] \notin {"off", "polling", "launching", "spawned"}
    /\ q.reason[t] = "launch_failed" => cli[t] = "done" /\ child[t] \in {"unborn", "reaped"}
    /\ q.observed[t] # "launch_failed"
    /\ q.observed[t] = "pid_disappeared" => child[t] = "reaped"

ForegroundFollowed == \A t \in Foreground : Followed(t)

\* No command line has begun.
LEMMA FollowedInit == Init => ForegroundFollowed
BY ForegroundAssumption DEF Init, ForegroundFollowed, Followed, EmptyQueue

\* A step that leaves the command line and the process of a task alone, starts it
\* not and brings no news of it.
LEMMA FollowedByQueue ==
    ASSUME NEW t \in Foreground, Followed(t),
           cli'[t] = cli[t], child'[t] = child[t],
           t \in q'.running => t \in q.running,
           q'.reason[t] = "launch_failed" => q.reason[t] = "launch_failed",
           q'.observed[t] # "launch_failed",
           q'.observed[t] = "pid_disappeared" => child[t] = "reaped"
    PROVE  Followed(t)'
BY DEF Followed

\* A tick ends tasks for what was observed of them and writes nothing else down.
LEMMA TickReason ==
    ASSUME NEW c \in Queue, Placed(c), NEW d \in Tick(c), NEW t \in Task,
           c.completed[t] \in {"none"} \cup ExitReason
    PROVE  /\ d.running \subseteq c.running
           /\ d.observed[t] = "none"
           /\ d.reason[t] = c.reason[t] \/ d.reason[t] = c.observed[t]
              \/ d.reason[t] \in ExitReason
<1>1. CASE t \in EndedBy(c)
  <2>1. d.reason[t] = WhyOf(c)[t]
    BY <1>1, TickFacts
  <2>2. WhyOf(c)[t] = c.observed[t] \/ WhyOf(c)[t] \in ExitReason
    BY DEF WhyOf, FinishedBy
  <2>3. QED
    BY <2>1, <2>2, TickFacts
<1>2. CASE t \notin EndedBy(c)
  BY <1>2, TickFacts
<1>3. QED
  BY <1>1, <1>2

\* So it keeps what is known of a foreground task it brings no news of.
LEMMA TickFollowed ==
    ASSUME NEW c \in Queue, Placed(c), NEW d \in Tick(c),
           NEW t \in Foreground, Followed(t),
           cli'[t] = cli[t], child'[t] = child[t],
           c.running = q.running, c.reason[t] = q.reason[t],
           c.observed[t] = q.observed[t],
           t \in q'.running => t \in d.running,
           q'.reason[t] = d.reason[t], q'.observed[t] = d.observed[t]
    PROVE  Followed(t)'
<1>1. t \in Task /\ c.completed[t] \in {"none"} \cup ExitReason
  BY ForegroundAssumption DEF Queue
<1>2. /\ d.running \subseteq c.running
      /\ d.observed[t] = "none"
      /\ d.reason[t] = c.reason[t] \/ d.reason[t] = c.observed[t]
         \/ d.reason[t] \in ExitReason
  BY <1>1, TickReason
<1>3. q.observed[t] # "launch_failed"
  BY DEF Followed
<1>4. q'.reason[t] = "launch_failed" => q.reason[t] = "launch_failed"
  BY <1>2, <1>3 DEF ExitReason
<1>5. QED
  BY <1>2, <1>4, FollowedByQueue


\* The cycle neither starts a foreground task nor touches its process.
LEMMA CycleFollowed ==
    ASSUME Sound, NEW t \in Foreground, Followed(t), UNCHANGED cli,
           NEW q0 \in Tick(Polled(q)), NEW L, NEW F, Launch(q0, L, F),
           q'.running = q0.running \cup (L \cap Background),
           q'.observed = q0.observed, q'.reason = q0.reason
    PROVE  Followed(t)'
<1> DEFINE exit == [u \in Task |-> ExitOf(u)]
           c == PushCompletion(q, Exited, exit)
<1>0. q \in Queue /\ WellFormed(q)
  BY DEF Sound, TypeOK, QueueConsistent, WellFormed
<1>1. c = Polled(q)
  BY DEF Polled
<1>2. c \in Queue /\ Placed(c)
  BY <1>0, <1>1, PolledFacts
<1>3. SameRun(q, c)
  <2> HIDE DEF exit
  <2>1. QED
    BY <1>0, PushCompletionRun
<1> HIDE DEF c, exit
<1>4. t \in Task /\ t \notin Background
  BY ForegroundAssumption DEF Background
<1>5. child'[t] = child[t]
  BY <1>4 DEF Launch, Exited, Sound, TypeOK
<1>6. t \in q'.running => t \in q0.running
  BY <1>4
<1>7. q0 \in Tick(c)
  BY <1>1
<1>8. QED
  BY <1>2, <1>3, <1>5, <1>6, <1>7, TickFollowed DEF SameRun

\* A call of the command line of another task leaves this one alone.
LEMMA OtherFollowed ==
    ASSUME Sound, NEW t \in Foreground, NEW u \in Foreground, u # t,
           CliStep(u), Followed(t)
    PROVE  Followed(t)'
<1>0. /\ q \in Queue /\ WellFormed(q) /\ Placed(q) /\ t \in Task
      /\ child \in [Task -> ChildState] /\ cli \in [Foreground -> CliState]
  BY ForegroundAssumption DEF Sound, TypeOK, QueueConsistent, WellFormed, Consistent
<1>1. ASSUME NEW from, NEW to, CliAt(u, from, to) PROVE cli'[t] = cli[t]
  BY <1>0, <1>1 DEF CliAt
<1>2. ASSUME NEW s, child' = [child EXCEPT ![u] = s] PROVE child'[t] = child[t]
  BY <1>0, <1>2
<1>3. ASSUME SameRun(q, q'), cli'[t] = cli[t], child'[t] = child[t] PROVE Followed(t)'
  BY <1>3 DEF SameRun, Followed
<1>4. CASE SubmitForeground(u)
  BY <1>0, <1>1, <1>3, <1>4, SubmitRun DEF SubmitForeground
<1>5. CASE CliPoll(u)
  BY <1>1, <1>3, <1>5 DEF CliPoll, SameRun
<1>6. CASE CliSpawn(u)
  BY <1>1, <1>2, <1>3, <1>6 DEF CliSpawn, SameRun
<1>7. CASE ConfirmForegroundLaunch(u)
  <2>1. /\ q'.running = q.running \cup ({u} \cap q.reserved)
        /\ q'.observed = q.observed /\ q'.reason = q.reason
    BY <1>0, <1>7, StartRun DEF ConfirmForegroundLaunch
  <2>2. cli'[t] = cli[t] /\ child'[t] = child[t]
    BY <1>1, <1>2, <1>7 DEF ConfirmForegroundLaunch
  <2>3. QED
    BY <2>1, <2>2 DEF Followed
<1>8. CASE FailForegroundLaunch(u)
  <2> DEFINE why == [v \in Task |-> "launch_failed"]
             c == PushRuntime(q, {u}, why)
  <2>1. /\ UNCHANGED q \/ q' \in Tick(c)
        /\ cli'[t] = cli[t] /\ child'[t] = child[t]
    BY <1>1, <1>8 DEF FailForegroundLaunch
  <2>2. why \in [Task -> RuntimeReason]
    BY DEF RuntimeReason
  <2> HIDE DEF why
  <2>3. c \in Queue /\ Placed(c)
    BY <1>0, <2>2, PushRuntimeWellFormed DEF WellFormed, Consistent
  <2>4. c.running = q.running /\ c.reason[t] = q.reason[t] /\ c.observed[t] = q.observed[t]
    BY <1>0, PushRuntimeRun
  <2> HIDE DEF c
  <2>5. QED
    BY <1>3, <2>1, <2>3, <2>4, TickFollowed DEF SameRun
<1>9. CASE CliReap(u)
  BY <1>1, <1>2, <1>3, <1>9 DEF CliReap, SameRun
<1>10. CASE FinishForegroundTask(u)
  <2> DEFINE code == IF cli[u] = "exited_zero" THEN "exit_zero" ELSE "exit_nonzero"
             exit == [v \in Task |-> code]
             c == PushCompletion(q, {u}, exit)
  <2>1. /\ UNCHANGED q \/ q' \in Tick(c)
        /\ cli'[t] = cli[t] /\ child'[t] = child[t]
    BY <1>1, <1>10 DEF FinishForegroundTask
  <2>2. exit \in [Task -> ExitReason]
    BY DEF ExitReason
  <2> HIDE DEF exit
  <2>3. c \in Queue
    BY <1>0, <2>2, PushCompletionType
  <2>4. SameRun(q, c)
    BY <1>0, PushCompletionRun
  <2>5. Placed(c)
    BY <1>0 DEF PushCompletion, Queue, Placed
  <2> HIDE DEF c
  <2>6. QED
    BY <1>3, <2>1, <2>3, <2>4, <2>5, TickFollowed DEF SameRun
<1>11. CASE CliInterruptPolling(u)
  <2>1. /\ q'.running = q.running \ {u}
        /\ q'.observed = q.observed
        /\ q'.reason[t] = q.reason[t] \/ q'.reason[t] = "cancelled"
    BY <1>0, <1>11, CancelRun, ForegroundAssumption DEF CliInterruptPolling
  <2>2. cli'[t] = cli[t] /\ child'[t] = child[t]
    BY <1>1, <1>11 DEF CliInterruptPolling
  <2>3. QED
    BY <2>1, <2>2 DEF Followed
<1>12. CASE CliInterruptLaunched(u)
  BY <1>1, <1>2, <1>3, <1>12 DEF CliInterruptLaunched, SameRun
<1>13. CASE CliDies(u)
  BY <1>0, <1>3, <1>13 DEF CliDies, SameRun
<1>14. QED
  BY <1>4, <1>5, <1>6, <1>7, <1>8, <1>9, <1>10, <1>11, <1>12, <1>13 DEF CliStep

\* Each call of its own command line takes a task one step further.
LEMMA OwnFollowed ==
    ASSUME Sound, NEW t \in Foreground, CliStep(t), Followed(t)
    PROVE  Followed(t)'
<1>0. /\ q \in Queue /\ WellFormed(q) /\ Placed(q) /\ t \in Task
      /\ child \in [Task -> ChildState] /\ cli \in [Foreground -> CliState]
  BY ForegroundAssumption DEF Sound, TypeOK, QueueConsistent, WellFormed, Consistent
<1>1. ASSUME NEW from, NEW to, CliAt(t, from, to) PROVE cli[t] = from /\ cli'[t] = to
  BY <1>0, <1>1 DEF CliAt
<1>2. ASSUME NEW s, child' = [child EXCEPT ![t] = s] PROVE child'[t] = s
  BY <1>0, <1>2
<1>3. CASE SubmitForeground(t)
  BY <1>0, <1>1, <1>3, SubmitRun DEF SubmitForeground, SameRun, Followed
<1>4. CASE CliPoll(t)
  BY <1>0, <1>1, <1>4 DEF CliPoll, Followed
<1>5. CASE CliSpawn(t)
  BY <1>1, <1>2, <1>5 DEF CliSpawn, Followed
<1>6. CASE ConfirmForegroundLaunch(t)
  <2>1. /\ q'.running = q.running \cup ({t} \cap q.reserved)
        /\ q'.observed = q.observed /\ q'.reason = q.reason
    BY <1>0, <1>6, StartRun DEF ConfirmForegroundLaunch
  <2>2. /\ cli[t] = "spawned"
        /\ \/ cli'[t] = "attached" /\ child'[t] = child[t]
           \/ cli'[t] = "launch_failed" /\ child'[t] = "reaped"
    BY <1>1, <1>2, <1>6 DEF ConfirmForegroundLaunch
  <2>3. QED
    BY <2>1, <2>2 DEF Followed
<1>7. CASE FailForegroundLaunch(t)
  <2> DEFINE why == [v \in Task |-> "launch_failed"]
             c == PushRuntime(q, {t}, why)
  <2>1. /\ UNCHANGED q \/ q' \in Tick(c)
        /\ cli[t] = "launch_failed" /\ cli'[t] = "done" /\ child'[t] = child[t]
    BY <1>1, <1>7 DEF FailForegroundLaunch
  <2>2. why \in [Task -> RuntimeReason]
    BY DEF RuntimeReason
  <2> HIDE DEF why
  <2>3. c \in Queue /\ Placed(c) /\ c.completed[t] \in {"none"} \cup ExitReason
    BY <1>0, <2>2, PushRuntimeWellFormed DEF WellFormed, Consistent
  <2>4. c.running = q.running
    BY <1>0, PushRuntimeRun
  <2> HIDE DEF c
  <2>5. q' \in Tick(c) => q'.running \subseteq q.running /\ q'.observed[t] = "none"
    BY <1>0, <2>3, <2>4, TickReason
  <2>6. QED
    BY <2>1, <2>5 DEF Followed
<1>8. CASE CliReap(t)
  BY <1>1, <1>2, <1>8 DEF CliReap, Followed
<1>9. CASE FinishForegroundTask(t)
  <2> DEFINE code == IF cli[t] = "exited_zero" THEN "exit_zero" ELSE "exit_nonzero"
             exit == [v \in Task |-> code]
             c == PushCompletion(q, {t}, exit)
  <2>1. /\ UNCHANGED q \/ q' \in Tick(c)
        /\ cli[t] \in {"exited_zero", "exited_nonzero"}
        /\ cli'[t] = "done" /\ child'[t] = child[t]
    BY <1>1, <1>9 DEF FinishForegroundTask
  <2>2. exit \in [Task -> ExitReason]
    BY DEF ExitReason
  <2> HIDE DEF exit
  <2>3. c \in Queue /\ c.completed[t] \in {"none"} \cup ExitReason
    BY <1>0, <2>2, PushCompletionType DEF Queue
  <2>4. SameRun(q, c)
    BY <1>0, PushCompletionRun
  <2>5. Placed(c)
    BY <1>0 DEF PushCompletion, Queue, Placed
  <2> HIDE DEF c
  <2>6. q' \in Tick(c) =>
            /\ q'.running \subseteq q.running /\ q'.observed[t] = "none"
            /\ q'.reason[t] = q.reason[t] \/ q'.reason[t] = q.observed[t]
               \/ q'.reason[t] \in ExitReason
    BY <1>0, <2>3, <2>4, <2>5, TickReason DEF SameRun
  <2>7. QED
    BY <2>1, <2>6 DEF Followed, ExitReason
<1>10. CASE CliInterruptPolling(t)
  <2>1. /\ q'.running = q.running \ {t}
        /\ q'.observed = q.observed
        /\ q'.reason[t] = q.reason[t] \/ q'.reason[t] = "cancelled"
    BY <1>0, <1>10, CancelRun DEF CliInterruptPolling
  <2>2. cli[t] = "polling" /\ cli'[t] = "done" /\ child'[t] = child[t]
    BY <1>1, <1>10 DEF CliInterruptPolling
  <2>3. QED
    BY <2>1, <2>2 DEF Followed
<1>11. CASE CliInterruptLaunched(t)
  BY <1>1, <1>2, <1>11 DEF CliInterruptLaunched, Followed
<1>12. CASE CliDies(t)
  BY <1>0, <1>12 DEF CliDies, Followed
<1>13. QED
  BY <1>3, <1>4, <1>5, <1>6, <1>7, <1>8, <1>9, <1>10, <1>11, <1>12 DEF CliStep


\* Every action keeps what is known of the foreground tasks.
LEMMA FollowedStep ==
    Sound /\ Owned /\ ForegroundFollowed /\ [Next]_vars => ForegroundFollowed'
<1> SUFFICES ASSUME Sound, Owned, ForegroundFollowed, [Next]_vars, NEW t \in Foreground
             PROVE  Followed(t)'
  BY DEF ForegroundFollowed
<1>0. /\ q \in Queue /\ WellFormed(q) /\ Placed(q) /\ t \in Task /\ t \notin Background
      /\ child \in [Task -> ChildState] /\ tracked \subseteq Background
      /\ \A u \in Task : q.completed[u] = "none"
  BY ForegroundAssumption
     DEF Sound, TypeOK, QueueConsistent, WellFormed, Consistent, Background
<1>a. Followed(t)
  BY DEF ForegroundFollowed
<1>b. ASSUME SameRun(q, q'), cli'[t] = cli[t], child'[t] = child[t] PROVE Followed(t)'
  BY <1>a, <1>b DEF SameRun, Followed
<1>1. ASSUME NEW u \in Task, SubmitBackground(u) PROVE Followed(t)'
  BY <1>0, <1>b, <1>1, SubmitRun DEF SubmitBackground
<1>2. ASSUME NEW u \in Task, NEW p \in Priority, SetTaskPriority(u, p) PROVE Followed(t)'
  BY <1>0, <1>b, <1>2, SetPriorityRun DEF SetTaskPriority
<1>3. ASSUME NEW u \in Task, CancelTask(u) PROVE Followed(t)'
  <2>1. /\ q'.running = q.running \ {u}
        /\ q'.observed = q.observed
        /\ q'.reason[t] = q.reason[t] \/ q'.reason[t] = "cancelled"
    BY <1>0, <1>3, CancelRun DEF CancelTask
  <2>2. cli'[t] = cli[t] /\ child'[t] = child[t]
    BY <1>0, <1>3 DEF CancelTask, Kill
  <2>3. QED
    BY <1>a, <2>1, <2>2 DEF Followed
<1>4. CASE CollectCycle
  <2>1. PICK q0 \in Tick(Polled(q)) : \E L \in SUBSET q0.queued :
            /\ Launch(q0, L, {})
            /\ q' = ToSnapshot(Start(Reserve(q0, L), L \cap Background))
    BY <1>4 DEF CollectCycle
  <2>2. PICK L \in SUBSET q0.queued :
            /\ Launch(q0, L, {})
            /\ q' = ToSnapshot(Start(Reserve(q0, L), L \cap Background))
    BY <2>1
  <2> DEFINE r == Reserve(q0, L)
             s == Start(r, L \cap Background)
  <2>3. q0 \in Queue /\ r \in Queue /\ s \in Queue
    BY <1>0, CycleWellFormed DEF WellFormed
  <2>4. SameRun(q0, r)
    BY <2>3, ReserveRun
  <2>5. s.running = r.running \cup (L \cap Background)
        /\ s.observed = r.observed /\ s.reason = r.reason
    <3> HIDE DEF r
    <3>1. QED
      BY <2>3, StartRun
  <2>6. SameRun(s, q')
    <3>1. q' = ToSnapshot(s)
      BY <2>2
    <3> HIDE DEF s
    <3>2. QED
      BY <2>3, <3>1, ToSnapshotRun
  <2>7. UNCHANGED cli
    BY <1>4 DEF CollectCycle
  <2> HIDE DEF r, s
  <2>8. QED
    BY <1>a, <2>2, <2>4, <2>5, <2>6, <2>7, CycleFollowed DEF SameRun
<1>5. CASE CollectCycleFails
  <2>1. PICK q0 \in Tick(Polled(q)) :
            \E f \in Background \cap q0.queued : \E L \in SUBSET (q0.queued \ {f}) :
                /\ Launch(q0, L, {f})
                /\ q' = Reserve(Start(Reserve(q0, L), L \cap Background), {f})
    BY <1>5 DEF CollectCycleFails
  <2>2. PICK f \in Background \cap q0.queued : \E L \in SUBSET (q0.queued \ {f}) :
                /\ Launch(q0, L, {f})
                /\ q' = Reserve(Start(Reserve(q0, L), L \cap Background), {f})
    BY <2>1
  <2>3. PICK L \in SUBSET (q0.queued \ {f}) :
                /\ Launch(q0, L, {f})
                /\ q' = Reserve(Start(Reserve(q0, L), L \cap Background), {f})
    BY <2>2
  <2> DEFINE r == Reserve(q0, L)
             s == Start(r, L \cap Background)
  <2>4. L \in SUBSET q0.queued
    BY <2>3
  <2>5. q0 \in Queue /\ r \in Queue /\ s \in Queue
    BY <1>0, <2>4, CycleWellFormed DEF WellFormed
  <2>6. SameRun(q0, r)
    BY <2>5, ReserveRun
  <2>7. s.running = r.running \cup (L \cap Background)
        /\ s.observed = r.observed /\ s.reason = r.reason
    <3> HIDE DEF r
    <3>1. QED
      BY <2>5, StartRun
  <2>8. SameRun(s, q')
    <3>1. q' = Reserve(s, {f})
      BY <2>3
    <3> HIDE DEF s
    <3>2. QED
      BY <2>5, <3>1, ReserveRun
  <2>9. UNCHANGED cli
    BY <1>5 DEF CollectCycleFails
  <2> HIDE DEF r, s
  <2>10. QED
    BY <1>a, <2>3, <2>6, <2>7, <2>8, <2>9, CycleFollowed DEF SameRun
<1>6. CASE MonitorTick
  <2> DEFINE why == [u \in Task |-> IF u \in q.running THEN "pid_disappeared"
                                                       ELSE "attach_timeout"]
  <2>1. /\ q' = PushRuntime(q, Vanished \cup Overdue, why)
        /\ UNCHANGED <<child, cli>>
    BY <1>6 DEF MonitorTick
  <2>2. why[t] = IF t \in q.running THEN "pid_disappeared" ELSE "attach_timeout"
    BY <1>0
  <2> HIDE DEF why
  <2>3. /\ q'.running = q.running /\ q'.reason = q.reason
        /\ q'.observed[t] =
              IF t \in Vanished \cup Overdue /\ q.observed[t] = "none"
              THEN why[t] ELSE q.observed[t]
    BY <1>0, <2>1, PushRuntimeRun
  <2>4. t \in Vanished \cup Overdue /\ t \in q.running => child[t] = "reaped"
    BY <1>0 DEF Vanished, Overdue, Placed
  <2>5. QED
    BY <1>a, <2>1, <2>2, <2>3, <2>4 DEF Followed
<1>7. ASSUME NEW u \in Foreground, CliStep(u) PROVE Followed(t)'
  BY <1>a, <1>7, OtherFollowed, OwnFollowed
<1>8. ASSUME NEW u \in Task, ChildExits(u) PROVE Followed(t)'
  <2>1. PICK s \in (IF Parented(u) THEN {"zombie_zero", "zombie_nonzero"} ELSE {"reaped"}) :
            child' = [child EXCEPT ![u] = s]
    BY <1>8 DEF ChildExits
  <2>2. UNCHANGED <<q, cli>> /\ child[u] = "alive"
    BY <1>8 DEF ChildExits
  <2>3. QED
    BY <1>0, <1>a, <2>1, <2>2 DEF Followed
<1>9. ASSUME NEW u \in Task, ZombieCollected(u) PROVE Followed(t)'
  BY <1>0, <1>a, <1>9 DEF ZombieCollected, Zombie, Followed
<1>10. ASSUME NEW u \in Task, DeadlinePasses(u) PROVE Followed(t)'
  BY <1>b, <1>10 DEF DeadlinePasses, SameRun
<1>11. ASSUME UNCHANGED vars PROVE Followed(t)'
  BY <1>b, <1>11 DEF vars, SameRun
<1>12. QED
  BY <1>1, <1>2, <1>3, <1>4, <1>5, <1>6, <1>7, <1>8, <1>9, <1>10, <1>11 DEF Next

\* A foreground task counts as running only once its process has been spawned and
\* confirmed, and when its launch is reported as failed no process of it is left,
\* for every number of tasks and every interleaving of the command lines with the
\* cycle, the monitor and cancellations.
THEOREM ForegroundAlwaysKnown == Spec => []ForegroundProcessKnown
<1>1. Sound /\ [Next]_vars => Sound'
  BY QueueStep, ProcessesStep
     DEF Sound, TypeOK, ProcessesOK, QueueConsistent, WellFormed
<1>2. ForegroundFollowed => ForegroundProcessKnown
  BY DEF ForegroundFollowed, Followed, ForegroundProcessKnown
<1>3. QED
  BY <1>1, <1>2, SoundInit, OwnedInit, OwnedStep, FollowedInit, FollowedStep, PTL DEF Spec

-----------------------------------------------------------------------------
(* The ends that are written down and forgotten. *)

\* What one action may do to the ended tasks and their reasons: nothing,
Still ==
    /\ q.running \subseteq q'.running /\ q'.reason = q.reason
    /\ q'.terminal = q.terminal /\ Known(q) \subseteq Known(q')

\* a cancellation,
Cancels == \E t \in Task : q' = Cancel(q, t)

\* or a tick d of the queue c, which is q with what the handler has pushed: of a
\* background task nothing but the exit code that its process has left, of any
\* other task nothing but a failed launch or an exit code.
Ticks(c, d) ==
    /\ c \in Queue /\ Placed(c) /\ d \in Tick(c)
    /\ c.running = q.running /\ c.reason = q.reason /\ c.terminal = q.terminal
    /\ c.reported = q.reported /\ Known(c) = Known(q)
    /\ \A t \in Task : c.observed[t] \in {q.observed[t], "launch_failed"}
    /\ \A t \in Background : /\ c.observed[t] = q.observed[t]
                             /\ c.completed[t] \in {"none", ExitOf(t)}
    /\ d.running \subseteq q'.running /\ q'.reason = d.reason
    /\ q'.terminal = d.terminal /\ Known(d) \subseteq Known(q')

Moves == Still \/ Cancels \/ \E c, d : Ticks(c, d)

\* The cycle ticks, and what it launches and reports it ends not.
LEMMA ReadingMoves ==
    ASSUME Sound, NEW q0 \in Tick(Polled(q)), NEW L \in SUBSET q0.queued,
           NEW s, s = Start(Reserve(q0, L), L \cap Background),
           q' = ToSnapshot(s) \/ \E f \in Task : q' = Reserve(s, {f})
    PROVE  Moves
<1> DEFINE exit == [t \in Task |-> ExitOf(t)]
           c == PushCompletion(q, Exited, exit)
<1>0. q \in Queue /\ WellFormed(q) /\ \A t \in Task : q.completed[t] = "none"
  BY DEF Sound, TypeOK, QueueConsistent, WellFormed, Consistent
<1>1. c = Polled(q)
  BY DEF Polled
<1>2. c \in Queue /\ Placed(c)
  BY <1>0, <1>1, PolledFacts
<1>3. /\ c.queued = q.queued /\ c.reserved = q.reserved /\ c.running = q.running
      /\ c.terminal = q.terminal /\ c.reason = q.reason /\ c.reported = q.reported
      /\ c.observed = q.observed
      /\ \A t \in Task : c.completed[t] \in {"none", ExitOf(t)}
  <2>1. exit \in [Task -> ExitReason]
    BY DEF ExitOf, ExitReason
  <2>2. \A t \in Task : exit[t] = ExitOf(t)
    OBVIOUS
  <2> HIDE DEF exit
  <2>3. QED
    BY <1>0, <2>2, PushCompletionRun DEF SameRun, PushCompletion, Queue
<1>4. q0 \in Tick(c) /\ WellFormed(q0) /\ WellFormed(Reserve(q0, L)) /\ WellFormed(s)
  BY <1>0, <1>1, CycleWellFormed
<1> HIDE DEF c, exit
<1> DEFINE r == Reserve(q0, L)
<1>5. /\ r \in Queue /\ s \in Queue /\ r.running = q0.running /\ r.reason = q0.reason
      /\ r.terminal = q0.terminal /\ Known(q0) \subseteq Known(r)
  BY <1>4, ReserveRun, ReserveEnds DEF SameRun, WellFormed
<1> HIDE DEF r
<1>6. /\ q0.running \subseteq s.running /\ s.reason = q0.reason
      /\ s.terminal = q0.terminal /\ Known(q0) \subseteq Known(s)
  <2> DEFINE B == L \cap Background
  <2>1. s = Start(r, B)
    BY DEF r
  <2> HIDE DEF B
  <2>2. s.running = r.running \cup B /\ s.reason = r.reason
    BY <1>5, <2>1, StartRun
  <2>3. s.terminal = r.terminal /\ Known(r) \subseteq Known(s)
    <3>1. \A c0 \in Queue : /\ Start(c0, B).terminal = c0.terminal
                            /\ Known(c0) \subseteq Known(Start(c0, B))
      BY StartEnds
    <3>2. r \in Queue
      BY <1>5
    <3>3. QED
      BY <3>1, <3>2, <2>1
  <2>4. QED
    BY <1>5, <2>2, <2>3
<1>7. /\ q0.running \subseteq q'.running /\ q'.reason = q0.reason
      /\ q'.terminal = q0.terminal /\ Known(q0) \subseteq Known(q')
  <2>1. CASE q' = ToSnapshot(s)
    BY <1>5, <1>6, <2>1 DEF ToSnapshot, Queue, Known
  <2>2. CASE \E f \in Task : q' = Reserve(s, {f})
    <3>1. PICK f \in Task : q' = Reserve(s, {f})
      BY <2>2
    <3>2. q'.running = s.running /\ q'.reason = s.reason
      BY <1>5, <3>1, ReserveRun DEF SameRun
    <3>3. q'.terminal = s.terminal /\ Known(s) \subseteq Known(q')
      BY <1>5, <3>1, ReserveEnds
    <3>4. QED
      BY <1>6, <3>2, <3>3
  <2>3. QED
    BY <2>1, <2>2
<1>8. \A t \in Background : t \in Task
  BY DEF Background
<1>9. Ticks(c, q0)
  BY <1>2, <1>3, <1>4, <1>7, <1>8 DEF Ticks, Known
<1>10. QED
  BY <1>9 DEF Moves

\* Whatever an action does, it does one of the three to the ends.
LEMMA MovesStep == Sound /\ [Next]_vars => Moves
<1> SUFFICES ASSUME Sound, [Next]_vars PROVE Moves
  OBVIOUS
<1>0. /\ q \in Queue /\ WellFormed(q) /\ Placed(q)
      /\ \A t \in Task : q.completed[t] = "none"
      /\ Foreground \subseteq Task /\ Background \subseteq Task
      /\ Foreground \cap Background = {}
  BY ForegroundAssumption
     DEF Sound, TypeOK, QueueConsistent, WellFormed, Consistent, Background
<1>a. q' = q => Moves
  BY DEF Moves, Still
<1>1. ASSUME NEW t, NEW p, q' = Submit(q, t, p) PROVE Moves
  BY <1>0, <1>1 DEF Submit, Queue, Moves, Still, Known
<1>2. ASSUME NEW t, NEW p, q' = SetPriority(q, t, p) PROVE Moves
  BY <1>0, <1>2 DEF SetPriority, Queue, Moves, Still, Known
<1>3. ASSUME NEW t \in Task, q' = Cancel(q, t) PROVE Moves
  BY <1>3 DEF Moves, Cancels
<1>4. CASE CollectCycle
  BY <1>4, ReadingMoves DEF CollectCycle
<1>5. CASE CollectCycleFails
  <2>1. PICK q0 \in Tick(Polled(q)) :
            \E f \in Background \cap q0.queued : \E L \in SUBSET (q0.queued \ {f}) :
                q' = Reserve(Start(Reserve(q0, L), L \cap Background), {f})
    BY <1>5 DEF CollectCycleFails
  <2>2. PICK f \in Background \cap q0.queued : \E L \in SUBSET (q0.queued \ {f}) :
                q' = Reserve(Start(Reserve(q0, L), L \cap Background), {f})
    BY <2>1
  <2>3. PICK L \in SUBSET (q0.queued \ {f}) :
                q' = Reserve(Start(Reserve(q0, L), L \cap Background), {f})
    BY <2>2
  <2>4. L \in SUBSET q0.queued /\ f \in Task
    BY <1>0
  <2>5. QED
    BY <2>3, <2>4, ReadingMoves
<1>6. ASSUME NEW T, NEW why, q' = PushRuntime(q, T, why) PROVE Moves
  BY <1>0, <1>6 DEF PushRuntime, Queue, Moves, Still, Known
<1>7. ASSUME NEW T, q' = Start(q, T) PROVE Moves
  <2>1. q'.running = q.running \cup T /\ q'.reason = q.reason
    BY <1>0, <1>7, StartRun
  <2>2. \A c0 \in Queue : /\ Start(c0, T).terminal = c0.terminal
                          /\ Known(c0) \subseteq Known(Start(c0, T))
    BY StartEnds
  <2>3. QED
    BY <1>0, <1>7, <2>1, <2>2 DEF Moves, Still
<1>8. ASSUME NEW t \in Foreground, FailForegroundLaunch(t) PROVE Moves
  <2> DEFINE why == [v \in Task |-> "launch_failed"]
             c == PushRuntime(q, {t}, why)
  <2>1. UNCHANGED q \/ q' \in Tick(c)
    BY <1>8 DEF FailForegroundLaunch
  <2>2. why \in [Task -> RuntimeReason] /\ \A v \in Task : why[v] = "launch_failed"
    BY DEF RuntimeReason
  <2> HIDE DEF why
  <2>3. c \in Queue /\ Placed(c)
    BY <1>0, <2>2, PushRuntimeWellFormed DEF WellFormed, Consistent
  <2>4. /\ c.running = q.running /\ c.reserved = q.reserved
        /\ c.completed = q.completed /\ c.reason = q.reason
        /\ \A u \in Task : c.observed[u] =
              IF u \in {t} /\ q.observed[u] = "none" THEN why[u] ELSE q.observed[u]
    BY <1>0, PushRuntimeRun
  <2>5. c.queued = q.queued /\ c.terminal = q.terminal /\ c.reported = q.reported
    BY <1>0 DEF PushRuntime, Queue
  <2> HIDE DEF c
  <2>6. \A u \in Task : c.observed[u] \in {q.observed[u], "launch_failed"}
    BY <2>2, <2>4
  <2>7. \A u \in Background : c.observed[u] = q.observed[u] /\ c.completed[u] = "none"
    BY <1>0, <2>4
  <2>8. ASSUME q' \in Tick(c) PROVE Ticks(c, q')
    BY <2>3, <2>4, <2>5, <2>6, <2>7, <2>8 DEF Ticks, Known
  <2>9. QED
    BY <1>a, <2>1, <2>8 DEF Moves
<1>9. ASSUME NEW t \in Foreground, FinishForegroundTask(t) PROVE Moves
  <2> DEFINE code == IF cli[t] = "exited_zero" THEN "exit_zero" ELSE "exit_nonzero"
             exit == [v \in Task |-> code]
             c == PushCompletion(q, {t}, exit)
  <2>1. UNCHANGED q \/ q' \in Tick(c)
    BY <1>9 DEF FinishForegroundTask
  <2>2. exit \in [Task -> ExitReason]
    BY DEF ExitReason
  <2> HIDE DEF exit
  <2>3. c \in Queue
    BY <1>0, <2>2, PushCompletionType
  <2>4. /\ SameRun(q, c) /\ c.queued = q.queued /\ c.reserved = q.reserved
        /\ \A u \in Task : c.completed[u] =
              IF u \in {t} /\ q.completed[u] = "none" THEN exit[u] ELSE q.completed[u]
    BY <1>0, PushCompletionRun
  <2>5. c.terminal = q.terminal /\ c.reported = q.reported /\ c.status = q.status
    BY <1>0 DEF PushCompletion, Queue
  <2> HIDE DEF c
  <2>6. Placed(c)
    BY <1>0, <2>4, <2>5 DEF SameRun, Placed
  <2>7. \A u \in Background : c.observed[u] = q.observed[u] /\ c.completed[u] = "none"
    BY <1>0, <2>4 DEF SameRun
  <2>8. ASSUME q' \in Tick(c) PROVE Ticks(c, q')
    BY <2>3, <2>4, <2>5, <2>6, <2>7, <2>8 DEF Ticks, Known, SameRun
  <2>9. QED
    BY <1>a, <2>1, <2>8 DEF Moves
<1>10. ASSUME NEW t \in Foreground, CliStep(t) PROVE Moves
  <2>1. CASE SubmitForeground(t)
    BY <1>1, <2>1 DEF SubmitForeground
  <2>2. CASE ConfirmForegroundLaunch(t)
    BY <1>7, <2>2 DEF ConfirmForegroundLaunch
  <2>3. CASE CliInterruptPolling(t)
    BY <1>0, <1>3, <2>3 DEF CliInterruptPolling
  <2>4. QED
    BY <1>a, <1>8, <1>9, <1>10, <2>1, <2>2, <2>3
       DEF CliStep, CliPoll, CliSpawn, CliReap, CliInterruptLaunched, CliDies
<1>11. QED
  BY <1>a, <1>1, <1>2, <1>3, <1>4, <1>5, <1>6, <1>10
     DEF Next, vars, SubmitBackground, SetTaskPriority, CancelTask, MonitorTick,
         ChildExits, ZombieCollected, DeadlinePasses

\* The step of NoSilentForgetting.
ForgetsOpenly ==
    \A t \in Known(q) \ Known(q') :
        \/ t \in q.terminal /\ q.reported[t]
        \/ Cardinality(q'.terminal) = MaxTerminal

\* No action forgets the end of a task that no report has carried, unless more
\* ended tasks wait for a report than MaxTerminal allows.
THEOREM EndsAreKeptForTheReport == Spec => NoSilentForgetting
<1>1. Sound /\ [Next]_vars => Sound'
  BY QueueStep, ProcessesStep
     DEF Sound, TypeOK, ProcessesOK, QueueConsistent, WellFormed
<1>2. Sound /\ [Next]_vars => ForgetsOpenly
  <2> SUFFICES ASSUME Sound, Moves, NEW t \in Known(q) \ Known(q')
               PROVE  \/ t \in q.terminal /\ q.reported[t]
                      \/ Cardinality(q'.terminal) = MaxTerminal
    BY MovesStep DEF ForgetsOpenly
  <2>1. CASE Still
    BY <2>1 DEF Still
  <2>2. CASE Cancels
    BY <2>2, CancelKnown DEF Cancels, Sound, TypeOK, QueueConsistent, WellFormed
  <2>3. ASSUME NEW c, NEW d, Ticks(c, d)
        PROVE  \/ t \in q.terminal /\ q.reported[t]
               \/ Cardinality(q'.terminal) = MaxTerminal
    <3>1. t \in Known(c) \ Known(d)
      BY <2>3 DEF Ticks
    <3>2. \/ t \in c.terminal /\ c.reported[t]
          \/ Cardinality(d.terminal) = MaxTerminal
      BY <2>3, <3>1, TickForgets DEF Ticks
    <3>3. QED
      BY <2>3, <3>2 DEF Ticks
  <2>4. QED
    BY <2>1, <2>2, <2>3 DEF Moves
<1>3. QED
  BY <1>1, <1>2, SoundInit, PTL DEF Spec, NoSilentForgetting, ForgetsOpenly

\* The step of EndIsTrue.
EndTrue ==
    \A t \in Task :
        /\ t \in Background \cap q.running /\ Zombie(t) /\ t \notin q.running'
              => q'.reason[t] \in {ExitOf(t), "cancelled"}
        /\ q.reason[t] # "pid_disappeared" /\ q'.reason[t] = "pid_disappeared"
              => child[t] = "reaped"

\* The end that is written down is the one the task has had: no exit code that a
\* background process has left is overtaken by the monitor or by a command line,
\* and no task whose process is there is written off as disappeared.
THEOREM EndsAreTrue == Spec => EndIsTrue
<1>1. Sound /\ [Next]_vars => Sound'
  BY QueueStep, ProcessesStep
     DEF Sound, TypeOK, ProcessesOK, QueueConsistent, WellFormed
<1>2. Sound /\ Owned /\ ForegroundFollowed /\ [Next]_vars => EndTrue
  <2> SUFFICES ASSUME Sound, Owned, ForegroundFollowed, Moves, NEW t \in Task
               PROVE  /\ t \in Background \cap q.running /\ Zombie(t) /\ t \notin q'.running
                            => q'.reason[t] \in {ExitOf(t), "cancelled"}
                      /\ q.reason[t] # "pid_disappeared" /\ q'.reason[t] = "pid_disappeared"
                            => child[t] = "reaped"
    BY MovesStep DEF EndTrue
  <2>0. q \in Queue /\ WellFormed(q)
    BY DEF Sound, TypeOK, QueueConsistent, WellFormed
  <2>1. CASE Still
    BY <2>1 DEF Still
  <2>2. CASE Cancels
    <3>1. PICK u \in Task : q' = Cancel(q, u)
      BY <2>2 DEF Cancels
    <3>2. /\ q'.running = q.running \ {u}
          /\ q'.reason[t] = q.reason[t] \/ q'.reason[t] = "cancelled"
      BY <2>0, <3>1, CancelRun
    <3>3. u \in q.running => q'.reason[u] = "cancelled"
      <4> DEFINE why == [v \in Task |-> "cancelled"]
                 d == TransitionToTerminal(q, {u}, why)
      <4>1. \A v \in {u} : why[v] \in EndReason
        BY DEF EndReason
      <4>2. Transitioned(q, d, {u}, why)
        BY <2>0, <4>1, TransitionFacts
      <4>3. u \in q.running => q' = d
        BY <3>1 DEF Cancel, Known
      <4>4. why[u] = "cancelled"
        OBVIOUS
      <4> HIDE DEF d, why
      <4>5. QED
        BY <4>2, <4>3, <4>4 DEF Transitioned
    <3>4. QED
      BY <3>2, <3>3
  <2>3. ASSUME NEW c, NEW d, Ticks(c, d)
        PROVE  /\ t \in Background \cap q.running /\ Zombie(t) /\ t \notin q'.running
                     => q'.reason[t] \in {ExitOf(t), "cancelled"}
               /\ q.reason[t] # "pid_disappeared" /\ q'.reason[t] = "pid_disappeared"
                     => child[t] = "reaped"
    <3>1. c \in Queue /\ Placed(c) /\ d \in Tick(c)
      BY <2>3 DEF Ticks
    <3>2. CASE t \notin EndedBy(c)
      <4>1. d.running = c.running \ EndedBy(c) /\ d.reason[t] = c.reason[t]
        BY <3>1, <3>2, TickFacts
      <4>2. QED
        BY <2>3, <3>2, <4>1 DEF Ticks
    <3>3. CASE t \in EndedBy(c)
      <4>1. q'.reason[t] = WhyOf(c)[t]
        BY <2>3, <3>1, <3>3, TickFacts DEF Ticks
      <4>2. CASE t \in Background
        <5>1. c.observed[t] = "none" /\ c.completed[t] \in {"none", ExitOf(t)}
          BY <2>3, <4>2 DEF Ticks, Owned, BackgroundProcessOwned
        <5>2. t \in FinishedBy(c)
          BY <3>3, <5>1 DEF EndedBy, AnomalousIn
        <5>3. q'.reason[t] = ExitOf(t)
          BY <4>1, <5>1, <5>2 DEF WhyOf, FinishedBy
        <5>4. QED
          BY <5>3 DEF ExitOf
      <4>3. CASE t \in Foreground
        <5>1. t \notin Background
          BY <4>3 DEF Background
        <5>2. WhyOf(c)[t] = c.observed[t] \/ WhyOf(c)[t] \in ExitReason
          BY <3>1 DEF WhyOf, FinishedBy, Queue, ExitReason
        <5>3. c.observed[t] \in {q.observed[t], "launch_failed"}
          BY <2>3 DEF Ticks
        <5>4. q.observed[t] = "pid_disappeared" => child[t] = "reaped"
          BY <4>3 DEF ForegroundFollowed, Followed
        <5>5. QED
          BY <4>1, <5>1, <5>2, <5>3, <5>4 DEF ExitReason
      <4>4. QED
        BY <4>2, <4>3 DEF Background
    <3>4. QED
      BY <3>2, <3>3
  <2>4. QED
    BY <2>1, <2>2, <2>3 DEF Moves
<1>3. QED
  BY <1>1, <1>2, SoundInit, OwnedInit, OwnedStep, FollowedInit, FollowedStep, PTL
     DEF Spec, EndIsTrue, EndTrue

-----------------------------------------------------------------------------
(***************************************************************************)
(* The agent daemon implements the abstract lifecycle of a task: the       *)
(* initial state maps to the initial state, and every action maps to a     *)
(* step of TaskLifecycle or to a stutter.                                  *)
(***************************************************************************)

\* The phase that the refinement mapping reads off a queue.
PhaseIn(c, t) ==
    IF c.status[t] \in TerminalStatus /\ t \notin c.terminal
    THEN "forgotten" ELSE c.status[t]

\* The moves of the abstract lifecycle, spelled out.
Moved(a, b) ==
    \/ a = b
    \/ a = "new" /\ b = "queued"
    \/ a = "queued" /\ b \in {"reserved", "running", "cancelled"}
    \/ a = "reserved" /\ b \in {"running", "abnormal", "cancelled", "forgotten"}
    \/ a = "running" /\ b \in {"succeeded", "failed", "abnormal", "cancelled", "forgotten"}
    \/ a \in TerminalStatus /\ b \in {"cancelled", "forgotten"}

\* Each of them is an edge or a shortcut of TaskLifecycle.
LEMMA MovedIsStep ==
    ASSUME NEW a, NEW b, Moved(a, b)
    PROVE  a = b \/ <<a, b>> \in Lifecycle!Edge \cup Lifecycle!Shortcut
BY DEF Moved, TerminalStatus, Lifecycle!Edge, Lifecycle!Shortcut, Lifecycle!Ended

\* A step of the queue that moves every task along the lifecycle is a step of it.
LEMMA MovesAreNext ==
    ASSUME q' \in Queue, \A t \in Task : Moved(PhaseIn(q, t), PhaseIn(q', t))
    PROVE  Lifecycle!Next
<1>1. life' = [t \in Task |-> PhaseIn(q', t)] /\ life = [t \in Task |-> PhaseIn(q, t)]
  BY DEF life, PhaseIn
<1>2. life' \in [Task -> Lifecycle!Phase]
  BY <1>1 DEF PhaseIn, Queue, Status, ActiveStatus, TerminalStatus,
              Lifecycle!Phase, Lifecycle!Ended
<1>3. ASSUME NEW t \in Task
      PROVE  \/ life'[t] = life[t]
             \/ <<life[t], life'[t]>> \in Lifecycle!Edge \cup Lifecycle!Shortcut
  <2>1. Moved(life[t], life'[t])
    BY <1>1
  <2>2. QED
    BY <2>1, MovedIsStep
<1>4. QED
  BY <1>2, <1>3 DEF Lifecycle!Next

\* A tick ends active tasks and forgets ended ones.
LEMMA TickMoves ==
    ASSUME NEW c \in Queue, Placed(c), NEW d \in Tick(c), NEW t \in Task
    PROVE  Moved(PhaseIn(c, t), PhaseIn(d, t))
<1>1. /\ EndedBy(c) \subseteq c.running \cup c.reserved
      /\ d.terminal \subseteq c.terminal \cup EndedBy(c)
      /\ \A u \in EndedBy(c) : d.status[u] = StatusOf(WhyOf(c)[u])
      /\ \A u \in Task \ EndedBy(c) : d.status[u] = c.status[u]
  BY TickFacts
<1>2. c.status[t] \in Status
  BY DEF Queue
<1>3. CASE t \notin EndedBy(c)
  BY <1>1, <1>2, <1>3 DEF PhaseIn, Moved, Status, ActiveStatus, TerminalStatus
<1>4. CASE t \in FinishedBy(c)
  <2>1. WhyOf(c)[t] \in ExitReason /\ t \in EndedBy(c)
    BY <1>4 DEF FinishedBy, EndedBy, WhyOf, Queue
  <2>2. d.status[t] \in {"succeeded", "failed"}
    BY <1>1, <2>1 DEF StatusOf, ExitReason
  <2>3. c.status[t] = "running"
    BY <1>4 DEF FinishedBy, Placed
  <2>4. QED
    BY <2>2, <2>3 DEF PhaseIn, Moved, TerminalStatus
<1>5. CASE t \in AnomalousIn(c)
  <2>1. WhyOf(c)[t] \in RuntimeReason /\ t \in EndedBy(c)
    BY <1>5 DEF AnomalousIn, EndedBy, WhyOf, Queue
  <2>2. d.status[t] = "abnormal"
    BY <1>1, <2>1 DEF StatusOf, RuntimeReason
  <2>3. c.status[t] \in {"running", "reserved"}
    BY <1>1, <2>1 DEF Placed
  <2>4. QED
    BY <2>2, <2>3 DEF PhaseIn, Moved, TerminalStatus
<1>6. QED
  BY <1>3, <1>4, <1>5 DEF EndedBy

\* Where the phase of a queue comes from when only statuses have changed.
LEMMA ReservePhase ==
    ASSUME NEW c \in Queue, NEW T, NEW t \in Task
    PROVE  /\ Reserve(c, T).terminal = c.terminal
           /\ Reserve(c, T).status[t] = IF t \in T THEN "reserved" ELSE c.status[t]
           /\ PhaseIn(Reserve(c, T), t) = IF t \in T THEN "reserved" ELSE PhaseIn(c, t)
<1>1. /\ Reserve(c, T).terminal = c.terminal
      /\ Reserve(c, T).status = [u \in Task |-> IF u \in T THEN "reserved" ELSE c.status[u]]
  BY DEF Reserve, Queue
<1>2. QED
  BY <1>1 DEF PhaseIn, TerminalStatus

\* start() moves the tasks it starts, and no other, to running.
LEMMA StartPhase ==
    ASSUME NEW c \in Queue, NEW T, NEW t \in Task
    PROVE  PhaseIn(Start(c, T), t) = IF t \in T THEN "running" ELSE PhaseIn(c, t)
<1>1. /\ Start(c, T).terminal = c.terminal
      /\ Start(c, T).status = [u \in Task |-> IF u \in T THEN "running" ELSE c.status[u]]
  BY DEF Start, Queue
<1>2. QED
  BY <1>1 DEF PhaseIn, TerminalStatus

\* Only the buffers, the marks and the priorities change.
LEMMA QuietPhase ==
    ASSUME NEW c \in Queue, NEW t, NEW T, NEW f, NEW p
    PROVE  /\ PhaseIn(PushCompletion(c, T, f), t) = PhaseIn(c, t)
           /\ PhaseIn(PushRuntime(c, T, f), t) = PhaseIn(c, t)
           /\ PhaseIn(ToSnapshot(c), t) = PhaseIn(c, t)
           /\ PhaseIn(SetPriority(c, T, p), t) = PhaseIn(c, t)
<1>1. /\ PushCompletion(c, T, f).status = c.status
      /\ PushCompletion(c, T, f).terminal = c.terminal
  BY DEF PushCompletion, Queue
<1>2. /\ PushRuntime(c, T, f).status = c.status
      /\ PushRuntime(c, T, f).terminal = c.terminal
  BY DEF PushRuntime, Queue
<1>3. ToSnapshot(c).status = c.status /\ ToSnapshot(c).terminal = c.terminal
  BY DEF ToSnapshot, Queue
<1>4. /\ SetPriority(c, T, p).status = c.status
      /\ SetPriority(c, T, p).terminal = c.terminal
  BY DEF SetPriority, Queue
<1>5. QED
  BY <1>1, <1>2, <1>3, <1>4 DEF PhaseIn

\* submit() moves a new task to queued and no other task.
LEMMA SubmitMoves ==
    ASSUME NEW c \in Queue, NEW s \in Task, c.status[s] = "new", NEW p, NEW t \in Task
    PROVE  Moved(PhaseIn(c, t), PhaseIn(Submit(c, s, p), t))
<1>1. /\ Submit(c, s, p).terminal = c.terminal
      /\ Submit(c, s, p).status = [c.status EXCEPT ![s] = "queued"]
  BY DEF Submit, Queue
<1>2. c.status \in [Task -> Status]
  BY DEF Queue
<1>3. QED
  BY <1>1, <1>2 DEF PhaseIn, Moved, TerminalStatus

\* cancel() moves a task from any phase that get() finds it in.
LEMMA CancelMoves ==
    ASSUME NEW c, WellFormed(c), NEW s \in Task, NEW t \in Task
    PROVE  Moved(PhaseIn(c, t), PhaseIn(Cancel(c, s), t))
<1> DEFINE why == [u \in Task |-> "cancelled"]
           d == TransitionToTerminal(c, {s}, why)
<1>0. c \in Queue /\ Placed(c)
  BY DEF WellFormed, Consistent
<1>1. Transitioned(c, d, {s}, why)
  <2>1. \A u \in {s} : why[u] \in EndReason
    BY DEF EndReason
  <2>2. QED
    BY <1>0, <2>1, TransitionFacts
<1>2. why[s] = "cancelled"
  OBVIOUS
<1> HIDE DEF why
<1>3. Cancel(c, s) = IF s \in Known(c) THEN d ELSE c
  BY DEF Cancel, why
<1> HIDE DEF d
<1>4. CASE s \in Known(c) /\ t = s
  <2>1. PhaseIn(d, t) = "cancelled"
    BY <1>1, <1>2, <1>4 DEF Transitioned, PhaseIn, StatusOf, TerminalStatus
  <2>2. PhaseIn(c, t) \in {"queued", "reserved", "running"} \cup TerminalStatus
    <3>1. CASE t \in c.terminal
      BY <1>0, <3>1 DEF Placed, PhaseIn
    <3>2. CASE t \in c.queued \cup c.reserved \cup c.running
      <4>1. c.status[t] \in {"queued", "reserved", "running"}
        BY <1>0, <3>2 DEF Placed
      <4>2. QED
        BY <4>1 DEF PhaseIn, TerminalStatus
    <3>3. QED
      BY <1>4, <3>1, <3>2 DEF Known
  <2>3. QED
    BY <1>3, <1>4, <2>1, <2>2 DEF Moved, TerminalStatus
<1>5. CASE s \in Known(c) /\ t # s
  <2>1. d.status[t] = c.status[t] /\ (t \in d.terminal <=> t \in c.terminal)
    BY <1>1, <1>5 DEF Transitioned
  <2>2. QED
    BY <1>3, <1>5, <2>1 DEF Moved, PhaseIn
<1>6. CASE s \notin Known(c)
  BY <1>3, <1>6 DEF Moved
<1>7. QED
  BY <1>4, <1>5, <1>6

-----------------------------------------------------------------------------
(* The cycle. *)

\* The tick of the cycle and the launches that follow it, which start from the
\* queued tasks that the tick has left alone.
LEMMA CycleMoves ==
    ASSUME Sound, NEW q0 \in Tick(Polled(q)), NEW L \in SUBSET q0.queued,
           NEW t \in Task, NEW now,
           now = PhaseIn(q0, t) \/ (t \in q0.queued /\ now \in {"reserved", "running"})
    PROVE  Moved(PhaseIn(q, t), now)
<1> DEFINE c == Polled(q)
<1>0. q \in Queue /\ WellFormed(q)
  BY DEF Sound, TypeOK, QueueConsistent, WellFormed
<1>1. c \in Queue /\ Placed(c)
  BY <1>0, PolledFacts
<1>2. PhaseIn(c, t) = PhaseIn(q, t)
  BY <1>0, QuietPhase DEF Polled
<1> HIDE DEF c
<1>3. Moved(PhaseIn(c, t), PhaseIn(q0, t))
  BY <1>1, TickMoves DEF c
<1>4. CASE t \in q0.queued /\ now \in {"reserved", "running"}
  <2>1. PhaseIn(q0, t) = "queued"
    <3>1. Placed(q0)
      BY <1>1, TickWellFormed DEF c, WellFormed, Consistent
    <3>2. QED
      BY <1>4, <3>1 DEF Placed, PhaseIn, TerminalStatus
  <2>2. PhaseIn(c, t) \in {"new", "queued"}
    BY <1>3, <2>1 DEF Moved
  <2>3. PhaseIn(c, t) = "queued"
    <3>1. q0.queued = c.queued \ EndedBy(c)
      BY <1>1, TickFacts DEF c
    <3>2. c.status[t] = "queued"
      BY <1>1, <1>4, <3>1 DEF Placed
    <3>3. QED
      BY <3>2 DEF PhaseIn, TerminalStatus
  <2>4. QED
    BY <1>2, <1>4, <2>3 DEF Moved
<1>5. QED
  BY <1>2, <1>3, <1>4

\* Every action that changes the queue moves every task along the lifecycle.
LEMMA QueueMoves ==
    ASSUME Sound, [Next]_vars, NEW t \in Task
    PROVE  Moved(PhaseIn(q, t), PhaseIn(q', t))
<1>0. WellFormed(q) /\ q \in Queue /\ Placed(q)
  BY DEF Sound, TypeOK, QueueConsistent, WellFormed, Consistent
<1>1. ASSUME NEW s \in Task, SubmitBackground(s)
      PROVE  Moved(PhaseIn(q, t), PhaseIn(q', t))
  BY <1>0, <1>1, SubmitMoves DEF SubmitBackground
<1>2. ASSUME NEW s \in Task, NEW p \in Priority, SetTaskPriority(s, p)
      PROVE  Moved(PhaseIn(q, t), PhaseIn(q', t))
  BY <1>0, <1>2, QuietPhase DEF SetTaskPriority, Moved
<1>3. ASSUME NEW s \in Task, CancelTask(s)
      PROVE  Moved(PhaseIn(q, t), PhaseIn(q', t))
  BY <1>0, <1>3, CancelMoves DEF CancelTask
<1>4. CASE CollectCycle
  <2>1. PICK q0 \in Tick(Polled(q)) : \E L \in SUBSET q0.queued :
            q' = ToSnapshot(Start(Reserve(q0, L), L \cap Background))
    BY <1>4 DEF CollectCycle
  <2>2. PICK L \in SUBSET q0.queued :
            q' = ToSnapshot(Start(Reserve(q0, L), L \cap Background))
    BY <2>1
  <2>3. /\ q0 \in Queue /\ Reserve(q0, L) \in Queue
        /\ Start(Reserve(q0, L), L \cap Background) \in Queue
    BY <1>0, CycleWellFormed DEF WellFormed
  <2>4. PhaseIn(q', t) = IF t \in L \cap Background THEN "running"
                         ELSE IF t \in L THEN "reserved" ELSE PhaseIn(q0, t)
    BY <2>2, <2>3, ReservePhase, StartPhase, QuietPhase
  <2>5. QED
    BY <2>4, CycleMoves
<1>5. CASE CollectCycleFails
  <2>1. PICK q0 \in Tick(Polled(q)) :
            \E f \in Background \cap q0.queued : \E L \in SUBSET (q0.queued \ {f}) :
                q' = Reserve(Start(Reserve(q0, L), L \cap Background), {f})
    BY <1>5 DEF CollectCycleFails
  <2>2. PICK f \in Background \cap q0.queued : \E L \in SUBSET (q0.queued \ {f}) :
            q' = Reserve(Start(Reserve(q0, L), L \cap Background), {f})
    BY <2>1
  <2>3. PICK L \in SUBSET (q0.queued \ {f}) :
            q' = Reserve(Start(Reserve(q0, L), L \cap Background), {f})
    BY <2>2
  <2>4. L \in SUBSET q0.queued
    BY <2>3
  <2>5. /\ q0 \in Queue /\ Reserve(q0, L) \in Queue
        /\ Start(Reserve(q0, L), L \cap Background) \in Queue
    BY <1>0, <2>4, CycleWellFormed DEF WellFormed
  <2>6. PhaseIn(q', t) = IF t \in {f} THEN "reserved"
                         ELSE IF t \in L \cap Background THEN "running"
                         ELSE IF t \in L THEN "reserved" ELSE PhaseIn(q0, t)
    BY <2>3, <2>5, ReservePhase, StartPhase
  <2>7. QED
    BY <2>2, <2>4, <2>6, CycleMoves
<1>6. CASE MonitorTick
  BY <1>0, <1>6, QuietPhase DEF MonitorTick, Moved
<1>7. ASSUME NEW s \in Foreground, CliStep(s)
      PROVE  Moved(PhaseIn(q, t), PhaseIn(q', t))
  <2>0. s \in Task
    BY ForegroundAssumption
  <2>1. CASE SubmitForeground(s)
    BY <1>0, <2>0, <2>1, SubmitMoves DEF SubmitForeground
  <2>2. CASE ConfirmForegroundLaunch(s)
    <3>1. PhaseIn(q', t) = IF t \in {s} \cap q.reserved THEN "running" ELSE PhaseIn(q, t)
      BY <1>0, <2>2, StartPhase DEF ConfirmForegroundLaunch
    <3>2. t \in q.reserved => PhaseIn(q, t) = "reserved"
      BY <1>0 DEF Placed, PhaseIn, TerminalStatus
    <3>3. QED
      BY <3>1, <3>2 DEF Moved
  <2>3. CASE FailForegroundLaunch(s)
    <3> DEFINE why == [u \in Task |-> "launch_failed"]
               c == PushRuntime(q, {s}, why)
    <3>1. UNCHANGED q \/ q' \in Tick(c)
      BY <2>3 DEF FailForegroundLaunch
    <3>2. why \in [Task -> RuntimeReason]
      BY DEF RuntimeReason
    <3> HIDE DEF why
    <3>3. c \in Queue /\ Placed(c)
      BY <1>0, <3>2, PushRuntimeWellFormed DEF WellFormed, Consistent
    <3>4. PhaseIn(c, t) = PhaseIn(q, t)
      BY <1>0, QuietPhase
    <3> HIDE DEF c
    <3>5. CASE q' \in Tick(c)
      BY <3>3, <3>4, <3>5, TickMoves
    <3>6. QED
      BY <3>1, <3>5 DEF Moved
  <2>4. CASE FinishForegroundTask(s)
    <3> DEFINE code == IF cli[s] = "exited_zero" THEN "exit_zero" ELSE "exit_nonzero"
               exit == [u \in Task |-> code]
               c == PushCompletion(q, {s}, exit)
    <3>1. UNCHANGED q \/ q' \in Tick(c)
      BY <2>4 DEF FinishForegroundTask
    <3>2. exit \in [Task -> ExitReason]
      BY DEF ExitReason
    <3> HIDE DEF exit
    <3>3. c \in Queue
      BY <1>0, <3>2, PushCompletionType
    <3>4. Placed(c)
      BY <1>0 DEF PushCompletion, Queue, Placed
    <3>5. PhaseIn(c, t) = PhaseIn(q, t)
      BY <1>0, QuietPhase
    <3> HIDE DEF c
    <3>6. CASE q' \in Tick(c)
      BY <3>3, <3>4, <3>5, <3>6, TickMoves
    <3>7. QED
      BY <3>1, <3>6 DEF Moved
  <2>5. CASE CliInterruptPolling(s)
    BY <1>0, <2>0, <2>5, CancelMoves DEF CliInterruptPolling
  <2>6. ASSUME UNCHANGED q PROVE Moved(PhaseIn(q, t), PhaseIn(q', t))
    BY <2>6 DEF Moved
  <2>7. QED
    BY <1>7, <2>1, <2>2, <2>3, <2>4, <2>5, <2>6
       DEF CliStep, CliPoll, CliSpawn, CliReap, CliInterruptLaunched, CliDies
<1>8. ASSUME UNCHANGED q PROVE Moved(PhaseIn(q, t), PhaseIn(q', t))
  BY <1>8 DEF Moved
<1>9. QED
  BY <1>1, <1>2, <1>3, <1>4, <1>5, <1>6, <1>7, <1>8
     DEF Next, vars, ChildExits, ZombieCollected, DeadlinePasses

\* The daemon implements the abstract lifecycle: whatever the cycle, the monitor,
\* the handlers and the command lines do between each other's steps, a task is
\* launched through a reservation, ends once, and is never revived.
THEOREM AgentImplementsLifecycle == Spec => LifecycleSpec
<1>1. Init => Lifecycle!Init
  BY DEF Init, Lifecycle!Init, life, EmptyQueue, TerminalStatus
<1>2. Sound /\ [Next]_vars => Sound'
  BY QueueStep, ProcessesStep
     DEF Sound, TypeOK, ProcessesOK, QueueConsistent, WellFormed
<1>3. Sound /\ [Next]_vars => [Lifecycle!Next]_life
  <2>1. SUFFICES ASSUME Sound, [Next]_vars PROVE Lifecycle!Next
    OBVIOUS
  <2>2. q' \in Queue
    BY <2>1, QueueStep DEF WellFormed
  <2>3. \A t \in Task : Moved(PhaseIn(q, t), PhaseIn(q', t))
    BY <2>1, QueueMoves
  <2>4. QED
    BY <2>2, <2>3, MovesAreNext
<1>4. QED
  BY <1>1, <1>2, <1>3, SoundInit, PTL DEF Spec, LifecycleSpec, Lifecycle!Spec

-----------------------------------------------------------------------------
(***************************************************************************)
(* Starting, stopping and restarting the agent.                            *)
(***************************************************************************)

Step == {"none", "read", "kill", "wait", "prepare"}
Op   == {"none", "start", "stop", "restart"}

\* The variables hold what the code keeps in them, and only daemons are in the
\* foreground: a child of fork detaches itself before anything else.
SupTypeOK ==
  /\ proc \in [Pid -> Stage \cup {"free", "other"}]
  /\ foreground \subseteq Daemons
  /\ pidFile \in Pid \cup {nobody}
  /\ path \in Pid \cup {nobody, stale}
  /\ command \in [Command -> [op : Op, step : Step, pid : Pid \cup {nobody}]]
  /\ overlapped \in BOOLEAN /\ doubled \in BOOLEAN

\* As long as no commands overlapped: the pid file names the detached daemon; a
\* child that has not written its pid yet is alone, with no command under way;
\* and a command that has read a pid has that of the only daemon there may be.
OneDetached ==
  ~overlapped =>
    /\ \A p \in Detached : pidFile = p
    /\ \A p \in Pid : proc[p] = "forked" =>
         /\ Detached = {}
         /\ \A r \in Pid : proc[r] = "forked" => r = p
         /\ \A c \in Command : command[c] = Quiet
    /\ \A c \in Command : command[c].step \in {"kill", "wait"} =>
         \A p \in Detached : command[c].pid = p

\* As long as no second daemon was there, there is one, and it has the path.
OneServes ==
  ~doubled =>
    /\ \A p, r \in Daemons : p = r
    /\ \A p \in Pid : proc[p] = "serving" => path = p

SupInv == SupTypeOK /\ OneDetached /\ OneServes

-----------------------------------------------------------------------------
(* Lemmas. *)

\* Without a second daemon, at most one process is a daemon.
LEMMA AtMostOne ==
  ASSUME NEW D \in SUBSET Pid, ~(Cardinality(D) > 1)
  PROVE  \A p, r \in D : p = r
<1> SUFFICES ASSUME NEW p \in D, NEW r \in D, p # r PROVE FALSE
  OBVIOUS
<1>1. IsFiniteSet(D)
  BY SupervisorAssumption, FS_Subset
<1>2. PICK S : S = {p}
  OBVIOUS
<1>3. IsFiniteSet(S) /\ Cardinality(S) = 1 /\ r \notin S
  BY <1>2, FS_Singleton
<1>4. Cardinality(S \cup {r}) = 2
  BY <1>3, FS_AddElement
<1>5. Cardinality(S \cup {r}) <= Cardinality(D) /\ Cardinality(D) \in Nat
  BY <1>1, <1>2, FS_Subset, FS_CardinalityType
<1>6. QED
  BY <1>4, <1>5

\* What the history remembers: all is forgotten when no daemon and no command is
\* left, and otherwise what was, and what is added, stays.
LEMMA Remembers ==
  ASSUME SupTypeOK, NEW overlap \in BOOLEAN, Remember(overlap)
  PROVE  /\ overlapped' \in BOOLEAN /\ doubled' \in BOOLEAN
         /\ ~overlapped' => \/ Agents' = {} /\ \A c \in Command : command'[c] = Quiet
                            \/ ~overlapped /\ ~overlap
         /\ ~doubled' => \/ Agents' = {}
                         \/ ~doubled /\ \A p, r \in Daemons' : p = r
<1>1. Daemons' \in SUBSET Pid
  BY DEF Daemons
<1>2. ~(Cardinality(Daemons') > 1) => \A p, r \in Daemons' : p = r
  BY <1>1, AtMostOne
<1> DEFINE left == Agents' # {} \/ \E c \in Command : command'[c] # Quiet
<1>3. /\ overlapped' = (left /\ (overlapped \/ overlap))
      /\ doubled' = (left /\ (doubled \/ Cardinality(Daemons') > 1))
  BY DEF Remember
<1>4. overlapped \in BOOLEAN /\ doubled \in BOOLEAN
  BY DEF SupTypeOK
<1>5. ~left => Agents' = {} /\ \A c \in Command : command'[c] = Quiet
  OBVIOUS
<1> HIDE DEF left
<1>6. QED
  BY <1>2, <1>3, <1>4, <1>5

\* When no daemon and no command is left, nothing is to be shown.
LEMMA NobodyLeft ==
  /\ Agents' = {} => OneServes'
  /\ Agents' = {} /\ (\A c \in Command : command'[c] = Quiet) => OneDetached'
<1> SUFFICES ASSUME Agents' = {}
             PROVE  OneServes' /\ ((\A c \in Command : command'[c] = Quiet) => OneDetached')
  OBVIOUS
<1>1. \A p \in Pid : proc'[p] \notin Stage
  BY DEF Agents
<1>2. Daemons' = {} /\ Detached' = {}
  BY <1>1 DEF Daemons, Detached
<1>3. QED
  BY <1>1, <1>2 DEF OneServes, OneDetached, Stage, Quiet

\* The path stays right where one daemon alone moves on.
LEMMA ServesStep ==
  ASSUME SupTypeOK, OneServes, NEW overlap \in BOOLEAN, Remember(overlap),
         NEW p \in Pid, NEW stage, proc' = [proc EXCEPT ![p] = stage],
         \/ stage = "serving" /\ path' = p
         \/ stage # "serving" /\ path' = path
         \/ stage = "free" /\ path' = IF path = p THEN stale ELSE path
         \/ stage = "closed" /\ proc[p] = "stopping"
  PROVE  OneServes'
<1> SUFFICES ASSUME ~doubled, \A a, b \in Daemons' : a = b, ~doubled'
             PROVE  \A r \in Pid : proc'[r] = "serving" => path' = r
  BY Remembers, NobodyLeft DEF OneServes
<1> SUFFICES ASSUME NEW r \in Pid, proc'[r] = "serving" PROVE path' = r
  OBVIOUS
<1>0. proc \in [Pid -> Stage \cup {"free", "other"}]
  BY DEF SupTypeOK
<1>1. CASE r = p
  BY <1>0, <1>1
<1>2. CASE r # p
  <2>1. proc[r] = "serving"
    BY <1>0, <1>2
  <2>2. path = r
    BY <2>1 DEF OneServes
  <2>3. stage # "serving" /\ stage # "closed"
    <3>1. r \in Daemons'
      BY DEF Daemons, Stage
    <3>2. stage \in {"serving", "closed"} => p \in Daemons'
      BY <1>0 DEF Daemons, Stage
    <3>3. QED
      BY <1>2, <3>1, <3>2
  <2>4. QED
    BY <1>2, <2>2, <2>3
<1>3. QED
  BY <1>1, <1>2

\* Nothing moves: the path stays right.
LEMMA ServesStays ==
  ASSUME SupTypeOK, OneServes, NEW overlap \in BOOLEAN, Remember(overlap),
         UNCHANGED <<proc, path>>
  PROVE  OneServes'
BY Remembers, NobodyLeft DEF OneServes

\* The processes move on and the commands do not: no daemon becomes detached, and
\* the pid file changes only if the detached daemon ends.
LEMMA DetachedKept ==
  ASSUME SupTypeOK, OneDetached, Remember(FALSE), UNCHANGED command,
         Detached' \subseteq Detached, Detached' = {} \/ pidFile' = pidFile,
         \A p \in Pid : proc'[p] = "forked" => proc[p] = "forked"
  PROVE  OneDetached'
<1> SUFFICES ASSUME ~overlapped PROVE OneDetached'
  BY Remembers, NobodyLeft DEF OneDetached
<1>1. QED
  BY DEF OneDetached

\* A command goes on and no daemon becomes detached: it was alone, and no child
\* was about to write its pid.
LEMMA CommandKept ==
  ASSUME SupTypeOK, OneDetached, NEW c \in Command, Acts(c),
         \A d \in Command \ {c} : command'[d] = command[d],
         Detached' \subseteq Detached, Detached' = {} \/ pidFile' = pidFile,
         \A p \in Pid : proc'[p] = "forked" => proc[p] = "forked",
         command'[c].step \in {"kill", "wait"} =>
             (~overlapped => \A p \in Detached' : command'[c].pid = p)
  PROVE  OneDetached'
<1>1. Remember(Others(c) # {} \/ \E p \in Pid : proc[p] = "forked")
  BY DEF Acts
<1>2. (Others(c) # {} \/ \E p \in Pid : proc[p] = "forked") \in BOOLEAN
  OBVIOUS
<1> SUFFICES ASSUME ~overlapped, Others(c) = {}, \A p \in Pid : proc[p] # "forked"
             PROVE  OneDetached'
  BY <1>1, <1>2, Remembers, NobodyLeft DEF OneDetached
<1>3. \A d \in Command \ {c} : command'[d] = Quiet
  BY DEF Others
<1>4. QED
  BY <1>3 DEF OneDetached, Quiet


-----------------------------------------------------------------------------
(* The commands. *)

\* An end of a process keeps what is said of the types and takes a daemon away.
LEMMA EndsType ==
  ASSUME SupTypeOK, NEW p \in Pid, Ends(p)
  PROVE  /\ proc' \in [Pid -> Stage \cup {"free", "other"}]
         /\ foreground' \subseteq Daemons'
         /\ path' \in Pid \cup {nobody, stale}
         /\ Detached' = Detached \ {p}
         /\ \A r \in Pid : proc'[r] = "forked" => proc[r] = "forked"
BY DEF SupTypeOK, Ends, Becomes, Daemons, Detached, Stage

\* A process that goes from one stage to the next keeps what is said of the types.
LEMMA BecomesType ==
  ASSUME SupTypeOK, NEW p \in Pid, NEW stage \in Stage \ {"forked"}, Becomes(p, stage),
         proc[p] \in Stage \ {"forked"}, UNCHANGED foreground
  PROVE  /\ proc' \in [Pid -> Stage \cup {"free", "other"}]
         /\ foreground' \subseteq Daemons'
         /\ Detached' = Detached
         /\ \A r \in Pid : proc'[r] = "forked" => proc[r] = "forked"
BY DEF SupTypeOK, Becomes, Daemons, Detached, Stage

\* What Finish, Continue and AfterStop make of the commands.
LEMMA CommandStep ==
  ASSUME SupTypeOK, NEW c \in Command
  PROVE  /\ Finish(c) => /\ command' \in [Command -> [op : Op, step : Step, pid : Pid \cup {nobody}]]
                         /\ \A d \in Command \ {c} : command'[d] = command[d]
                         /\ command'[c] = Quiet
         /\ \A step \in Step, p \in Pid \cup {nobody} : Continue(c, step, p) =>
               /\ command' \in [Command -> [op : Op, step : Step, pid : Pid \cup {nobody}]]
               /\ \A d \in Command \ {c} : command'[d] = command[d]
               /\ command'[c].step = step /\ command'[c].pid = p
         /\ AfterStop(c) =>
               /\ command' \in [Command -> [op : Op, step : Step, pid : Pid \cup {nobody}]]
               /\ \A d \in Command \ {c} : command'[d] = command[d]
               /\ command'[c].step \in {"prepare", "none"}
<1>0. command \in [Command -> [op : Op, step : Step, pid : Pid \cup {nobody}]]
  BY DEF SupTypeOK
<1>1. Quiet \in [op : Op, step : Step, pid : Pid \cup {nobody}] /\ Quiet.step = "none"
  BY DEF Quiet, Op, Step
<1>2. ASSUME Finish(c)
      PROVE  /\ command' \in [Command -> [op : Op, step : Step, pid : Pid \cup {nobody}]]
             /\ \A d \in Command \ {c} : command'[d] = command[d]
             /\ command'[c] = Quiet
  BY <1>0, <1>1, <1>2 DEF Finish
<1>3. ASSUME NEW step \in Step, NEW p \in Pid \cup {nobody}, Continue(c, step, p)
      PROVE  /\ command' \in [Command -> [op : Op, step : Step, pid : Pid \cup {nobody}]]
             /\ \A d \in Command \ {c} : command'[d] = command[d]
             /\ command'[c].step = step /\ command'[c].pid = p
  BY <1>0, <1>3 DEF Continue
<1>4. ASSUME AfterStop(c)
      PROVE  /\ command' \in [Command -> [op : Op, step : Step, pid : Pid \cup {nobody}]]
             /\ \A d \in Command \ {c} : command'[d] = command[d]
             /\ command'[c].step \in {"prepare", "none"}
  <2>1. Continue(c, "prepare", nobody) \/ Finish(c)
    BY <1>4 DEF AfterStop
  <2>2. "prepare" \in Step /\ nobody \in Pid \cup {nobody}
    BY DEF Step
  <2>3. QED
    BY <1>1, <1>2, <1>3, <2>1, <2>2
<1>5. QED
  BY <1>2, <1>3, <1>4

\* The history of a command keeps its types.
LEMMA ActsType ==
  ASSUME SupTypeOK, NEW c \in Command, Acts(c)
  PROVE  /\ (Others(c) # {} \/ \E p \in Pid : proc[p] = "forked") \in BOOLEAN
         /\ Remember(Others(c) # {} \/ \E p \in Pid : proc[p] = "forked")
         /\ overlapped' \in BOOLEAN /\ doubled' \in BOOLEAN
BY Remembers DEF Acts

\* A command is given.
LEMMA RunStep ==
  ASSUME SupInv, NEW c \in Command, NEW op \in {"start", "stop", "restart"}, Run(c, op)
  PROVE  SupInv'
<1> USE DEF SupInv, Run
<1>1. /\ command' \in [Command -> [op : Op, step : Step, pid : Pid \cup {nobody}]]
      /\ \A d \in Command \ {c} : command'[d] = command[d]
      /\ command'[c].step \notin {"kill", "wait"}
  BY DEF SupTypeOK, Op, Step
<1>2. SupTypeOK'
  BY <1>1, ActsType DEF SupTypeOK, Daemons
<1>3. OneServes'
  BY ActsType, ServesStays
<1>4. OneDetached'
  BY <1>1, CommandKept DEF Detached, Daemons
<1>5. QED
  BY <1>2, <1>3, <1>4

\* A command reads the pid file: what it reads is the pid of the detached daemon.
LEMMA ReadStep ==
  ASSUME SupInv, NEW c \in Command, read_pid_file(c)
  PROVE  SupInv'
<1> USE DEF SupInv, read_pid_file
<1>1. /\ command' \in [Command -> [op : Op, step : Step, pid : Pid \cup {nobody}]]
      /\ \A d \in Command \ {c} : command'[d] = command[d]
      /\ command'[c].step \in {"kill", "wait"} => command'[c].pid = pidFile
  BY CommandStep DEF SupTypeOK, Step
<1>2. SupTypeOK'
  BY <1>1, ActsType DEF SupTypeOK, Daemons
<1>3. OneServes'
  BY ActsType, ServesStays
<1>4. Detached' = Detached
  BY DEF Detached, Daemons
<1>5. OneDetached'
  BY <1>1, <1>4, CommandKept DEF OneDetached
<1>6. QED
  BY <1>2, <1>3, <1>5

\* A command sends its signal: whoever has the pid now, no other process of the
\* agent is touched, and the command goes on waiting for the same pid.
LEMMA TerminateStep ==
  ASSUME SupInv, NEW c \in Command, Terminate(c)
  PROVE  SupInv'
<1> DEFINE p == command[c].pid
<1>0. SupTypeOK /\ OneDetached /\ OneServes /\ UNCHANGED pidFile /\ Acts(c)
      /\ command[c].step = "kill"
  BY DEF SupInv, Terminate
<1>1. CASE ~is_process_running(p)
  <2>1. Finish(c) /\ UNCHANGED <<proc, foreground, path>>
    BY <1>1 DEF Terminate
  <2>2. /\ command' \in [Command -> [op : Op, step : Step, pid : Pid \cup {nobody}]]
        /\ \A d \in Command \ {c} : command'[d] = command[d]
        /\ command'[c].step \notin {"kill", "wait"}
    BY <1>0, <2>1, CommandStep DEF Quiet
  <2>3. SupTypeOK'
    BY <1>0, <2>1, <2>2, ActsType DEF SupTypeOK, Daemons
  <2>4. OneServes'
    BY <1>0, <2>1, ActsType, ServesStays
  <2>5. OneDetached'
    BY <1>0, <2>1, <2>2, CommandKept DEF Detached, Daemons
  <2>6. QED
    BY <2>3, <2>4, <2>5 DEF SupInv
<1>2. CASE is_process_running(p)
  <2>1. p \in Pid /\ Continue(c, "wait", p)
    BY <1>2 DEF Terminate, is_process_running
  <2>2. \/ proc[p] \in {"forked", "written", "other"} /\ Ends(p)
        \/ proc[p] = "serving" /\ Becomes(p, "stopping") /\ UNCHANGED <<foreground, path>>
        \/ proc[p] \in {"stopping", "closed", "other"} /\ UNCHANGED <<proc, foreground, path>>
    BY <1>2 DEF Terminate
  <2> HIDE DEF p
  <2>3. /\ command' \in [Command -> [op : Op, step : Step, pid : Pid \cup {nobody}]]
        /\ \A d \in Command \ {c} : command'[d] = command[d]
        /\ command'[c].pid = p
    BY <1>0, <2>1, CommandStep DEF Step
  <2>4. /\ proc' \in [Pid -> Stage \cup {"free", "other"}]
        /\ foreground' \subseteq Daemons'
        /\ path' \in Pid \cup {nobody, stale}
        /\ Detached' \subseteq Detached
        /\ \A r \in Pid : proc'[r] = "forked" => proc[r] = "forked"
    <3>1. CASE Ends(p)
      BY <1>0, <2>1, <3>1, EndsType
    <3>2. CASE proc[p] = "serving" /\ Becomes(p, "stopping") /\ UNCHANGED <<foreground, path>>
      <4>1. "stopping" \in Stage \ {"forked"} /\ proc[p] \in Stage \ {"forked"}
        BY <3>2 DEF Stage
      <4>2. path' \in Pid \cup {nobody, stale}
        BY <1>0, <3>2 DEF SupTypeOK
      <4>3. QED
        BY <1>0, <2>1, <3>2, <4>1, <4>2, BecomesType
    <3>3. CASE UNCHANGED <<proc, foreground, path>>
      BY <1>0, <3>3 DEF SupTypeOK, Daemons, Detached
    <3>4. QED
      BY <2>2, <3>1, <3>2, <3>3
  <2>5. SupTypeOK'
    BY <1>0, <2>3, <2>4, ActsType DEF SupTypeOK
  <2>6. OneServes'
    <3>1. CASE Ends(p)
      BY <1>0, <2>1, <3>1, ActsType, ServesStep DEF Ends, Becomes
    <3>2. CASE Becomes(p, "stopping") /\ UNCHANGED path
      BY <1>0, <2>1, <3>2, ActsType, ServesStep DEF Becomes
    <3>3. CASE UNCHANGED <<proc, path>>
      BY <1>0, <3>3, ActsType, ServesStays
    <3>4. QED
      BY <2>2, <3>1, <3>2, <3>3
  <2>7. ~overlapped => \A r \in Detached : p = r
    BY <1>0 DEF OneDetached, p
  <2>8. OneDetached'
    BY <1>0, <2>3, <2>4, <2>7, CommandKept
  <2>9. QED
    BY <2>5, <2>6, <2>8 DEF SupInv
<1>3. QED
  BY <1>1, <1>2

\* A command has waited: where the pid it waited for is not running any more, no
\* daemon is detached, and the pid file may go.
LEMMA WaitStep ==
  ASSUME SupInv, NEW c \in Command, wait_for_exit(c)
  PROVE  SupInv'
<1> USE DEF SupInv, wait_for_exit
<1>1. /\ command' \in [Command -> [op : Op, step : Step, pid : Pid \cup {nobody}]]
      /\ \A d \in Command \ {c} : command'[d] = command[d]
      /\ command'[c].step \notin {"kill", "wait"}
  BY CommandStep
<1>2. SupTypeOK'
  BY <1>1, ActsType DEF SupTypeOK, Daemons
<1>3. OneServes'
  BY ActsType, ServesStays
<1>4. Detached' = Detached
  BY DEF Detached, Daemons
<1>5. ~overlapped => Detached = {} \/ pidFile' = pidFile
  <2>1. \A p \in Detached : is_process_running(p)
    BY DEF Detached, Daemons, is_process_running, Stage
  <2>2. QED
    BY <2>1 DEF OneDetached
<1>6. ASSUME overlapped PROVE OneDetached'
  <2>1. overlapped' \/ (Agents' = {} /\ \A d \in Command : command'[d] = Quiet)
    BY <1>6, ActsType, Remembers
  <2>2. QED
    BY <2>1, NobodyLeft DEF OneDetached
<1>7. ASSUME ~overlapped PROVE OneDetached'
  BY <1>1, <1>4, <1>5, <1>7, CommandKept
<1>8. QED
  BY <1>2, <1>3, <1>6, <1>7 DEF SupTypeOK

\* A daemon is started where the pid file names no running process: where no other
\* command is under way, no daemon is detached then.
LEMMA StartStep ==
  ASSUME SupInv, NEW c \in Command, start_background_daemon(c)
  PROVE  SupInv'
<1> USE DEF SupInv, start_background_daemon
<1>1. /\ command' \in [Command -> [op : Op, step : Step, pid : Pid \cup {nobody}]]
      /\ \A d \in Command \ {c} : command'[d] = command[d]
      /\ command'[c] = Quiet
  BY CommandStep
<1>2. CASE ~prepare_pid_file /\ UNCHANGED <<proc, pidFile>>
  <2>1. SupTypeOK'
    BY <1>1, <1>2, ActsType DEF SupTypeOK, Daemons
  <2>2. OneServes'
    BY <1>2, ActsType, ServesStays
  <2>3. OneDetached'
    BY <1>1, <1>2, CommandKept DEF Detached, Daemons, Quiet
  <2>4. QED
    BY <2>1, <2>2, <2>3
<1>3. ASSUME NEW p \in Pid, proc[p] = "free", Becomes(p, "forked"),
             prepare_pid_file, pidFile' = nobody
      PROVE  SupInv'
  <2>1. /\ proc' \in [Pid -> Stage \cup {"free", "other"}]
        /\ foreground' \subseteq Daemons'
        /\ Detached' = Detached
        /\ \A r \in Pid : proc'[r] = "forked" => r = p \/ proc[r] = "forked"
    BY <1>3 DEF SupTypeOK, Becomes, Daemons, Detached, Stage
  <2>2. SupTypeOK'
    BY <1>1, <1>3, <2>1, ActsType DEF SupTypeOK
  <2>3. OneServes'
    BY <1>3, ActsType, ServesStep DEF Becomes
  <2>4. ~overlapped => Detached = {}
    <3>1. \A r \in Detached : is_process_running(r)
      BY DEF Detached, Daemons, is_process_running, Stage
    <3>2. QED
      BY <1>3, <3>1 DEF OneDetached, prepare_pid_file
  <2>5. OneDetached'
    <3> SUFFICES ASSUME ~overlapped, Others(c) = {}, \A r \in Pid : proc[r] # "forked"
                 PROVE  OneDetached'
      BY ActsType, Remembers, NobodyLeft DEF OneDetached
    <3>1. \A d \in Command : command'[d] = Quiet
      BY <1>1 DEF Others
    <3>2. QED
      BY <2>1, <2>4, <3>1 DEF OneDetached, Quiet
  <2>6. QED
    BY <2>2, <2>3, <2>5
<1>4. QED
  BY <1>2, <1>3


-----------------------------------------------------------------------------
(* The processes. *)

\* A process that ends without touching the pid file, or with it.
LEMMA EndStep ==
  ASSUME SupInv, NEW p \in Pid, Ends(p), UNCHANGED command, Remember(FALSE),
         \/ UNCHANGED pidFile
         \/ pidFile' = nobody /\ p \notin foreground /\ proc[p] \in Stage \ {"forked"}
  PROVE  SupInv'
<1> USE DEF SupInv
<1>1. /\ proc' \in [Pid -> Stage \cup {"free", "other"}]
      /\ foreground' \subseteq Daemons'
      /\ path' \in Pid \cup {nobody, stale}
      /\ Detached' = Detached \ {p}
      /\ \A r \in Pid : proc'[r] = "forked" => proc[r] = "forked"
  BY EndsType
<1>2. SupTypeOK'
  BY <1>1, Remembers DEF SupTypeOK
<1>3. OneServes'
  BY ServesStep DEF Ends, Becomes
<1>4. ASSUME ~overlapped, ~(pidFile' = pidFile) PROVE Detached' = {}
  <2>1. p \in Detached
    BY <1>4 DEF Detached, Daemons
  <2>2. \A r \in Detached : pidFile = r
    BY <1>4 DEF OneDetached
  <2>3. QED
    BY <1>1, <2>1, <2>2
<1>5. ASSUME overlapped PROVE OneDetached'
  BY <1>5, Remembers, NobodyLeft DEF OneDetached
<1>6. ASSUME ~overlapped PROVE OneDetached'
  BY <1>1, <1>4, <1>6, DetachedKept
<1>7. QED
  BY <1>2, <1>3, <1>5, <1>6 DEF SupTypeOK

\* A daemon is run in the foreground: it writes no pid file and is not detached.
LEMMA ForegroundStep ==
  ASSUME SupInv, NEW p \in Pid, run_foreground(p)
  PROVE  SupInv'
<1> USE DEF SupInv, run_foreground
<1>1. /\ proc' \in [Pid -> Stage \cup {"free", "other"}]
      /\ foreground' \subseteq Daemons'
      /\ Detached' = Detached
      /\ \A r \in Pid : proc'[r] = "forked" => proc[r] = "forked"
  BY DEF SupTypeOK, Becomes, Daemons, Detached, Stage
<1>2. SupTypeOK'
  BY <1>1, Remembers DEF SupTypeOK
<1>3. OneServes'
  BY ServesStep DEF Becomes
<1>4. OneDetached'
  BY <1>1, DetachedKept
<1>5. QED
  BY <1>2, <1>3, <1>4

\* The child of fork writes its pid: it was alone, and is the detached daemon now.
LEMMA WriteStep ==
  ASSUME SupInv, NEW p \in Pid, write_pid_file(p)
  PROVE  SupInv'
<1> USE DEF SupInv, write_pid_file
<1>1. /\ proc' \in [Pid -> Stage \cup {"free", "other"}]
      /\ foreground' \subseteq Daemons'
      /\ Detached' = Detached \cup {p}
      /\ \A r \in Pid : proc'[r] = "forked" => r # p /\ proc[r] = "forked"
  BY DEF SupTypeOK, Becomes, Daemons, Detached, Stage
<1>2. SupTypeOK'
  BY <1>1, Remembers DEF SupTypeOK
<1>3. OneServes'
  BY ServesStep DEF Becomes
<1>4. OneDetached'
  <2> SUFFICES ASSUME ~overlapped PROVE OneDetached'
    BY Remembers, NobodyLeft DEF OneDetached
  <2>1. /\ Detached = {} /\ \A c \in Command : command[c] = Quiet
        /\ \A r \in Pid : proc[r] = "forked" => r = p
    BY DEF OneDetached
  <2>2. QED
    BY <1>1, <2>1 DEF OneDetached, Quiet
<1>5. QED
  BY <1>2, <1>3, <1>4

\* A daemon binds its socket, is interrupted, or closes its socket.
LEMMA DaemonStep ==
  ASSUME SupInv, NEW p \in Pid, serve_forever(p) \/ Interrupted(p) \/ CloseSocket(p)
  PROVE  SupInv'
<1> USE DEF SupInv
<1>1. PICK stage \in {"serving", "stopping", "closed"} : Becomes(p, stage)
  BY DEF serve_forever, Interrupted, CloseSocket
<1>2. /\ proc[p] \in Stage \ {"forked"} /\ stage \in Stage \ {"forked"}
      /\ UNCHANGED <<foreground, pidFile, command>> /\ Remember(FALSE)
      /\ path' \in {p, nobody, path}
  BY <1>1 DEF serve_forever, Interrupted, CloseSocket, Stage
<1>3. /\ proc' \in [Pid -> Stage \cup {"free", "other"}]
      /\ foreground' \subseteq Daemons'
      /\ Detached' = Detached
      /\ \A r \in Pid : proc'[r] = "forked" => proc[r] = "forked"
  BY <1>1, <1>2, BecomesType
<1>4. SupTypeOK'
  BY <1>2, <1>3, Remembers DEF SupTypeOK
<1>5. OneServes'
  BY <1>2, ServesStep DEF serve_forever, Interrupted, CloseSocket, Becomes
<1>6. OneDetached'
  BY <1>2, <1>3, DetachedKept
<1>7. QED
  BY <1>4, <1>5, <1>6

\* Another program is given a free pid, or gives it back.
LEMMA OtherStep ==
  ASSUME SupInv, NEW p \in Pid, OtherProgram(p)
  PROVE  SupInv'
<1> USE DEF SupInv, OtherProgram
<1>1. /\ proc' \in [Pid -> Stage \cup {"free", "other"}]
      /\ foreground' \subseteq Daemons'
      /\ Detached' = Detached
      /\ \A r \in Pid : proc'[r] = "forked" => proc[r] = "forked"
  BY DEF SupTypeOK, Becomes, Daemons, Detached, Stage
<1>2. SupTypeOK'
  BY <1>1, Remembers DEF SupTypeOK
<1>3. OneServes'
  BY ServesStep DEF Becomes
<1>4. OneDetached'
  BY <1>1, DetachedKept
<1>5. QED
  BY <1>2, <1>3, <1>4

-----------------------------------------------------------------------------
(* The theorem. *)

\* The initial state, without processes and commands, satisfies the invariant.
LEMMA SupInitInv == SupInit => SupInv
<1> SUFFICES ASSUME SupInit PROVE SupInv
  OBVIOUS
<1>1. Daemons = {} /\ Detached = {} /\ \A p \in Pid : proc[p] = "free"
  BY DEF SupInit, Daemons, Detached, Stage
<1>2. command \in [Command -> [op : Op, step : Step, pid : Pid \cup {nobody}]]
  BY DEF SupInit, Quiet, Op, Step
<1>3. SupTypeOK
  BY <1>1, <1>2 DEF SupInit, SupTypeOK
<1>4. OneDetached /\ OneServes
  BY <1>1 DEF SupInit, OneDetached, OneServes, Quiet
<1>5. QED
  BY <1>3, <1>4 DEF SupInv

\* Every step keeps the invariant.
LEMMA SupStep == SupInv /\ [SupNext]_supVars => SupInv'
<1> SUFFICES ASSUME SupInv, [SupNext]_supVars PROVE SupInv'
  OBVIOUS
<1>1. ASSUME NEW c \in Command,
             \/ \E op \in {"start", "stop", "restart"} : Run(c, op)
             \/ read_pid_file(c) \/ Terminate(c) \/ wait_for_exit(c) \/ start_background_daemon(c)
      PROVE  SupInv'
  BY <1>1, RunStep, ReadStep, TerminateStep, WaitStep, StartStep
<1>2. ASSUME NEW p \in Pid, DaemonEnds(p) \/ Killed(p) PROVE SupInv'
  <2>1. /\ Ends(p) /\ UNCHANGED command /\ Remember(FALSE)
        /\ \/ UNCHANGED pidFile
           \/ pidFile' = nobody /\ p \notin foreground /\ proc[p] \in Stage \ {"forked"}
    BY <1>2 DEF DaemonEnds, Killed, Stage
  <2>2. QED
    BY <2>1, EndStep
<1>3. ASSUME NEW p \in Pid,
             \/ run_foreground(p) \/ write_pid_file(p) \/ serve_forever(p) \/ Interrupted(p)
             \/ CloseSocket(p) \/ OtherProgram(p)
      PROVE  SupInv'
  BY <1>3, ForegroundStep, WriteStep, DaemonStep, OtherStep
<1>4. CASE UNCHANGED supVars
  <2>1. UNCHANGED <<Daemons, Detached>>
    BY <1>4 DEF supVars, Daemons, Detached
  <2>2. QED
    BY <1>4, <2>1 DEF supVars, SupInv, SupTypeOK, OneDetached, OneServes
<1>5. QED
  BY <1>1, <1>2, <1>3, <1>4 DEF SupNext

\* The pid file names every detached daemon as long as no commands overlapped, and
\* a daemon that serves has the path of the socket as long as it was alone,
\* however daemons were killed and pids given to other programs.
THEOREM DaemonAlwaysReachable == SupSpec => []DaemonIsReachable
<1>1. SupInv => DaemonIsReachable
  BY DEF SupInv, OneDetached, OneServes, DaemonIsReachable
<1>2. QED
  BY <1>1, SupInitInv, SupStep, PTL DEF SupSpec
=============================================================================
