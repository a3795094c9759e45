--------------------------- MODULE AgentProgressMC ---------------------------
(***************************************************************************)
(* What the agent must do in the end: one run for the daemon and for the   *)
(* admission to GPUs, which share no state here, each while the other      *)
(* rests.                                                                  *)
(*                                                                         *)
(* For admission, two GPUs of 10000 MB: a task that needs exactly what a   *)
(* GPU may give, an exclusive one for both, and one without GPUs.          *)
(***************************************************************************)
EXTENDS AgentDaemon

CONSTANTS Wanting, Typed, Device, Level, Seen   \* the constants of Admission

VARIABLES stage, prio, assigned, peak, reclaimed, done, phase, view, samples, part

Admission == INSTANCE GpuAdmission WITH
  Task <- Wanting, Foreground <- Typed, MayFail <- {}, Exclusive <- {2},
  Need <- <<9800, 0, 0>>, Count <- <<1, 2, 0>>, Priority <- Level,
  Gpu <- Device, Total <- [g \in Device |-> 10000],
  life <- stage, Noisy <- {}, Foreign <- {0}, Usage <- Seen, MaxSamples <- 2

admissionVars == <<stage, prio, assigned, peak, reclaimed, done, phase, view, samples>>

allVars == <<vars, admissionVars, part>>

ProgressInit ==
  /\ Init /\ Admission!GpuInit
  /\ part \in {"daemon", "admission"}

ProgressNext ==
  /\ UNCHANGED part
  /\ \/ part = "daemon" /\ Next /\ UNCHANGED admissionVars
     \/ part = "admission" /\ Admission!GpuNext /\ UNCHANGED vars

(***************************************************************************)
(* AgentDaemon!Fairness and GpuAdmission!GpuFairness, each for the part    *)
(* that does not rest.                                                     *)
(***************************************************************************)
Up     == part = "daemon"
Admits == part = "admission"

ProgressFairness ==
  /\ WF_vars(Up /\ (CollectCycle \/ CollectCycleFails))
  /\ WF_vars(Up /\ MonitorTick)
  /\ \A t \in Task : WF_vars(Up /\ DeadlinePasses(t)) /\ WF_vars(Up /\ ZombieCollected(t))
  /\ \A t \in Foreground : WF_vars(Up /\ CliProgress(t))
  /\ WF_admissionVars(Admits /\ Admission!ReadRunning)
  /\ WF_admissionVars(Admits /\ Admission!ReadReserved)
  /\ WF_admissionVars(Admits /\ Admission!CollectCycle)
  /\ \A t \in Wanting :
        /\ WF_admissionVars(Admits /\ stage[t] = "running" /\ Admission!End(t))
        /\ WF_admissionVars(Admits /\ t \in Typed /\ stage[t] = "reserved" /\ Admission!End(t))

ProgressSpec == ProgressInit /\ [][ProgressNext]_allVars /\ ProgressFairness

\* See GpuAdmission: a task that was accepted is admitted in the end.
AcceptedEventuallyRuns == Admission!AcceptedEventuallyRuns
=============================================================================
