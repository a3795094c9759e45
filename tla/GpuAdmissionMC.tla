---------------------------- MODULE GpuAdmissionMC ----------------------------
(***************************************************************************)
(* Instances of GpuAdmission for TLC: two GPUs of 10000 MB and tables for  *)
(* what each task asks for.                                                *)
(***************************************************************************)
EXTENDS GpuAdmission

MCTotal == [g \in {0, 1} |-> 10000]

\* A shared task of 6000 MB, an exclusive one, and a shared task that wants
\* 4000 MB of two GPUs.
MixedNeed  == <<6000, 0, 4000>>
MixedCount == <<1, 1, 2>>

\* Shared tasks two of which fill a GPU beyond its capacity.
SharedNeed  == <<6000, 4000, 3800>>
SharedCount == <<1, 1, 2>>
=============================================================================
