-------------------------------- MODULE BackendMC --------------------------------
(***************************************************************************)
(* Four machines of the back end that share nothing here: one run checks   *)
(* them, each while the others rest.  They are the admission of tasks to   *)
(* GPUs, the records of reports, the table of persons, and the sessions of *)
(* the nodes.                                                              *)
(*                                                                         *)
(* For persons, two servers: a user with an account on both, and root on   *)
(* the first.  For sessions, two nodes and a task of the first.            *)
(***************************************************************************)
EXTENDS GpuAdmissionMC, ReportRecords, PersonViews, Fleet

CONSTANTS user, root, s1, s2

MCAccount == {<<s1, user>>, <<s2, user>>, <<s1, root>>}
MCChosen == {<<s1, user>>, <<s2, user>>}
MCUserOf(account) == account[2]
MCServerOf(account) == account[1]
MCTaskRow ==
    {[id |-> 1, account |-> <<s1, user>>, status |-> "ended"],
     [id |-> 2, account |-> <<s1, user>>, status |-> "running"],
     [id |-> 3, account |-> <<s2, user>>, status |-> "queued"],
     [id |-> 4, account |-> <<s2, user>>, status |-> "running"],
     [id |-> 5, account |-> <<s1, root>>, status |-> "running"]}
MCUsing == {<<s1, user>>}

MCNodeOf(owned) == owned

VARIABLE part     \* the machine of this behaviour

Init ==
    /\ GpuInit /\ RecordsInit /\ PeopleInit /\ FleetInit
    /\ part \in {"gpu", "records", "people", "fleet"}
    /\ part # "records" => behind = 0

Next ==
    /\ UNCHANGED part
    /\ \/ part = "gpu" /\ GpuNext /\ UNCHANGED <<recordsVars, peopleVars, fleetVars>>
       \/ part = "records" /\ RecordsNext /\ UNCHANGED <<gpuVars, peopleVars, fleetVars>>
       \/ part = "people" /\ PeopleNext /\ UNCHANGED <<gpuVars, recordsVars, fleetVars>>
       \/ part = "fleet" /\ FleetNext /\ UNCHANGED <<gpuVars, recordsVars, peopleVars>>

Spec == Init /\ [][Next]_<<gpuVars, recordsVars, peopleVars, fleetVars, part>>

\* No guard reads the last answer: states that differ in it only have the same
\* steps, and the action properties look at every step.
ApartFromAnswer == <<gpuVars, recordsVars, persons, bindings, fleetVars, part>>
=============================================================================
