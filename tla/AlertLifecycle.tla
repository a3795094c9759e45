---------------------------- MODULE AlertLifecycle ----------------------------
(***************************************************************************)
(* What the alert loop promises (docs/developer/告警事件处理.md): an alert *)
(* is raised, recovers and is raised again, in every state it may be       *)
(* silenced, and a silenced alert stays silenced until it is unsilenced,   *)
(* which leaves it recovered.  Detection alone never moves it.             *)
(***************************************************************************)
CONSTANT Key   \* what alerts are about

VARIABLE status

Init == status = [k \in Key |-> "none"]

Raise   == {<<"none", "active">>, <<"resolved", "active">>}
Recover == {<<"active", "resolved">>}

\* One report, or one sweep, raises some alerts and lets others recover.
Detect ==
    /\ status' \in [Key -> {"none", "active", "resolved", "silenced"}]
    /\ \A k \in Key : <<status[k], status'[k]>> \in
           Raise \cup Recover \cup {<<status[k], status[k]>>}

Silence(k) ==
    /\ status[k] \in {"active", "resolved"}
    /\ status' = [status EXCEPT ![k] = "silenced"]

Unsilence(k) ==
    /\ status[k] = "silenced"
    /\ status' = [status EXCEPT ![k] = "resolved"]

Next == Detect \/ \E k \in Key : Silence(k) \/ Unsilence(k)

Spec == Init /\ [][Next]_status

=============================================================================
