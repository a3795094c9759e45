------------------------------- MODULE AgentMC -------------------------------
(***************************************************************************)
(* The agent daemon and the supervisor that keeps it running share no      *)
(* state here, and neither do the page of alerts and the shares of a GPU,  *)
(* which are with them to even out the runs: one run checks the four, each *)
(* from its own initial states while the others rest.                      *)
(***************************************************************************)
EXTENDS AgentDaemon, Supervisor, AlertsPage, GpuShares, TLC

VARIABLE part     \* the machine of this behaviour

allVars == <<vars, supVars, deskVars, shareVars, part>>

\* Alerts are alike, and start in any order.
Alike == Permutations(Alarm)

\* Of two and three owners, all have the same hash: the palette must tell
\* them apart.
AllOwners == <<"managed:a", "managed:b", "unmanaged:c">>
SameHash(k) == 1

PartInit ==
  /\ Init /\ SupInit /\ DeskInit /\ ShareInit
  /\ part \in {"daemon", "supervisor", "desk", "shares"}
  /\ part # "desk" => \A a \in Alarm : status[a] = "active"

PartNext ==
  /\ UNCHANGED part
  /\ \/ part = "daemon" /\ Next /\ UNCHANGED <<supVars, deskVars, shareVars>>
     \/ part = "supervisor" /\ SupNext /\ UNCHANGED <<vars, deskVars, shareVars>>
     \/ part = "desk" /\ DeskNext /\ UNCHANGED <<vars, supVars, shareVars>>
     \/ part = "shares" /\ ShareNext /\ UNCHANGED <<vars, supVars, deskVars>>
     \/ part = "shares" /\ UNCHANGED allVars     \* no row is left to add

PartSpec == PartInit /\ [][PartNext]_allVars
=============================================================================
