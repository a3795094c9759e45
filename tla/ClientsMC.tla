------------------------------ MODULE ClientsMC ------------------------------
(***************************************************************************)
(* The mobile application, its notices about idle GPUs and what a phone    *)
(* remembers share no state here: one run checks them, each from its own   *)
(* initial states while the others rest.  The notices are checked twice:   *)
(* with all servers, the phone getting every report from the socket and    *)
(* answers arriving at once, and with one server that reports, nothing     *)
(* else being bounded.                                                     *)
(***************************************************************************)
EXTENDS MobileApp, IdleNotice, PhoneSettings, TLC

VARIABLE part     \* the machine of this behaviour, or the server that reports

allVars == <<mobileVars, idleVars, phoneVars, part>>

Alike == Permutations(Account) \cup Permutations(Server)

\* The machines that rest do so in one initial state.
Init ==
  /\ MobileInit /\ IdleInit /\ PhoneInit
  /\ part \in {"mobile", "idle", "phone"} \cup Server
  /\ part # "mobile" => ~settings.enabled
  /\ part # "phone" => person /\ disk.prefs = junk

AnswersAtOnce ==
  /\ answers # {} => answers' = {}
  /\ latest' = latest \/ samples' # samples

OnlyReports(s) ==
  \A t \in Server \ {s} : latest'[t] = gone /\ UNCHANGED <<recovering[t], rules \ {s}>>

Next ==
  /\ UNCHANGED part
  /\ \/ part = "mobile" /\ MobileNext /\ UNCHANGED <<idleVars, phoneVars>>
     \/ part = "idle" /\ IdleNext /\ AnswersAtOnce /\ UNCHANGED <<mobileVars, phoneVars>>
     \/ part \in Server /\ IdleNext /\ OnlyReports(part) /\ UNCHANGED <<mobileVars, phoneVars>>
     \/ part = "phone" /\ PhoneNext /\ UNCHANGED <<mobileVars, idleVars>>

Spec == Init /\ [][Next]_allVars
=============================================================================
