--------------------------- MODULE ClientsProofs ---------------------------
(***************************************************************************)
(* Proofs about the mobile application and its guard service, for any      *)
(* accounts, servers and finite set of GPUs, any number of intents on      *)
(* their way and any window, cooldown and number of idle GPUs that the     *)
(* rule asks for; and about what a phone remembers, for any machines and   *)
(* bounds.                                                                 *)
(***************************************************************************)
EXTENDS MobileApp, IdleNotice, PhoneSettings, SequenceTheorems,
        FiniteSetTheorems, TLAPS

-----------------------------------------------------------------------------
(***************************************************************************)
(* The application and its guard serve the session that the user believes  *)
(* in.  The invariant says, at every step of every call, whose the connection *)
(* is, and what the service will do once it has taken its intents: that is *)
(* what it was last told, although a start that waits behind another call  *)
(* stores its own configuration again.                                     *)
(***************************************************************************)

Config   == [who : Account, category : BOOLEAN]
Settings == [enabled : BOOLEAN, category : BOOLEAN]
Signing  == [who : Account, step : {"login", "saving", "linking"}, permitted : BOOLEAN]

CallTypes ==
    /\ saved \in Account \cup {none} /\ settings \in Settings /\ stored \in Settings
    /\ app \in {"dead", "starting", "checking", "linking", "ready"}
    /\ token \in Account \cup {none} /\ session \in Account \cup {none}
    /\ granted \in BOOLEAN /\ allowed \in BOOLEAN
    /\ signing \in Signing \cup {none}
    /\ leaving \in {"no", "saving", "stopping"}
    /\ asking \in Settings \cup {none} /\ notifying \in BOOLEAN
    /\ believed \in Account \cup {none}

GuardTypes ==
    /\ config \in Config \cup {none} /\ service \in Config \cup {none}
    /\ intents \in Seq(Config \cup {STOP})

MobileTypeOK == CallTypes /\ GuardTypes

\* What goes with what while calls are under way.
Steps ==
    /\ app # "ready" => session = none /\ signing = none /\ leaving = "no" /\ asking = none
    /\ signing # none => session = none
    /\ leaving # "no" => session # none
    /\ app = "ready" => believed = session
    /\ app \in {"checking", "linking"} => token = saved
    /\ notifying => app = "ready"
    /\ ~astray /\ asking # none => asking = settings /\ signing = none

\* What the store knows of the permission: never more than the system has granted
\* and, where notifications are wanted and the guard was told, no less.
Known ==
    /\ granted => allowed
    /\ signing # none => (signing.permitted => allowed)
    /\ settings.enabled /\ app \in {"checking", "linking"} => (allowed => granted)
    /\ ~astray /\ settings.enabled =>
         /\ session # none /\ asking = none => (allowed => granted)
         /\ signing # none /\ signing.step # "login" => (allowed => signing.permitted)

Phases == Steps /\ Known

-----------------------------------------------------------------------------
(* The connection and what is shown. *)

Store ==
    /\ app \in {"dead", "starting", "checking"} => socket = none
    /\ app = "linking" => socket = token
    /\ app = "ready" /\ session # none => token = session /\ socket \in {none, session}
    /\ app = "ready" /\ ~crossed =>
         /\ socket = IF leaving = "stopping" THEN none ELSE session
         /\ session # none =>
              /\ shown \in {none, session}
              /\ leaving = "no" => saved = session

-----------------------------------------------------------------------------
(* The guard. *)

\* What the service will do when it has taken its intents, or has been brought back.
Coming ==
    IF intents = <<>> THEN IF sticky THEN config ELSE service
    ELSE IF intents[Len(intents)] = STOP THEN none ELSE intents[Len(intents)]

\* What it is to do for an account.
Target(who, wanted, permitted) ==
    IF who # none /\ wanted.enabled /\ permitted
    THEN [who |-> who, category |-> wanted.category] ELSE none

\* A start was handled by a service that was about to end.
Swallowed == intents = <<>> /\ ~sticky /\ service = none /\ config # none

Guarded ==
    /\ intents = <<>> /\ service # none => service = config
    /\ app = "linking" => Swallowed \/ Coming = Target(token, settings, granted)
    /\ ~astray =>
         /\ signing # none /\ signing.step = "linking" =>
              Coming = Target(signing.who, settings, signing.permitted)
         /\ leaving = "stopping" => Coming = none
         /\ app \in {"dead", "starting", "ready"} /\ signing = none /\ leaving = "no" /\ asking = none
              => Coming = Target(believed, settings, allowed)

MobileInv == MobileTypeOK /\ Phases /\ Store /\ Guarded

-----------------------------------------------------------------------------
(* What the guard is told. *)

\* An intent to stop is no configuration, and neither of them is none.
LEMMA StopFacts == STOP \notin Config /\ STOP # none /\ none \notin Config
<1>1. STOP.who = none /\ \A c \in Config : c.who \in Account
  BY DEF STOP, Config
<1>2. STOP \in [who : Account \cup {none}, category : BOOLEAN]
  BY DEF STOP
<1>3. \A c \in Config : c \in [who : Account \cup {none}, category : BOOLEAN]
  BY DEF Config
<1>4. none \notin Account /\ none \notin [who : Account \cup {none}, category : BOOLEAN]
  BY NoneIsNothing
<1>5. QED
  BY <1>1, <1>2, <1>3, <1>4

\* A call to start: where notifications are allowed, the service will start with c.
LEMMA StartTells ==
    ASSUME GuardTypes, NEW c \in Config, startGuardService(c), allowed'
    PROVE  /\ Coming' = c /\ intents' # <<>>
           /\ config' \in Config \cup {none} /\ intents' \in Seq(Config \cup {STOP})
<1>1. config' = c /\ intents' = Append(intents, c)
  BY DEF startGuardService
<1>2. /\ intents' \in Seq(Config \cup {STOP}) /\ intents' # <<>> /\ intents'[Len(intents')] = c
  BY <1>1, AppendProperties DEF GuardTypes
<1>3. QED
  BY <1>1, <1>2, StopFacts DEF Coming

\* A call to stop: in the end the service will not be there.
LEMMA StopTells ==
    ASSUME GuardTypes, stopGuardService
    PROVE  /\ Coming' = none /\ intents' # <<>>
           /\ config' \in Config \cup {none} /\ intents' \in Seq(Config \cup {STOP})
<1>1. config' = none /\ intents' = Append(intents, STOP)
  BY DEF stopGuardService
<1>2. /\ intents' \in Seq(Config \cup {STOP}) /\ intents' # <<>> /\ intents'[Len(intents')] = STOP
  BY <1>1, AppendProperties DEF GuardTypes
<1>3. QED
  BY <1>1, <1>2 DEF Coming

\* Both, as the store calls them: the service will do what is wanted of it.
LEMMA SyncTells ==
    ASSUME GuardTypes, NEW who \in Account \cup {none}, NEW wanted \in Settings,
           NEW permitted \in BOOLEAN, syncNativeGuardServiceState(who, wanted, permitted),
           permitted => allowed'
    PROVE  /\ Coming' = Target(who, wanted, permitted) /\ intents' # <<>>
           /\ config' \in Config \cup {none} /\ intents' \in Seq(Config \cup {STOP})
<1>1. CASE who # none /\ wanted.enabled /\ permitted
  <2> DEFINE c == [who |-> who, category |-> wanted.category]
  <2>1. c \in Config /\ Target(who, wanted, permitted) = c
    BY <1>1 DEF Config, Settings, Target
  <2>2. startGuardService(c) /\ allowed'
    BY <1>1 DEF syncNativeGuardServiceState
  <2> HIDE DEF c
  <2>3. QED
    BY <2>1, <2>2, StartTells
<1>2. CASE ~(who # none /\ wanted.enabled /\ permitted)
  <2>1. stopGuardService /\ Target(who, wanted, permitted) = none
    BY <1>2 DEF syncNativeGuardServiceState, Target
  <2>2. QED
    BY <2>1, StopTells
<1>3. QED
  BY <1>1, <1>2

\* Where nobody tells it anything and the service does nothing, all stays.
LEMMA NobodyTells ==
    ASSUME UNCHANGED <<guard, running>>
    PROVE  Coming' = Coming /\ (Swallowed' <=> Swallowed)
           /\ UNCHANGED <<config, intents, service, sticky>>
BY DEF guard, running, Coming, Swallowed

-----------------------------------------------------------------------------
(* What the service does. *)

\* Taking the first of several intents leaves the last one to come.
LEMMA ServiceStartsStep ==
    ASSUME GuardTypes, ServiceStarts
    PROVE  /\ Coming' = Coming /\ ~Swallowed'
           /\ config' \in Config /\ service' = config' /\ intents' \in Seq(Config \cup {STOP})
<1>1. intents \in Seq(Config \cup {STOP}) /\ intents # <<>> /\ Len(intents) \in Nat \ {0}
  BY EmptySeq, LenProperties DEF GuardTypes, ServiceStarts
<1>2. /\ Head(intents) = intents[1] /\ Head(intents) \in Config
      /\ Tail(intents) \in Seq(Config \cup {STOP}) /\ Len(Tail(intents)) = Len(intents) - 1
      /\ \A i \in 1 .. Len(Tail(intents)) : Tail(intents)[i] = intents[i + 1]
  BY <1>1, HeadTailProperties DEF ServiceStarts
<1>3. config' = Head(intents) /\ service' = Head(intents) /\ intents' = Tail(intents) /\ ~sticky'
  BY DEF ServiceStarts
<1>4. CASE Len(intents) = 1
  <2>1. intents' = <<>>
    BY <1>2, <1>3, <1>4, EmptySeq
  <2>2. Coming' = service' /\ service' # none /\ service' = Head(intents)
    BY <1>2, <1>3, <2>1, StopFacts DEF Coming
  <2>3. Coming = Head(intents)
    BY <1>1, <1>2, <1>4, StopFacts DEF Coming
  <2>4. QED
    BY <1>2, <1>3, <2>2, <2>3 DEF Swallowed
<1>5. CASE Len(intents) # 1
  <2>1. Len(intents') \in Nat \ {0} /\ intents' # <<>> /\ intents'[Len(intents')] = intents[Len(intents)]
    <3>1. PICK n \in Nat : n = Len(intents) /\ n > 1
      <4>1. \A k \in Nat \ {0} : k # 1 => k > 1
        OBVIOUS
      <4>2. Len(intents) \in Nat /\ Len(intents) > 1
        BY <1>1, <1>5, <4>1, Zenon
      <4>3. QED
        BY <4>2, Zenon
    <3>2. intents' = Tail(intents) /\ Len(Tail(intents)) = n - 1
      BY <1>2, <1>3, <3>1
    <3>3. n - 1 \in 1 .. n - 1 /\ n - 1 + 1 = n
      BY <3>1
    <3>4. Tail(intents)[n - 1] = intents[n]
      BY <1>2, <3>2, <3>3
    <3>5. intents' # <<>>
      BY <3>2, <3>3
    <3>6. QED
      BY <3>1, <3>2, <3>3, <3>4, <3>5
  <2>2. QED
    BY <1>1, <1>2, <1>3, <2>1 DEF Coming, Swallowed
<1>6. QED
  BY <1>4, <1>5

\* A stop ends the service together with the intents behind it that it has seen; a
\* start among them is swallowed, which only a single stop rules out.
LEMMA ServiceStopsStep ==
    ASSUME GuardTypes, ServiceStops
    PROVE  /\ Swallowed' \/ Coming' = Coming
           /\ ~astray' => Coming' = Coming /\ ~astray
           /\ service' = none
           /\ config' \in Config \cup {none} /\ intents' \in Seq(Config \cup {STOP})
<1>1. /\ intents \in Seq(Config \cup {STOP}) /\ intents # <<>> /\ Len(intents) \in Nat \ {0}
      /\ intents[1] = STOP
  BY EmptySeq, LenProperties, HeadTailProperties DEF GuardTypes, ServiceStops
<1>2. PICK m \in Nat : m = Len(intents) /\ m > 0
  BY <1>1
<1>3. PICK n \in 1 .. m :
        LET dying == {i \in 2 .. n : intents[i] # STOP} IN
        /\ \/ dying = {} /\ UNCHANGED config
           \/ \E i \in dying : (\A j \in dying : j <= i) /\ config' = intents[i]
        /\ intents' = SubSeq(intents, n + 1, m)
        /\ astray' = (astray \/ n > 1)
  BY <1>2 DEF ServiceStops
<1>4. service' = none /\ sticky' = FALSE
  BY DEF ServiceStops
<1>5. \A i \in 1 .. m : intents[i] \in Config \cup {STOP}
  BY <1>1, <1>2, ElementOfSeq
<1> DEFINE dying == {i \in 2 .. n : intents[i] # STOP}
<1>6. \A i \in dying : intents[i] \in Config
  BY <1>2, <1>3, <1>5
<1>7. m \in dying => config' \in Config
  BY <1>3, <1>6
<1>8. config' \in Config \cup {none}
  BY <1>3, <1>6 DEF GuardTypes
<1>9. CASE n = m
  <2>1. intents' = <<>>
    BY <1>2, <1>3, <1>9, SubSeqEmpty
  <2>2. Coming' = none
    BY <1>4, <2>1 DEF Coming
  <2>3. intents' \in Seq(Config \cup {STOP})
    BY <2>1
  <2>4. CASE intents[m] = STOP
    <3>1. Coming = none
      BY <1>1, <1>2, <2>4 DEF Coming
    <3>2. QED
      BY <1>3, <1>4, <1>8, <2>2, <2>3, <3>1
  <2>5. CASE intents[m] # STOP
    <3>1. m \in dying
      BY <1>1, <1>2, <1>9, <2>5
    <3>2. config' # none /\ n > 1
      BY <1>2, <1>3, <1>7, <1>9, <3>1, StopFacts
    <3>3. Swallowed'
      BY <1>4, <2>1, <3>2 DEF Swallowed
    <3>4. astray'
      BY <1>3, <3>2
    <3>5. QED
      BY <1>4, <1>8, <2>3, <3>3, <3>4
  <2>6. QED
    BY <2>4, <2>5
<1>10. CASE n # m
  <2>1. /\ intents' \in Seq(Config \cup {STOP}) /\ Len(intents') = m - n
        /\ \A i \in 1 .. m - n : intents'[i] = intents[n + i]
    <3>1. n + 1 \in 1 .. m + 1 /\ m \in n + 1 - 1 .. m
      BY <1>2, <1>3, <1>10
    <3>2. intents' \in Seq(Config \cup {STOP}) /\ Len(intents') = m - n
      BY <1>1, <1>2, <1>3, <1>10, <3>1, SubSeqProperties
    <3>3. \A i \in 1 .. m - n : intents'[i] = intents[n + i]
      BY <1>1, <1>2, <1>3, <1>10
    <3>4. QED
      BY <3>2, <3>3
  <2>2. m - n \in Nat /\ m - n \in 1 .. m - n /\ n + (m - n) = m
    BY <1>2, <1>3, <1>10
  <2>3. intents'[m - n] = intents[m] /\ intents' # <<>>
    BY <2>1, <2>2
  <2>4. Coming' = Coming
    BY <1>1, <1>2, <2>1, <2>3 DEF Coming
  <2>5. QED
    BY <1>3, <1>4, <1>8, <2>1, <2>4
<1>11. QED
  BY <1>9, <1>10

\* The system kills a service that has no intent waiting, and brings it back as it
\* was configured.
LEMMA ServiceDiesStep ==
    ASSUME Guarded, ProcessDies
    PROVE  Coming' = Coming /\ service' = none /\ UNCHANGED <<config, intents>>
BY DEF Guarded, ProcessDies, Coming, guard

\* Bringing it back makes it do what it was going to do.
LEMMA StickyRestartStep ==
    ASSUME StickyRestart
    PROVE  /\ Coming' = Coming /\ ~Swallowed /\ ~Swallowed' /\ service' = config
           /\ UNCHANGED <<config, intents>>
BY DEF StickyRestart, Coming, Swallowed, guard

-----------------------------------------------------------------------------
(* What calls do to each other. *)

\* A sign-in under way is a record with its three parts.
LEMMA SigningFacts ==
    ASSUME NEW a \in Account
    PROVE  /\ [who |-> a, step |-> "login", permitted |-> FALSE] \in Signing
           /\ [who |-> a, step |-> "login", permitted |-> FALSE] # none
           /\ [who |-> a, step |-> "login", permitted |-> FALSE].step = "login"
           /\ [who |-> a, step |-> "login", permitted |-> FALSE].permitted = FALSE
<1>1. [who |-> a, step |-> "login", permitted |-> FALSE] \in Signing
  BY DEF Signing
<1>2. none \notin Signing
  BY NoneIsNothing DEF Signing
<1>3. /\ [who |-> a, step |-> "login", permitted |-> FALSE].step = "login"
      /\ [who |-> a, step |-> "login", permitted |-> FALSE].permitted = FALSE
  OBVIOUS
<1>4. QED
  BY <1>1, <1>2, <1>3, Zenon

\* A change of the settings that asks for no permission leaves the flow of calls.
LEMMA ChangePhases ==
    ASSUME CallTypes, Phases, NEW next \in Settings, Change(next),
           next.enabled => settings.enabled
    PROVE  CallTypes' /\ Phases'
<1>1. /\ app = "ready" /\ session # none /\ settings' = next /\ stored' = next
      /\ UNCHANGED <<saved, app, token, session, granted, allowed, believed>>
      /\ UNCHANGED <<signing, leaving, asking, notifying>>
      /\ astray' = (astray \/ leaving # "no" \/ asking # none)
  BY DEF Change, persistNotificationSettings, store, calls
<1>2. CallTypes'
  BY <1>1 DEF CallTypes
<1>3. signing = none /\ (~astray' => ~astray /\ asking = none)
  BY <1>1 DEF Phases, Steps
<1>4. Steps'
  BY <1>1, <1>3 DEF Phases, Steps
<1>5. Known'
  BY <1>1, <1>3 DEF Phases, Known
<1>6. QED
  BY <1>2, <1>4, <1>5 DEF Phases

\* What goes with what is kept by every step: calls follow their own order, and only
\* those that may overlap do.
LEMMA PhasesStep ==
    ASSUME CallTypes, Phases, MobileNext
    PROVE  CallTypes' /\ Phases'
<1> USE DEF CallTypes, Phases, Steps, Known, store, view, guard, running, calls, history,
        kept, Settings, Signing, At, Answered, AskIfEnabled
<1>1. CASE Launch
  BY <1>1 DEF Launch
<1>2. CASE HydrateLoads
  <2>1. /\ granted' \in BOOLEAN /\ allowed' \in BOOLEAN
        /\ granted' => allowed'
        /\ settings'.enabled => (allowed' => granted')
    <3>1. CASE stored.enabled
      <4>1. PICK g \in BOOLEAN : allowed' = g /\ granted' = g
        BY <1>2, <3>1 DEF HydrateLoads, AskIfEnabled, Answered
      <4>2. QED
        BY <4>1
    <3>2. CASE ~stored.enabled
      <4>1. granted' = FALSE /\ allowed' = allowed /\ settings' = stored
        BY <1>2, <3>2 DEF HydrateLoads, AskIfEnabled
      <4>2. QED
        BY <3>2, <4>1 DEF CallTypes
    <3>3. QED
      BY <3>1, <3>2
  <2>2. /\ app = "starting" /\ token' = saved /\ settings' = stored
        /\ UNCHANGED <<saved, stored, session, signing, leaving, asking, notifying>>
        /\ \/ saved = none /\ app' = "ready" /\ believed' = none
           \/ saved # none /\ app' = "checking" /\ believed' = believed
    BY <1>2 DEF HydrateLoads, calls
  <2>3. CallTypes'
    BY <2>1, <2>2 DEF CallTypes
  <2>4. Steps'
    BY <2>2 DEF Steps
  <2>5. session' = none /\ signing' = none
    BY <2>2
  <2>6. Known'
    BY <2>1, <2>5 DEF Known
  <2>7. QED
    BY <2>3, <2>4, <2>6 DEF Phases
<1>3. CASE HydrateAccepted
  BY <1>3 DEF HydrateAccepted
<1>4. CASE HydrateRejected
  BY <1>4 DEF HydrateRejected
<1>5. CASE HydrateFails
  BY <1>5 DEF HydrateFails
<1>6. CASE HydratePublishes
  BY <1>6 DEF HydratePublishes
<1>7. CASE \E a \in Account : SignIn(a)
  <2>1. PICK a \in Account : SignIn(a)
    BY <1>7
  <2>2. signing' \in Signing /\ signing' # none /\ signing'.step = "login" /\ signing'.permitted = FALSE
    BY <2>1, SigningFacts, Zenon DEF SignIn
  <2>3. /\ app = "ready" /\ session = none /\ leaving = "no" /\ astray' = (asking # none)
        /\ UNCHANGED <<saved, settings, stored, app, token, session, granted, allowed>>
        /\ UNCHANGED <<leaving, asking, notifying, believed>>
    BY <2>1 DEF SignIn
  <2>4. CallTypes'
    BY <2>2, <2>3 DEF CallTypes
  <2>5. Steps'
    BY <2>3 DEF Steps
  <2>6. Known'
    BY <2>2, <2>3 DEF Known
  <2>7. QED
    BY <2>4, <2>5, <2>6 DEF Phases
<1>8. CASE \E a \in Account : OverviewArrives(a)
  BY <1>8 DEF OverviewArrives
<1>9. CASE LoginAnswers
  <2>1. PICK g \in BOOLEAN :
           /\ AskIfEnabled(settings, granted, g)
           /\ signing' = [signing EXCEPT !.step = "saving", !.permitted = g]
    BY <1>9 DEF LoginAnswers
  <2>2. signing \in Signing /\ signing # none
    BY <1>9 DEF LoginAnswers, At
  <2>3. /\ signing' \in Signing /\ signing' # none
        /\ signing'.step = "saving" /\ signing'.permitted = g
    BY <2>1, <2>2, NoneIsNothing DEF Signing
  <2>4. /\ saved' = signing.who /\ saved' \in Account
        /\ UNCHANGED <<settings, stored, app, token, session, granted, leaving, asking>>
        /\ UNCHANGED <<notifying, believed, astray>>
    BY <1>9, <2>2 DEF LoginAnswers, Signing
  <2>5. /\ allowed' \in BOOLEAN /\ (allowed => allowed') /\ (g => allowed')
        /\ settings.enabled => (allowed' => g)
    <3>1. CASE settings.enabled
      BY <2>1, <3>1 DEF AskIfEnabled, Answered
    <3>2. CASE ~settings.enabled
      BY <2>1, <3>2 DEF AskIfEnabled
    <3>3. QED
      BY <3>1, <3>2
  <2>6. app = "ready" /\ session = none
    BY <2>2 DEF Steps
  <2>7. CallTypes'
    BY <2>3, <2>4, <2>5 DEF CallTypes
  <2>8. Steps'
    BY <2>2, <2>4, <2>6 DEF Steps
  <2>9. Known'
    BY <2>3, <2>4, <2>5, <2>6 DEF Known
  <2>10. QED
    BY <2>7, <2>8, <2>9 DEF Phases
<1>10. CASE LoginFails
  BY <1>10 DEF LoginFails
<1>11. CASE SignInLinks
  BY <1>11 DEF SignInLinks
<1>12. CASE SignInPublishes
  BY <1>12 DEF SignInPublishes
<1>13. CASE EditConnection
  BY <1>13 DEF EditConnection
<1>14. CASE SignOut
  BY <1>14 DEF SignOut
<1>15. CASE SignOutStops
  BY <1>15 DEF SignOutStops
<1>16. CASE SignOutPublishes
  BY <1>16 DEF SignOutPublishes
<1>17. CASE ToggleOn
  BY <1>17, NoneIsNothing DEF ToggleOn, persistNotificationSettings
<1>18. CASE PermissionAnswers
  BY <1>18 DEF PermissionAnswers
<1>19. CASE ToggleOff
  BY <1>19, ChangePhases DEF ToggleOff
<1>20. CASE ToggleCategory
  BY <1>20, ChangePhases DEF ToggleCategory
<1>21. CASE RefreshOverview
  BY <1>21 DEF RefreshOverview
<1>22. CASE Leave
  BY <1>22 DEF Leave
<1>23. CASE Return
  BY <1>23 DEF Return
<1>24. CASE MarkerAges
  BY <1>24 DEF MarkerAges
<1>25. CASE ServiceStarts
  BY <1>25 DEF ServiceStarts
<1>26. CASE ServiceStops
  <2>1. PICK n : astray' = (astray \/ n > 1)
    BY <1>26 DEF ServiceStops
  <2>2. ~astray' => ~astray
    BY <2>1
  <2>3. UNCHANGED <<saved, settings, stored, app, token, session, granted, allowed, signing,
                    leaving, asking, notifying, believed>>
    BY <1>26 DEF ServiceStops
  <2>4. QED
    BY <2>2, <2>3
<1>27. CASE ProcessDies
  BY <1>27 DEF ProcessDies
<1>28. CASE StickyRestart
  BY <1>28 DEF StickyRestart
<1>29. CASE HydrateReadFails
  BY <1>29 DEF HydrateReadFails, Defaults
<1>30. CASE \E a \in Account : EventArrives(a)
  <2>1. /\ session # none /\ notifying' = TRUE
        /\ UNCHANGED <<saved, settings, stored, app, token, session, granted, allowed, signing,
                        leaving, asking, believed, astray>>
    BY <1>30 DEF EventArrives, dispatchNotification
  <2>2. QED
    BY <2>1
<1>31. CASE NoticeAnswered
  <2>1. PICK g \in BOOLEAN : /\ (allowed => g) /\ allowed' = g /\ granted' = (granted \/ g)
                             /\ astray' = (astray \/ (g /\ ~allowed))
    BY <1>31 DEF NoticeAnswered, Answered
  <2>2. /\ notifying /\ notifying' = FALSE
        /\ UNCHANGED <<saved, settings, stored, app, token, session, signing, leaving, asking, believed>>
    BY <1>31 DEF NoticeAnswered
  <2>3. /\ allowed' \in BOOLEAN /\ granted' \in BOOLEAN /\ (granted' => allowed')
        /\ (allowed => allowed') /\ (granted => granted') /\ app = "ready"
    BY <2>1, <2>2
  <2>4. ~astray' => ~astray /\ (allowed' => allowed)
    BY <2>1
  <2>5. CallTypes'
    <3>1. /\ saved' \in Account \cup {none} /\ settings' \in Settings /\ stored' \in Settings
          /\ app' \in {"dead", "starting", "checking", "linking", "ready"}
          /\ token' \in Account \cup {none} /\ session' \in Account \cup {none}
      BY <2>2
    <3>2. /\ signing' \in Signing \cup {none} /\ leaving' \in {"no", "saving", "stopping"}
          /\ asking' \in Settings \cup {none} /\ notifying' \in BOOLEAN
          /\ believed' \in Account \cup {none}
      BY <2>2
    <3>3. QED
      BY <2>3, <3>1, <3>2, Zenon
  <2>6. Steps'
    BY <2>2, <2>4 DEF Steps
  <2>7. Known'
    <3>1. granted' => allowed'
      BY <2>3
    <3>2. signing' # none => (signing'.permitted => allowed')
      BY <2>2, <2>3 DEF Known
    <3>3. ~astray' /\ settings'.enabled =>
            /\ session' # none /\ asking' = none => (allowed' => granted')
            /\ signing' # none /\ signing'.step # "login" => (allowed' => signing'.permitted)
      BY <2>2, <2>3, <2>4 DEF Known
    <3>4. app' \notin {"checking", "linking"}
      BY <2>2, <2>3
    <3>5. QED
      BY <3>1, <3>2, <3>3, <3>4 DEF Known
  <2>8. QED
    BY <2>5, <2>6, <2>7 DEF Phases
<1>32. QED
  BY <1>1, <1>2, <1>3, <1>4, <1>5, <1>6, <1>7, <1>8, <1>9, <1>10, <1>11, <1>12, <1>13, <1>14,
     <1>15, <1>16, <1>17, <1>18, <1>19, <1>20, <1>21, <1>22, <1>23, <1>24, <1>25, <1>26, <1>27, <1>28,
     <1>29, <1>30, <1>31 DEF MobileNext

\* The connection follows the session, unless calls have overlapped.
LEMMA StoreStep ==
    ASSUME CallTypes, Phases, Store, MobileNext
    PROVE  Store'
<1> USE DEF Phases, Steps, Store, store, view, guard, running, calls, history, At, Overview
<1>1. CASE Launch
  BY <1>1 DEF Launch
<1>2. CASE HydrateLoads
  BY <1>2 DEF HydrateLoads
<1>3. CASE HydrateAccepted
  BY <1>3 DEF HydrateAccepted
<1>4. CASE HydrateRejected
  BY <1>4 DEF HydrateRejected
<1>5. CASE HydrateFails
  BY <1>5 DEF HydrateFails
<1>6. CASE HydratePublishes
  BY <1>6 DEF HydratePublishes
<1>7. CASE \E a \in Account : SignIn(a)
  BY <1>7 DEF SignIn
<1>8. CASE \E a \in Account : OverviewArrives(a)
  BY <1>8 DEF OverviewArrives
<1>9. CASE LoginAnswers
  BY <1>9 DEF LoginAnswers
<1>10. CASE LoginFails
  BY <1>10 DEF LoginFails
<1>11. CASE SignInLinks
  BY <1>11 DEF SignInLinks
<1>12. CASE SignInPublishes
  BY <1>12 DEF SignInPublishes
<1>13. CASE EditConnection
  BY <1>13 DEF EditConnection
<1>14. CASE SignOut
  BY <1>14 DEF SignOut
<1>15. CASE SignOutStops
  BY <1>15 DEF SignOutStops
<1>16. CASE SignOutPublishes
  BY <1>16 DEF SignOutPublishes
<1>17. CASE ToggleOn
  BY <1>17 DEF ToggleOn
<1>18. CASE PermissionAnswers
  BY <1>18 DEF PermissionAnswers
<1>19. CASE ToggleOff
  BY <1>19 DEF ToggleOff, Change
<1>20. CASE ToggleCategory
  BY <1>20 DEF ToggleCategory, Change
<1>21. CASE RefreshOverview
  BY <1>21 DEF RefreshOverview
<1>22. CASE Leave
  BY <1>22 DEF Leave
<1>23. CASE Return
  BY <1>23 DEF Return
<1>24. CASE MarkerAges
  BY <1>24 DEF MarkerAges
<1>25. CASE ServiceStarts
  BY <1>25 DEF ServiceStarts
<1>26. CASE ServiceStops
  BY <1>26 DEF ServiceStops
<1>27. CASE ProcessDies
  BY <1>27 DEF ProcessDies
<1>28. CASE StickyRestart
  BY <1>28 DEF StickyRestart
<1>29. CASE HydrateReadFails
  BY <1>29 DEF HydrateReadFails
<1>30. CASE \E a \in Account : EventArrives(a)
  BY <1>30 DEF EventArrives
<1>31. CASE NoticeAnswered
  BY <1>31 DEF NoticeAnswered
<1>32. QED
  BY <1>1, <1>2, <1>3, <1>4, <1>5, <1>6, <1>7, <1>8, <1>9, <1>10, <1>11, <1>12, <1>13, <1>14,
     <1>15, <1>16, <1>17, <1>18, <1>19, <1>20, <1>21, <1>22, <1>23, <1>24, <1>25, <1>26, <1>27, <1>28,
     <1>29, <1>30, <1>31 DEF MobileNext

-----------------------------------------------------------------------------
(* What the guard is told when. *)

\* Steps that tell it nothing: those at whose end something is claimed of the guard
\* either take place when it is ready for that, or remember that it is not.
LEMMA UntoldStep ==
    ASSUME CallTypes, GuardTypes, Phases, Guarded, Phases',
           \/ Launch
           \/ HydrateLoads
           \/ HydrateRejected
           \/ HydratePublishes
           \/ (\E a \in Account : SignIn(a))
           \/ LoginAnswers
           \/ SignInPublishes
           \/ EditConnection
           \/ SignOut
           \/ SignOutPublishes
           \/ ToggleOn
           \/ RefreshOverview
           \/ (\E a \in Account : OverviewArrives(a))
           \/ Leave
           \/ Return
           \/ MarkerAges
           \/ (\E a \in Account : EventArrives(a))
           \/ NoticeAnswered
    PROVE  GuardTypes' /\ Guarded'
<1>1. CASE Launch
  BY <1>1, NobodyTells DEF Launch, GuardTypes, Phases, Steps, Known, kept, Guarded, Target, store, view, calls, history,
        guard, running, At
<1>2. CASE HydrateLoads
  BY <1>2, NobodyTells DEF HydrateLoads, GuardTypes, Phases, Steps, Known, kept, Guarded, Target, store, view, calls, history,
        guard, running, At, Follows, Swallowed, Coming
<1>3. CASE HydrateRejected
  BY <1>3, NobodyTells DEF HydrateRejected, GuardTypes, Phases, Steps, Known, kept, Guarded, Target, store, view, calls, history,
        guard, running, At, Follows, Swallowed, Coming
<1>4. CASE HydratePublishes
  <2>1. /\ app = "linking" /\ app' = "ready" /\ believed' = token /\ astray' = ~Follows
        /\ UNCHANGED <<settings, token, granted, allowed, signing, leaving, asking>>
        /\ UNCHANGED <<guard, running>>
    BY <1>4 DEF HydratePublishes, kept, calls
  <2>2. /\ Coming' = Coming /\ UNCHANGED <<config, intents, service, sticky>>
    BY <2>1, NobodyTells
  <2>3. /\ signing = none /\ leaving = "no" /\ asking = none
        /\ settings.enabled => (allowed <=> granted)
    BY <2>1 DEF Phases, Steps, Known
  <2>4. ~astray' => ~Swallowed
    <3>1. ~astray' => Follows
      BY <2>1, Zenon
    <3>2. Follows => (intents = <<>> /\ service = config) \/ Len(intents) = 1
      BY Zenon DEF Follows
    <3>3. Len(intents) = 1 => intents # <<>>
      OBVIOUS
    <3>4. Swallowed => intents = <<>> /\ service # config
      BY DEF Swallowed
    <3>5. QED
      BY <3>1, <3>2, <3>3, <3>4, Zenon
  <2>5. ~astray' => Coming = Target(token, settings, allowed)
    <3>1. Swallowed \/ Coming = Target(token, settings, granted)
      BY <2>1 DEF Guarded
    <3>2. Target(token, settings, granted) = Target(token, settings, allowed)
      <4>1. CASE ~settings.enabled
        BY <4>1, Zenon DEF Target
      <4>2. CASE settings.enabled
        <5>1. granted <=> allowed
          BY <2>3, <4>2, Zenon
        <5>2. QED
          BY <5>1, Zenon DEF Target
      <4>3. QED
        BY <4>1, <4>2
    <3>3. QED
      BY <2>4, <3>1, <3>2, Zenon
  <2>6. ~astray' => Coming' = Target(believed', settings', allowed')
    BY <2>1, <2>2, <2>5
  <2>7. GuardTypes'
    BY <2>2 DEF GuardTypes
  <2>8. /\ intents' = <<>> /\ service' # none => service' = config'
        /\ app' # "linking" /\ asking' = none /\ signing' = none /\ leaving' # "stopping"
    <3>1. intents = <<>> /\ service # none => service = config
      BY Zenon DEF Guarded
    <3>2. app' # "linking" /\ asking' = none /\ signing' = none /\ leaving' # "stopping"
      BY <2>1, <2>3
    <3>3. QED
      BY <2>2, <3>1, <3>2
  <2>9. QED
    BY <2>6, <2>7, <2>8 DEF Guarded
<1>5. CASE \E a \in Account : SignIn(a)
  <2>1. PICK a \in Account : SignIn(a)
    BY <1>5
  <2>2. /\ app = "ready" /\ app' = app /\ leaving = "no" /\ astray' = (asking # none)
        /\ signing' = [who |-> a, step |-> "login", permitted |-> FALSE]
        /\ UNCHANGED <<leaving, asking>> /\ UNCHANGED <<guard, running>>
    BY <2>1 DEF SignIn, Phases, Steps
  <2>3. Coming' = Coming /\ UNCHANGED <<config, intents, service, sticky>>
    BY <2>2, NobodyTells
  <2>4. signing' # none /\ signing'.step = "login"
    BY <2>1, <2>2, SigningFacts, Zenon
  <2>5. QED
    BY <2>2, <2>3, <2>4 DEF Guarded, GuardTypes
<1>6. CASE LoginAnswers
  <2>1. /\ app = "ready" /\ app' = app /\ signing \in Signing
        /\ \E g \in BOOLEAN : signing' = [signing EXCEPT !.step = "saving", !.permitted = g]
        /\ UNCHANGED <<leaving, asking, astray>> /\ UNCHANGED <<guard, running>>
        /\ leaving = "no"
    BY <1>6 DEF LoginAnswers, At, Phases, Steps, Known, CallTypes, history
  <2>2. Coming' = Coming /\ UNCHANGED <<config, intents, service, sticky>>
    BY <2>1, NobodyTells
  <2>3. signing' # none /\ signing'.step = "saving" /\ signing # none
    BY <2>1, NoneIsNothing DEF Signing
  <2>4. QED
    BY <2>1, <2>2, <2>3 DEF Guarded, GuardTypes
<1>7. CASE SignInPublishes
  BY <1>7, NobodyTells DEF SignInPublishes, GuardTypes, Phases, Steps, Known, kept, Guarded, Target, store, view, calls, history,
        guard, running, At, Follows, Swallowed, Coming
<1>8. CASE EditConnection
  BY <1>8, NobodyTells DEF EditConnection, GuardTypes, Phases, Steps, Known, kept, Guarded, Target, store, view, calls, history,
        guard, running, At
<1>9. CASE SignOut
  BY <1>9, NobodyTells DEF SignOut, GuardTypes, Phases, Steps, Known, kept, Guarded, Target, store, view, calls, history,
        guard, running, At
<1>10. CASE SignOutPublishes
  BY <1>10, NobodyTells DEF SignOutPublishes, GuardTypes, Phases, Steps, Known, kept, Guarded, Target, store, view, calls, history,
        guard, running, At
<1>11. CASE ToggleOn
  <2>1. /\ app = "ready" /\ app' = app /\ signing = none
        /\ settings' = [settings EXCEPT !.enabled = TRUE] /\ asking' = settings'
        /\ astray' = (astray \/ leaving # "no")
        /\ UNCHANGED <<signing, leaving>> /\ UNCHANGED <<guard, running>>
    BY <1>11 DEF ToggleOn, persistNotificationSettings, Phases, Steps
  <2>2. Coming' = Coming /\ UNCHANGED <<config, intents, service, sticky>>
    BY <2>1, NobodyTells
  <2>3. asking' # none
    BY <2>1, NoneIsNothing DEF CallTypes, Settings
  <2>4. QED
    BY <2>1, <2>2, <2>3 DEF Guarded, GuardTypes
<1>12. CASE RefreshOverview
  BY <1>12, NobodyTells DEF RefreshOverview, GuardTypes, Phases, Steps, Known, kept, Guarded, Target, store, view, calls, history,
        guard, running, At
<1>13. CASE \E a \in Account : OverviewArrives(a)
  BY <1>13, NobodyTells DEF OverviewArrives, GuardTypes, Phases, Steps, Known, kept, Guarded, Target, store, view, calls, history,
        guard, running, At
<1>14. CASE Leave
  BY <1>14, NobodyTells DEF Leave, GuardTypes, Phases, Steps, Known, kept, Guarded, Target, store, view, calls, history,
        guard, running, At
<1>15. CASE Return
  BY <1>15, NobodyTells DEF Return, GuardTypes, Phases, Steps, Known, kept, Guarded, Target, store, view, calls, history,
        guard, running, At
<1>16. CASE MarkerAges
  BY <1>16, NobodyTells DEF MarkerAges, GuardTypes, Phases, Steps, Known, kept, Guarded, Target, store, view, calls, history,
        guard, running, At
<1>17. CASE \E a \in Account : EventArrives(a)
  BY <1>17, NobodyTells DEF EventArrives, GuardTypes, Phases, Steps, Known, kept, Guarded, Target, store, view, calls,
        history, guard, running, At
<1>18. CASE NoticeAnswered
  <2>1. PICK g \in BOOLEAN : /\ (allowed => g) /\ allowed' = g
                             /\ astray' = (astray \/ (g /\ ~allowed))
    BY <1>18 DEF NoticeAnswered, Answered
  <2>2. /\ notifying /\ UNCHANGED <<app, settings, token, session, believed, signing, leaving, asking>>
        /\ UNCHANGED <<guard, running>>
    BY <1>18 DEF NoticeAnswered, store, kept
  <2>3. /\ app = "ready" /\ Coming' = Coming /\ UNCHANGED <<config, intents, service, sticky>>
    BY <2>2, NobodyTells DEF Phases, Steps
  <2>4. ~astray' => ~astray /\ allowed' = allowed
    BY <2>1 DEF CallTypes
  <2>5. QED
    BY <2>2, <2>3, <2>4 DEF Guarded, GuardTypes, Target
<1>19. QED
  BY <1>1, <1>2, <1>3, <1>4, <1>5, <1>6, <1>7, <1>8, <1>9, <1>10, <1>11, <1>12, <1>13, <1>14, <1>15, <1>16,
     <1>17, <1>18


\* Steps that tell it something, each what its call wants of it at that moment.
LEMMA ToldStep ==
    ASSUME CallTypes, GuardTypes, Phases, Guarded, CallTypes', Phases',
           \/ HydrateReadFails \/ HydrateAccepted \/ HydrateFails
           \/ LoginFails \/ SignInLinks \/ SignOutStops
           \/ PermissionAnswers \/ ToggleOff \/ ToggleCategory
    PROVE  GuardTypes' /\ Guarded'
<1>1. CASE HydrateAccepted
  <2>1. /\ app' = "linking" /\ app = "checking"
        /\ syncNativeGuardServiceState(token, settings, granted)
        /\ UNCHANGED <<token, settings, granted, allowed, signing, leaving, asking>>
        /\ UNCHANGED <<service, sticky>>
    BY <1>1 DEF HydrateAccepted, calls, kept, running
  <2>2. /\ signing = none /\ leaving = "no" /\ asking = none /\ (granted => allowed')
    BY <2>1 DEF Phases, Steps, Known
  <2>3. /\ Coming' = Target(token, settings, granted) /\ intents' # <<>>
        /\ config' \in Config \cup {none} /\ intents' \in Seq(Config \cup {STOP})
    BY <2>1, <2>2, SyncTells DEF CallTypes
  <2>4. Coming' = Target(token', settings', granted')
    BY <2>1, <2>3
  <2>5. QED
    BY <2>1, <2>2, <2>3, <2>4 DEF Guarded, GuardTypes
<1>2. CASE HydrateFails
  <2>1. /\ app' = "ready" /\ app = "checking" /\ stopGuardService /\ believed' = none
        /\ UNCHANGED <<signing, leaving, asking>> /\ UNCHANGED <<service, sticky>>
    BY <1>2 DEF HydrateFails, calls, running
  <2>2. signing = none /\ leaving = "no" /\ asking = none
    BY <2>1 DEF Phases, Steps, Known
  <2>3. /\ Coming' = none /\ intents' # <<>>
        /\ config' \in Config \cup {none} /\ intents' \in Seq(Config \cup {STOP})
    BY <2>1, StopTells
  <2>4. Target(believed', settings', allowed') = none
    BY <2>1 DEF Target
  <2>5. QED
    BY <2>1, <2>2, <2>3, <2>4 DEF Guarded, GuardTypes
<1>3. CASE LoginFails
  <2>1. /\ app' = app /\ signing # none /\ signing' = none /\ stopGuardService
        /\ UNCHANGED <<believed, leaving, asking, astray, session>> /\ UNCHANGED <<service, sticky>>
    BY <1>3 DEF LoginFails, At, running, history, kept, store
  <2>2. app = "ready" /\ session = none /\ believed = none /\ leaving = "no"
    BY <2>1 DEF Phases, Steps, Known
  <2>3. /\ Coming' = none /\ intents' # <<>>
        /\ config' \in Config \cup {none} /\ intents' \in Seq(Config \cup {STOP})
    BY <2>1, StopTells
  <2>4. Target(believed', settings', allowed') = none
    BY <2>1, <2>2 DEF Target
  <2>5. ~astray' => asking' = none
    BY <2>1 DEF Phases, Steps
  <2>6. QED
    BY <2>1, <2>2, <2>3, <2>4, <2>5 DEF Guarded, GuardTypes
<1>4. CASE SignInLinks
  <2>1. /\ app' = app /\ signing # none /\ signing' = [signing EXCEPT !.step = "linking"]
        /\ syncNativeGuardServiceState(signing.who, settings, signing.permitted)
        /\ UNCHANGED <<settings, granted, allowed, leaving, asking, astray>>
        /\ UNCHANGED <<service, sticky>>
    BY <1>4 DEF SignInLinks, At, running, history, kept, store
  <2>2. /\ app = "ready" /\ leaving = "no" /\ signing \in Signing /\ signing.who \in Account
        /\ signing.permitted \in BOOLEAN /\ (signing.permitted => allowed')
    BY <2>1 DEF Phases, Steps, Known, CallTypes, Signing
  <2>3. /\ Coming' = Target(signing.who, settings, signing.permitted) /\ intents' # <<>>
        /\ config' \in Config \cup {none} /\ intents' \in Seq(Config \cup {STOP})
    BY <2>1, <2>2, SyncTells DEF CallTypes
  <2>4. signing' # none /\ signing'.who = signing.who /\ signing'.permitted = signing.permitted
    BY <2>1, <2>2, NoneIsNothing DEF Signing
  <2>5. Coming' = Target(signing'.who, settings', signing'.permitted)
    BY <2>1, <2>3, <2>4
  <2>6. ~astray' => asking' = none
    BY <2>1 DEF Phases, Steps
  <2>7. QED
    BY <2>1, <2>2, <2>3, <2>4, <2>5, <2>6 DEF Guarded, GuardTypes
<1>5. CASE SignOutStops
  <2>1. /\ app' = app /\ leaving' = "stopping" /\ leaving = "saving" /\ stopGuardService
        /\ UNCHANGED <<settings, signing, asking, astray>> /\ UNCHANGED <<service, sticky>>
    BY <1>5 DEF SignOutStops, running, kept, history
  <2>2. app = "ready" /\ signing = none
    BY <2>1 DEF Phases, Steps, Known
  <2>3. /\ Coming' = none /\ intents' # <<>>
        /\ config' \in Config \cup {none} /\ intents' \in Seq(Config \cup {STOP})
    BY <2>1, StopTells
  <2>4. ~astray' /\ asking' # none => asking' = settings' /\ signing' = none
    BY <2>1 DEF Phases, Steps
  <2>5. QED
    BY <2>1, <2>2, <2>3, <2>4 DEF Guarded, GuardTypes
<1>6. CASE PermissionAnswers
  <2>1. PICK g \in BOOLEAN : /\ Answered(g) /\ granted' = g
                             /\ syncNativeGuardServiceState(session, asking, g)
    BY <1>6 DEF PermissionAnswers
  <2>2. /\ asking # none /\ asking' = none /\ allowed' = g /\ app' = app
        /\ astray' = (astray \/ leaving # "no")
        /\ UNCHANGED <<settings, session, believed, signing, leaving>> /\ UNCHANGED <<service, sticky>>
    BY <1>6, <2>1 DEF PermissionAnswers, Answered, running, kept, store
  <2>3. app = "ready" /\ believed = session /\ asking \in Settings /\ (g => allowed')
    BY <2>2 DEF Phases, Steps, Known, CallTypes
  <2>4. /\ Coming' = Target(session, asking, g) /\ intents' # <<>>
        /\ config' \in Config \cup {none} /\ intents' \in Seq(Config \cup {STOP})
    BY <2>1, <2>2, <2>3, SyncTells DEF CallTypes
  <2>5. ~astray' => leaving' = "no" /\ asking = settings /\ signing' = none
    BY <2>2 DEF Phases, Steps
  <2>6. ~astray' => Coming' = Target(believed', settings', allowed')
    BY <2>2, <2>3, <2>4, <2>5
  <2>7. QED
    BY <2>2, <2>3, <2>4, <2>5, <2>6 DEF Guarded, GuardTypes
<1>7. ASSUME NEW next \in Settings, Change(next)
      PROVE  GuardTypes' /\ Guarded'
  <2>1. /\ app = "ready" /\ app' = app /\ session # none /\ settings' = next
        /\ syncNativeGuardServiceState(session, next, granted)
        /\ astray' = (astray \/ leaving # "no" \/ asking # none)
        /\ UNCHANGED <<allowed, granted, session, believed, signing, leaving, asking>>
        /\ UNCHANGED <<service, sticky>>
    BY <1>7 DEF Change, persistNotificationSettings, running, calls, store
  <2>2. signing = none /\ believed = session /\ (granted => allowed')
    BY <2>1 DEF Phases, Steps, Known
  <2>3. /\ Coming' = Target(session, next, granted) /\ intents' # <<>>
        /\ config' \in Config \cup {none} /\ intents' \in Seq(Config \cup {STOP})
    BY <2>1, <2>2, SyncTells DEF CallTypes
  <2>4. ~astray' => asking' = none /\ leaving' = "no"
    BY <2>1
  <2>5. ~astray' => Target(session, next, granted) = Target(believed', settings', allowed')
    <3>1. CASE ~settings'.enabled
      BY <2>1, <3>1 DEF Target
    <3>2. CASE settings'.enabled
      <4>1. ~astray' => (granted' <=> allowed')
        BY <2>1, <2>4, <3>2 DEF Phases, Steps, Known
      <4>2. QED
        BY <2>1, <2>2, <4>1, Zenon DEF Target
    <3>3. QED
      BY <3>1, <3>2
  <2>6. QED
    BY <2>1, <2>2, <2>3, <2>4, <2>5 DEF Guarded, GuardTypes
<1>8. CASE ToggleOff
  BY <1>7, <1>8 DEF ToggleOff, CallTypes, Settings
<1>9. CASE ToggleCategory
  BY <1>7, <1>9 DEF ToggleCategory, CallTypes, Settings
<1>10. CASE HydrateReadFails
  <2>1. /\ app' = "ready" /\ app = "starting" /\ stopGuardService /\ believed' = none
        /\ UNCHANGED <<signing, leaving, asking>> /\ UNCHANGED <<service, sticky>>
    BY <1>10 DEF HydrateReadFails, calls, running
  <2>2. signing = none /\ leaving = "no" /\ asking = none
    BY <2>1 DEF Phases, Steps
  <2>3. /\ Coming' = none /\ intents' # <<>>
        /\ config' \in Config \cup {none} /\ intents' \in Seq(Config \cup {STOP})
    BY <2>1, StopTells
  <2>4. Target(believed', settings', allowed') = none
    BY <2>1 DEF Target
  <2>5. QED
    BY <2>1, <2>2, <2>3, <2>4 DEF Guarded, GuardTypes
<1>11. QED
  BY <1>1, <1>2, <1>3, <1>4, <1>5, <1>6, <1>8, <1>9, <1>10


\* Steps of the service and of the system: it goes on to do what it was going to do,
\* or a start was swallowed, and that is remembered.
LEMMA ServiceStep ==
    ASSUME CallTypes, GuardTypes, Phases, Guarded,
           \/ ServiceStarts \/ ServiceStops \/ ProcessDies \/ StickyRestart
    PROVE  GuardTypes' /\ Guarded'
<1>1. CASE ServiceStarts
  <2>1. /\ Coming' = Coming /\ config' \in Config /\ service' = config'
        /\ intents' \in Seq(Config \cup {STOP})
    BY <1>1, ServiceStartsStep
  <2>2. intents # <<>> /\ UNCHANGED <<app, token, settings, granted, allowed, signing, leaving, asking, believed, astray>>
    BY <1>1 DEF ServiceStarts, kept, store, calls, history
  <2>3. ~Swallowed
    BY <2>2 DEF Swallowed
  <2>4. QED
    BY <2>1, <2>2, <2>3 DEF Guarded, GuardTypes, Target
<1>2. CASE ServiceStops
  <2>1. /\ Swallowed' \/ Coming' = Coming
        /\ ~astray' => Coming' = Coming /\ ~astray
        /\ service' = none
        /\ config' \in Config \cup {none} /\ intents' \in Seq(Config \cup {STOP})
    BY <1>2, ServiceStopsStep
  <2>2. intents # <<>> /\ UNCHANGED <<app, token, settings, granted, allowed, signing, leaving, asking, believed>>
    BY <1>2 DEF ServiceStops, kept, store, calls
  <2>3. ~Swallowed
    BY <2>2 DEF Swallowed
  <2>4. QED
    BY <2>1, <2>2, <2>3 DEF Guarded, GuardTypes, Target
<1>3. CASE ProcessDies
  <2>1. Coming' = Coming /\ service' = none /\ UNCHANGED <<config, intents>>
    BY <1>3, ServiceDiesStep
  <2>2. /\ app' = "dead" /\ signing' = none /\ leaving' = "no" /\ asking' = none
        /\ UNCHANGED <<settings, allowed, believed>>
        /\ astray' = (astray \/ signing # none \/ leaving # "no" \/ asking # none
                      \/ app \in {"checking", "linking"})
    BY <1>3 DEF ProcessDies, kept
  <2>3. ~astray' => /\ ~astray /\ signing = none /\ leaving = "no" /\ asking = none
                    /\ app \in {"dead", "starting", "ready"}
    BY <2>2 DEF CallTypes
  <2>4. ~astray' => Coming' = Target(believed', settings', allowed')
    BY <2>1, <2>2, <2>3 DEF Guarded, Target
  <2>5. QED
    BY <2>1, <2>2, <2>4 DEF Guarded, GuardTypes
<1>4. CASE StickyRestart
  <2>1. /\ Coming' = Coming /\ ~Swallowed /\ service' = config /\ UNCHANGED <<config, intents>>
    BY <1>4, StickyRestartStep
  <2>2. UNCHANGED <<app, token, settings, granted, allowed, signing, leaving, asking, believed, astray>>
    BY <1>4 DEF StickyRestart, kept, store, calls, history
  <2>3. QED
    BY <2>1, <2>2 DEF Guarded, GuardTypes, Target
<1>5. QED
  BY <1>1, <1>2, <1>3, <1>4

\* The invariant is inductive.
LEMMA MobileInvStep == MobileInv /\ [MobileNext]_mobileVars => MobileInv'
<1>1. ASSUME MobileInv, MobileNext
      PROVE  MobileInv'
  <2>1. CallTypes' /\ Phases'
    BY <1>1, PhasesStep DEF MobileInv, MobileTypeOK
  <2>2. Store'
    BY <1>1, StoreStep DEF MobileInv, MobileTypeOK
  <2>3. GuardTypes' /\ Guarded'
    <3>1. CASE \/ Launch \/ HydrateLoads \/ HydrateRejected \/ HydratePublishes
               \/ (\E a \in Account : SignIn(a)) \/ LoginAnswers \/ SignInPublishes
               \/ EditConnection \/ SignOut \/ SignOutPublishes \/ ToggleOn
               \/ RefreshOverview \/ (\E a \in Account : OverviewArrives(a))
               \/ Leave \/ Return \/ MarkerAges
               \/ (\E a \in Account : EventArrives(a)) \/ NoticeAnswered
      BY <1>1, <2>1, <3>1, UntoldStep DEF MobileInv, MobileTypeOK
    <3>2. CASE \/ HydrateReadFails \/ HydrateAccepted \/ HydrateFails \/ LoginFails \/ SignInLinks
               \/ SignOutStops \/ PermissionAnswers \/ ToggleOff \/ ToggleCategory
      BY <1>1, <2>1, <3>2, ToldStep DEF MobileInv, MobileTypeOK
    <3>3. CASE ServiceStarts \/ ServiceStops \/ ProcessDies \/ StickyRestart
      BY <1>1, <3>3, ServiceStep DEF MobileInv, MobileTypeOK
    <3>4. QED
      BY <1>1, <3>1, <3>2, <3>3 DEF MobileNext
  <2>4. QED
    BY <2>1, <2>2, <2>3 DEF MobileInv, MobileTypeOK
<1>2. ASSUME MobileInv, UNCHANGED mobileVars
      PROVE  MobileInv'
  <2>1. UNCHANGED <<saved, settings, stored, notifying, app, token, session, shown, socket, granted, allowed,
                    signing, leaving, asking, config, intents, service, sticky,
                    believed, crossed, astray>>
    BY <1>2 DEF mobileVars, kept, store, calls, guard, running, history
  <2>2. CallTypes' /\ GuardTypes'
    BY <1>2, <2>1 DEF MobileInv, MobileTypeOK, CallTypes, GuardTypes
  <2>3. Phases' /\ Store'
    BY <1>2, <2>1 DEF MobileInv, Phases, Steps, Known, Store
  <2>4. Guarded'
    BY <1>2, <2>1 DEF MobileInv, Guarded, Coming, Target, Swallowed
  <2>5. QED
    BY <2>2, <2>3, <2>4 DEF MobileInv, MobileTypeOK
<1>3. QED
  BY <1>1, <1>2

\* The application starts with nothing of anybody.
LEMMA MobileInitInv == MobileInit => MobileInv
<1> SUFFICES ASSUME MobileInit PROVE MobileInv
  OBVIOUS
<1>1. CallTypes /\ GuardTypes
  <2>1. settings \in Settings /\ stored \in Settings
    BY DEF MobileInit, Settings
  <2>2. intents \in Seq(Config \cup {STOP})
    BY DEF MobileInit
  <2>3. QED
    BY <2>1, <2>2 DEF MobileInit, CallTypes, GuardTypes
<1>2. Phases /\ Store
  BY DEF MobileInit, Phases, Steps, Known, Store
<1>3. Guarded
  <2>1. Coming = none /\ Target(believed, settings, allowed) = none
    BY DEF MobileInit, Coming, Target
  <2>2. QED
    BY <2>1 DEF MobileInit, Guarded
<1>4. QED
  BY <1>1, <1>2, <1>3 DEF MobileInv, MobileTypeOK

-----------------------------------------------------------------------------
(* What the invariant says once the calls are over. *)

\* The store speaks of one account.
LEMMA InvServesOne == MobileInv => OneAccount
BY DEF MobileInv, Store, OneAccount, Idle

\* What is posted follows the session: by the application while it is in front, by
\* the guard once the marker has aged.
LEMMA InvServesNotices == MobileInv => NoticesFollowSession
<1> SUFFICES ASSUME MobileInv, Still, ~astray, NEW a \in Account
             PROVE  Posts(a) <=> a = believed /\ settings.enabled /\ settings.category /\ allowed
  BY DEF NoticesFollowSession
<1>1. service = Target(believed, settings, allowed)
  BY DEF MobileInv, Guarded, Still, Idle, Coming
<1>2. a # none /\ settings \in Settings /\ believed \in Account \cup {none}
  BY NoneIsNothing DEF MobileInv, MobileTypeOK, CallTypes
<1>3. session # none => believed = session /\ socket \in {none, session}
  BY <1>2 DEF MobileInv, Phases, Steps, Store, CallTypes, Still, Idle
<1>4. ASSUME dispatchNotification(a), allowed
      PROVE  a = believed /\ settings.enabled /\ settings.category /\ allowed
  BY <1>2, <1>3, <1>4 DEF dispatchNotification
<1>5. ASSUME showRealtimeNotification(a)
      PROVE  a = believed /\ settings.enabled /\ settings.category /\ allowed
  <2>1. believed # none /\ settings.enabled /\ allowed
    BY <1>1, <1>5, Zenon DEF showRealtimeNotification, Target
  <2>2. service = [who |-> believed, category |-> settings.category]
    BY <1>1, <2>1, Zenon DEF Target
  <2>3. service.who = believed /\ service.category = settings.category
    BY <2>2
  <2>4. QED
    BY <1>5, <2>1, <2>3, Zenon DEF showRealtimeNotification
<1>6. ASSUME a = believed, settings.enabled, settings.category, allowed
      PROVE  showRealtimeNotification(a)
  <2>1. service = [who |-> believed, category |-> settings.category]
    BY <1>1, <1>2, <1>6, Zenon DEF Target
  <2>2. service.who = believed /\ service.category = settings.category
    BY <2>1
  <2>3. service \in Config
    BY <1>2, <1>6, <2>1 DEF Config, Settings
  <2>4. service # none
    BY <2>3, StopFacts
  <2>5. ~marker
    BY DEF Still
  <2>6. QED
    BY <1>6, <2>2, <2>4, <2>5, Zenon DEF showRealtimeNotification
<1>7. QED
  BY <1>4, <1>5, <1>6, Zenon DEF Posts

\* The application and its guard serve the session that the user believes in: between
\* its calls the store speaks of one account, and once everything has settled an event
\* is notified exactly to whom it concerns (useAppStore.ts with the guard service).
THEOREM SessionAlwaysServed == MobileSpec => []SessionIsServed
<1>1. MobileInv => SessionIsServed
  BY InvServesOne, InvServesNotices DEF SessionIsServed
<1>2. QED
  BY MobileInitInv, MobileInvStep, <1>1, PTL DEF MobileSpec

-----------------------------------------------------------------------------
(***************************************************************************)
(* A notice about idle GPUs is earned.  The invariant ties what the samples *)
(* still show to what was reported: after a busy report, a GPU that was busy *)
(* either has a busy sample from then on or has lost everything older,     *)
(* unless the answer that a newer report had overtaken took its place.     *)
(***************************************************************************)

\* Samples and history; ages stop at their limits.
IdleTypeOK ==
    /\ samples \in [Server -> [Gpu -> SUBSET Sample]]
    /\ armed \in [Server -> BOOLEAN] /\ left \in [Server -> BOOLEAN]
    /\ lastNotice \in 0 .. Cooldown /\ sinceNotice \in 0 .. Cooldown
    /\ busyAge \in [Server -> 0 .. WindowAge] /\ cleared \in BOOLEAN
    /\ latest \in [Server -> Report] /\ answers \subseteq [Server -> Report]
    /\ forgotten \in [Server -> BOOLEAN]

\* A busy report shows in a GPU's samples, or nothing older is among them.
ShownIn(window, age) ==
    \/ \E x \in window : ~x.idle /\ x.age <= age
    \/ \A x \in window : x.age <= age

\* After a busy report too few GPUs are without a trace of it.
Traced(window, age) ==
    \E I \in SUBSET Gpu : /\ Cardinality(I) < MinIdle
                          /\ \A g \in Gpu \ I : ShownIn(window[g], age)

BusyIsTraced ==
    \A s \in Server : busyAge[s] < WindowAge =>
        MinIdle > 0 /\ (forgotten[s] \/ Traced(samples[s], busyAge[s]))

\* Nothing that the phone has or may get of a server is newer than what the backend has.
LatestIsNewest ==
    \A s \in Server :
        /\ \A g \in Gpu : \A x \in samples[s][g] : x.age >= latest[s].age
        /\ \A got \in answers : got[s].age >= latest[s].age

IdleInv ==
    /\ IdleTypeOK /\ BusyIsTraced /\ LatestIsNewest
    /\ cleared \/ lastNotice = sinceNotice
    /\ \A s \in Server : armed[s] => left[s]

-----------------------------------------------------------------------------
(* Lemmas. *)

\* Where a busy report of the window has left its trace, the rule's condition fails.
LEMMA TraceForbidsNotice ==
    ASSUME NEW window, NEW age \in Nat, age < WindowAge, Traced(window, age),
           \A g \in Gpu : \A x \in window[g] : x.age \in Nat
    PROVE  ~ConditionActive(window)
<1>1. PICK I \in SUBSET Gpu : /\ Cardinality(I) < MinIdle
                              /\ \A g \in Gpu \ I : ShownIn(window[g], age)
  BY DEF Traced
<1> DEFINE quiet == {g \in Gpu : isGpuIdleForRule(window[g])}
<1>2. quiet \subseteq I
  <2> SUFFICES ASSUME NEW g \in quiet, g \notin I PROVE FALSE
    OBVIOUS
  <2>1. /\ \E x \in window[g] : x.age >= WindowAge
        /\ \A x \in window[g] : x.idle
    BY DEF isGpuIdleForRule
  <2>2. \A x \in window[g] : x.age <= age
    BY <1>1, <2>1 DEF ShownIn
  <2>3. QED
    BY <2>1, <2>2, IdleAssumption
<1>3. IsFiniteSet(I) /\ Cardinality(I) \in Nat
  BY IdleAssumption, FS_Subset, FS_CardinalityType
<1>4. Cardinality(quiet) <= Cardinality(I) /\ Cardinality(quiet) \in Nat
  BY <1>2, <1>3, FS_Subset, FS_CardinalityType
<1>5. ~(Cardinality(quiet) >= MinIdle)
  BY <1>1, <1>3, <1>4, IdleAssumption
<1>6. QED
  BY <1>5 DEF ConditionActive

\* A report that is not busy leaves the trace of an earlier one alone.
LEMMA RecordKeepsTrace ==
    ASSUME NEW window \in [Gpu -> SUBSET Sample], NEW age \in Nat, NEW idle \in SUBSET Gpu,
           Traced(window, age), \A g \in Gpu : \A x \in window[g] : x.age # 0
    PROVE  Traced([g \in Gpu |-> {x \in window[g] : x.age # 0} \cup {[age |-> 0, idle |-> g \in idle]}], age)
<1> DEFINE new == [g \in Gpu |-> {x \in window[g] : x.age # 0} \cup {[age |-> 0, idle |-> g \in idle]}]
<1>1. PICK I \in SUBSET Gpu : /\ Cardinality(I) < MinIdle
                              /\ \A g \in Gpu \ I : ShownIn(window[g], age)
  BY DEF Traced
<1>2. ASSUME NEW g \in Gpu \ I PROVE ShownIn(new[g], age)
  <2> DEFINE clean == {x \in window[g] : x.age # 0}
             fresh == [age |-> 0, idle |-> g \in idle]
  <2>1. new[g] = clean \cup {fresh} /\ fresh.age = 0
    OBVIOUS
  <2>4. clean = window[g]
    OBVIOUS
  <2> HIDE DEF new, clean, fresh
  <2>2. ShownIn(window[g], age)
    BY <1>1
  <2>3. QED
    BY <2>1, <2>2, <2>4 DEF ShownIn
<1>3. QED
  BY <1>1, <1>2 DEF Traced

\* A busy report leaves its trace.
LEMMA BusyLeavesTrace ==
    ASSUME NEW window, NEW idle \in SUBSET Gpu, Cardinality(idle) < MinIdle
    PROVE  Traced([g \in Gpu |-> window[g] \cup {[age |-> 0, idle |-> g \in idle]}], 0)
<1> DEFINE new == [g \in Gpu |-> window[g] \cup {[age |-> 0, idle |-> g \in idle]}]
<1>1. ASSUME NEW g \in Gpu \ idle PROVE ShownIn(new[g], 0)
  <2> DEFINE fresh == [age |-> 0, idle |-> g \in idle]
  <2>1. new[g] = window[g] \cup {fresh} /\ fresh.age = 0
    OBVIOUS
  <2>2. ~fresh.idle
    BY <1>1
  <2> HIDE DEF new, fresh
  <2>3. QED
    BY <2>1, <2>2 DEF ShownIn
<1>2. QED
  BY <1>1 DEF Traced

\* Samples no older than the busy report are a trace of it, where some idle GPU is asked for.
LEMMA NothingOlderIsTrace ==
    ASSUME NEW window, NEW age, MinIdle > 0, \A g \in Gpu : \A x \in window[g] : x.age <= age
    PROVE  Traced(window, age)
<1>1. {} \in SUBSET Gpu /\ Cardinality({}) < MinIdle
  BY FS_EmptySet, IdleAssumption
<1>2. \A g \in Gpu \ {} : ShownIn(window[g], age)
  BY DEF ShownIn
<1>3. QED
  BY <1>1, <1>2 DEF Traced

\* The samples that an answer starts anew: one of every GPU, as old as the report.
LEMMA PrimedSamples ==
    ASSUME NEW r \in Report
    PROVE  /\ Primed(r) \in [Gpu -> SUBSET Sample]
           /\ \A g \in Gpu : \A x \in Primed(r)[g] :
                r.age <= WindowAge /\ x.age = r.age /\ x.idle = (g \in r.idle)
<1>1. r.age \in 0 .. WindowAge + 1 /\ r.idle \in SUBSET Gpu
  BY DEF Report
<1>2. ASSUME NEW g \in Gpu
      PROVE  /\ Primed(r)[g] \in SUBSET Sample
             /\ \A x \in Primed(r)[g] : r.age <= WindowAge /\ x.age = r.age /\ x.idle = (g \in r.idle)
  <2>1. CASE r.age > WindowAge
    BY <2>1 DEF Primed
  <2>2. CASE ~(r.age > WindowAge)
    <3>1. r.age \in 0 .. WindowAge /\ (g \in r.idle) \in BOOLEAN
      BY <1>1, <2>2, IdleAssumption
    <3>2. [age |-> r.age, idle |-> g \in r.idle] \in Sample
      BY <3>1 DEF Sample
    <3>3. Primed(r)[g] = {[age |-> r.age, idle |-> g \in r.idle]}
      BY <2>2 DEF Primed
    <3>4. r.age <= WindowAge
      BY <3>1, IdleAssumption
    <3>5. QED
      BY <3>2, <3>3, <3>4
  <2>3. QED
    BY <2>1, <2>2
<1>3. QED
  BY <1>2 DEF Primed

\* A busy report that an answer brings is traced in the samples it starts.
LEMMA BusyPrimedIsTraced ==
    ASSUME NEW r \in Report, Busy(r.idle)
    PROVE  Traced(Primed(r), r.age)
<1>1. r.idle \in SUBSET Gpu /\ Cardinality(r.idle) < MinIdle
  BY DEF Report, Busy
<1>2. ASSUME NEW g \in Gpu \ r.idle PROVE ShownIn(Primed(r)[g], r.age)
  <2>1. \A x \in Primed(r)[g] : x.age = r.age
    BY PrimedSamples
  <2>2. r.age \in 0 .. WindowAge + 1
    BY DEF Report
  <2>3. QED
    BY <2>1, <2>2 DEF ShownIn
<1>3. QED
  BY <1>1, <1>2 DEF Traced

\* It ages with the report.
LEMMA AgingKeepsTrace ==
    ASSUME NEW window \in [Gpu -> SUBSET Sample], NEW age \in Nat, Traced(window, age),
           age + 1 < WindowAge
    PROVE  Traced([g \in Gpu |-> {[x EXCEPT !.age = @ + 1] :
                                     x \in {y \in window[g] : y.age < WindowAge}}], age + 1)
<1> DEFINE new == [g \in Gpu |-> {[x EXCEPT !.age = @ + 1] :
                                     x \in {y \in window[g] : y.age < WindowAge}}]
<1>1. PICK I \in SUBSET Gpu : /\ Cardinality(I) < MinIdle
                              /\ \A g \in Gpu \ I : ShownIn(window[g], age)
  BY DEF Traced
<1>2. ASSUME NEW g \in Gpu \ I PROVE ShownIn(new[g], age + 1)
  <2> DEFINE older(x) == [x EXCEPT !.age = @ + 1]
             young == {y \in window[g] : y.age < WindowAge}
  <2>1. \A x \in window[g] : /\ x \in Sample /\ x.age \in Nat
                           /\ older(x).age = x.age + 1 /\ older(x).idle = x.idle
    BY DEF Sample
  <2>5. new[g] = {older(x) : x \in young}
    OBVIOUS
  <2> HIDE DEF new, older
  <2>2. CASE \E x \in window[g] : ~x.idle /\ x.age <= age
    <3>1. PICK x \in window[g] : ~x.idle /\ x.age <= age
      BY <2>2
    <3>2. x.age < WindowAge
      BY <2>1, <3>1, IdleAssumption
    <3>3. older(x) \in new[g]
      BY <2>5, <3>1, <3>2
    <3>4. QED
      BY <2>1, <3>1, <3>3 DEF ShownIn
  <2>3. CASE \A x \in window[g] : x.age <= age
    <3>1. \A z \in new[g] : z.age <= age + 1
      BY <2>1, <2>3, <2>5
    <3>2. QED
      BY <3>1 DEF ShownIn
  <2>4. QED
    BY <1>1, <2>2, <2>3 DEF ShownIn
<1>3. QED
  BY <1>1, <1>2 DEF Traced


-----------------------------------------------------------------------------
(* The steps. *)

\* Fewer idle GPUs than the rule asks for: it asks for some.
LEMMA BusyNeedsSome == ASSUME NEW idle \in SUBSET Gpu, Busy(idle) PROVE MinIdle > 0
<1>1. Cardinality(idle) \in Nat
  BY IdleAssumption, FS_Subset, FS_CardinalityType
<1>2. QED
  BY <1>1, IdleAssumption DEF Busy

\* A new report of a server is the newest, wherever it goes.
LEMMA ReportedStep ==
    ASSUME IdleInv, NEW s \in Server, NEW idle \in SUBSET Gpu, Reported(s, idle)
    PROVE  /\ latest' \in [Server -> Report] /\ latest'[s].age = 0
           /\ \A u \in Server \ {s} : latest'[u] = latest[u]
           /\ \A g \in Gpu : \A x \in samples[s][g] : x \in Sample /\ x.age # 0
           /\ \A got \in answers : got[s].age \in Nat
<1>1. latest[s].age # 0 /\ latest' = [latest EXCEPT ![s] = [age |-> 0, idle |-> idle]]
  BY DEF Reported
<1>2. [age |-> 0, idle |-> idle] \in Report
  BY IdleAssumption DEF Report
<1>3. latest \in [Server -> Report] /\ latest[s].age \in 0 .. WindowAge + 1
  BY DEF IdleInv, IdleTypeOK, Report
<1>4. ASSUME NEW g \in Gpu, NEW x \in samples[s][g]
      PROVE  x \in Sample /\ x.age # 0
  <2>1. x \in Sample /\ x.age >= latest[s].age
    BY DEF IdleInv, IdleTypeOK, LatestIsNewest
  <2>2. QED
    BY <1>1, <1>3, <2>1 DEF Sample
<1>5. ASSUME NEW got \in answers PROVE got[s].age \in Nat
  <2>1. got[s] \in Report
    BY DEF IdleInv, IdleTypeOK
  <2>2. QED
    BY <2>1, IdleAssumption DEF Report
<1>6. QED
  BY <1>1, <1>2, <1>3, <1>4, <1>5

\* A report: what it shows of a busy server is traced, and a notice that it starts is
\* earned.
LEMMA MetricsStep ==
    ASSUME IdleInv, NEW s \in Server, NEW idle \in SUBSET Gpu, MetricsUpdate(s, idle)
    PROVE  /\ IdleInv'
           /\ \A u \in Server : <<u, TRUE>> \in showing' \ showing =>
                /\ busyAge'[u] >= WindowAge \/ forgotten[u]
                /\ sinceNotice >= Cooldown \/ cleared
                /\ left[u]
<1> DEFINE recorded == recordGpuSamples(s, idle)
<1>1. /\ samples' = [samples EXCEPT ![s] = recorded]
      /\ busyAge' = [busyAge EXCEPT ![s] = IF Busy(idle) THEN 0 ELSE @]
      /\ forgotten' = [forgotten EXCEPT ![s] = @ /\ ~Busy(idle)]
      /\ left' = [left EXCEPT ![s] = @ \/ s \notin rules \/ ~ConditionActive(samples'[s])]
      /\ UNCHANGED <<lastNotice, sinceNotice, cleared, answers>>
      /\ Reported(s, idle)
  BY DEF MetricsUpdate
<1>2. recorded \in [Gpu -> SUBSET Sample]
  <2>1. ASSUME NEW g \in Gpu PROVE [age |-> 0, idle |-> g \in idle] \in Sample
    <3>1. (g \in idle) \in BOOLEAN /\ 0 \in 0 .. WindowAge
      BY IdleAssumption
    <3>2. QED
      BY <3>1 DEF Sample
  <2>2. QED
    BY <2>1 DEF recordGpuSamples, IdleInv, IdleTypeOK
<1> HIDE DEF recorded
<1>3. samples' \in [Server -> [Gpu -> SUBSET Sample]] /\ samples'[s] = recorded
      /\ \A u \in Server \ {s} : samples'[u] = samples[u]
  BY <1>1, <1>2 DEF IdleInv, IdleTypeOK
<1>4. /\ busyAge' \in [Server -> 0 .. WindowAge]
      /\ \A u \in Server \ {s} : busyAge'[u] = busyAge[u]
      /\ busyAge'[s] = IF Busy(idle) THEN 0 ELSE busyAge[s]
      /\ forgotten' \in [Server -> BOOLEAN]
      /\ \A u \in Server \ {s} : forgotten'[u] = forgotten[u]
      /\ forgotten'[s] = (forgotten[s] /\ ~Busy(idle))
  BY <1>1, IdleAssumption DEF IdleInv, IdleTypeOK
<1>12. /\ latest' \in [Server -> Report] /\ latest'[s].age = 0
       /\ \A u \in Server \ {s} : latest'[u] = latest[u]
       /\ \A g \in Gpu : \A x \in samples[s][g] : x \in Sample /\ x.age # 0
       /\ \A got \in answers : got[s].age \in Nat
  BY <1>1, ReportedStep
<1>13. LatestIsNewest'
  <2> SUFFICES ASSUME NEW u \in Server
               PROVE  /\ \A g \in Gpu : \A x \in samples'[u][g] : x.age >= latest'[u].age
                      /\ \A got \in answers : got[u].age >= latest'[u].age
    BY <1>1 DEF LatestIsNewest
  <2>1. CASE u # s
    BY <1>3, <1>12, <2>1 DEF IdleInv, LatestIsNewest
  <2>2. CASE u = s
    <3>1. \A g \in Gpu : \A x \in recorded[g] : x.age \in Nat
      BY <1>2, IdleAssumption DEF Sample
    <3>2. QED
      BY <1>3, <1>12, <2>2, <3>1
  <2>3. QED
    BY <2>1, <2>2
<1>5. BusyIsTraced'
  <2> SUFFICES ASSUME NEW u \in Server, busyAge'[u] < WindowAge
               PROVE  MinIdle > 0 /\ (forgotten'[u] \/ Traced(samples'[u], busyAge'[u]))
    BY DEF BusyIsTraced
  <2>1. CASE u # s
    BY <1>3, <1>4, <2>1 DEF IdleInv, BusyIsTraced
  <2>2. CASE u = s /\ Busy(idle)
    <3>1. recorded = [g \in Gpu |-> samples[s][g] \cup {[age |-> 0, idle |-> g \in idle]}]
      <4>1. \A g \in Gpu : {x \in samples[s][g] : x.age # 0} = samples[s][g]
        BY <1>12
      <4>2. QED
        BY <4>1 DEF recorded, recordGpuSamples
    <3>2. Traced(recorded, 0)
      BY <2>2, <3>1, BusyLeavesTrace DEF Busy
    <3>3. MinIdle > 0
      BY <2>2, BusyNeedsSome
    <3>4. QED
      BY <1>3, <1>4, <2>2, <3>2, <3>3
  <2>3. CASE u = s /\ ~Busy(idle)
    <3>1. /\ busyAge'[s] = busyAge[s] /\ busyAge[s] \in Nat /\ samples[s] \in [Gpu -> SUBSET Sample]
          /\ forgotten'[s] = forgotten[s]
      BY <1>4, <2>3 DEF IdleInv, IdleTypeOK
    <3>2. MinIdle > 0 /\ (forgotten[s] \/ Traced(samples[s], busyAge[s]))
      BY <2>3, <3>1 DEF IdleInv, BusyIsTraced
    <3>3. Traced(samples[s], busyAge[s]) => Traced(recorded, busyAge[s])
      BY <1>12, <3>1, RecordKeepsTrace DEF recorded, recordGpuSamples
    <3>4. QED
      BY <1>3, <2>3, <3>1, <3>2, <3>3
  <2>4. QED
    BY <2>1, <2>2, <2>3
<1>6. left' \in [Server -> BOOLEAN] /\ \A u \in Server : left[u] => left'[u]
  BY <1>1 DEF IdleInv, IdleTypeOK
<1>7. /\ armed' \in [Server -> BOOLEAN]
      /\ \A u \in Server : armed'[u] => armed[u] \/ (u = s /\ ~ConditionActive(samples'[s]))
  <2>1. CASE UNCHANGED armed
    BY <2>1 DEF IdleInv, IdleTypeOK
  <2>2. CASE WhileBusy(s)
    BY <2>2 DEF WhileBusy, IdleInv, IdleTypeOK
  <2>3. QED
    BY <2>1, <2>2 DEF MetricsUpdate, WithoutRule, WhileIdle
<1>8. \A u \in Server : armed'[u] => left'[u]
  <2>1. ~ConditionActive(samples'[s]) => left'[s]
    BY <1>1 DEF IdleInv, IdleTypeOK
  <2>2. QED
    BY <1>6, <1>7, <2>1 DEF IdleInv
<1>9. IdleInv'
  BY <1>1, <1>3, <1>4, <1>5, <1>6, <1>7, <1>8, <1>12, <1>13 DEF IdleInv, IdleTypeOK
<1>10. ASSUME NEW u \in Server, <<u, TRUE>> \in showing' \ showing
       PROVE  /\ busyAge'[u] >= WindowAge \/ forgotten[u]
              /\ sinceNotice >= Cooldown \/ cleared
              /\ left[u]
  <2>1. u = s /\ ConditionActive(samples'[s]) /\ armed[s] /\ lastNotice >= Cooldown
    <3>1. CASE WithoutRule(s) \/ WhileBusy(s)
      BY <1>10, <3>1 DEF WithoutRule, WhileBusy
    <3>2. CASE WhileIdle(s)
      <4>1. ConditionActive(samples'[s])
        BY <3>2 DEF WhileIdle
      <4>2. \/ armed[s] /\ lastNotice >= Cooldown /\ showing' = showing \cup {<<s, TRUE>>}
            \/ showing' = showing
        BY <3>2, Zenon DEF WhileIdle
      <4>3. armed[s] /\ lastNotice >= Cooldown /\ showing' = showing \cup {<<s, TRUE>>}
        BY <1>10, <4>2, Zenon
      <4>4. <<u, TRUE>> = <<s, TRUE>>
        BY <1>10, <4>3, Zenon
      <4>5. u = s
        BY <4>4
      <4>6. QED
        BY <4>1, <4>3, <4>5, Zenon
    <3>3. QED
      BY <3>1, <3>2 DEF MetricsUpdate
  <2>2. ASSUME busyAge'[s] < WindowAge, ~forgotten[s]
        PROVE  FALSE
    <3>1. Traced(samples'[s], busyAge'[s]) /\ busyAge'[s] \in Nat
      BY <1>4, <1>5, <2>2 DEF BusyIsTraced
    <3>2. \A g \in Gpu : \A x \in samples'[s][g] : x.age \in Nat
      BY <1>3 DEF Sample
    <3>3. QED
      BY <2>1, <2>2, <3>1, <3>2, TraceForbidsNotice
  <2>3. busyAge'[s] \in Nat
    BY <1>4
  <2>4. QED
    BY <2>1, <2>2, <2>3, IdleAssumption DEF IdleInv
<1>11. QED
  BY <1>9, <1>10

\* A report that the phone does not get.
LEMMA MissedStep ==
    ASSUME IdleInv, NEW s \in Server, NEW idle \in SUBSET Gpu, ReportMissed(s, idle)
    PROVE  IdleInv' /\ showing' = showing
<1>1. /\ UNCHANGED <<samples, armed, lastNotice, busyAge, sinceNotice, left, cleared, forgotten, answers>>
      /\ Reported(s, idle) /\ showing' = showing
  BY DEF ReportMissed, idleState, idlePast
<1>2. /\ latest' \in [Server -> Report] /\ latest'[s].age = 0
      /\ \A u \in Server \ {s} : latest'[u] = latest[u]
      /\ \A g \in Gpu : \A x \in samples[s][g] : x \in Sample /\ x.age # 0
      /\ \A got \in answers : got[s].age \in Nat
  BY <1>1, ReportedStep
<1>3. LatestIsNewest'
  <2> SUFFICES ASSUME NEW u \in Server
               PROVE  /\ \A g \in Gpu : \A x \in samples[u][g] : x.age >= latest'[u].age
                      /\ \A got \in answers : got[u].age >= latest'[u].age
    BY <1>1 DEF LatestIsNewest
  <2>1. CASE u # s
    BY <1>2, <2>1 DEF IdleInv, LatestIsNewest
  <2>2. CASE u = s
    <3>1. \A g \in Gpu : \A x \in samples[s][g] : x.age \in Nat
      BY <1>2, IdleAssumption DEF Sample
    <3>2. QED
      BY <1>2, <2>2, <3>1
  <2>3. QED
    BY <2>1, <2>2
<1>4. QED
  BY <1>1, <1>2, <1>3 DEF IdleInv, IdleTypeOK, BusyIsTraced

\* The promise of a dispatch disarms its server, and counts from there.
LEMMA DispatchStep ==
    ASSUME IdleInv, NEW s \in Server, NEW used \in BOOLEAN, DispatchEnds(s, used)
    PROVE  IdleInv' /\ showing' \subseteq showing
<1>1. UNCHANGED <<samples, busyAge, forgotten, latest, answers>> /\ showing' \subseteq showing
  BY DEF DispatchEnds, reports, idlePast
<1>2. BusyIsTraced' /\ LatestIsNewest'
  BY <1>1 DEF IdleInv, BusyIsTraced, LatestIsNewest
<1>3. CASE UNCHANGED <<armed, lastNotice, idlePast>>
  BY <1>1, <1>2, <1>3 DEF IdleInv, IdleTypeOK, idlePast
<1>4. CASE /\ armed' = [armed EXCEPT ![s] = @ /\ ~used] /\ lastNotice' = 0
           /\ sinceNotice' = 0 /\ left' = [left EXCEPT ![s] = @ /\ ~used]
           /\ cleared' = (showing' # {})
  <2>1. 0 \in 0 .. Cooldown
    BY IdleAssumption
  <2>2. cleared' \in BOOLEAN
    BY <1>4
  <2>3. /\ armed' \in [Server -> BOOLEAN] /\ left' \in [Server -> BOOLEAN]
        /\ \A u \in Server : armed'[u] => left'[u]
    BY <1>4 DEF IdleInv, IdleTypeOK
  <2>4. QED
    BY <1>1, <1>2, <1>4, <2>1, <2>2, <2>3 DEF IdleInv, IdleTypeOK
<1>5. QED
  BY <1>1, <1>3, <1>4 DEF DispatchEnds

\* Throwing the state away arms every server; what is under way is not of use any more.
LEMMA ForgetStep ==
    ASSUME IdleInv, Forget,
           \/ UNCHANGED <<lastNotice, cleared>>
           \/ lastNotice' = Cooldown /\ cleared' = TRUE,
           UNCHANGED sinceNotice,
           samples' \in [Server -> [Gpu -> SUBSET Sample]],
           busyAge' \in [Server -> 0 .. WindowAge], forgotten' \in [Server -> BOOLEAN],
           latest' = latest, answers' \subseteq answers,
           BusyIsTraced', LatestIsNewest'
    PROVE  IdleInv' /\ \A u \in Server : <<u, TRUE>> \notin showing'
<1>1. /\ armed' = [s \in Server |-> TRUE] /\ left' = [s \in Server |-> TRUE]
      /\ showing' = {<<d[1], FALSE>> : d \in showing}
  BY DEF Forget
<1>2. /\ armed' \in [Server -> BOOLEAN] /\ left' \in [Server -> BOOLEAN]
      /\ \A u \in Server : armed'[u] => left'[u]
  BY <1>1
<1>3. lastNotice' \in 0 .. Cooldown /\ cleared' \in BOOLEAN /\ (cleared' \/ lastNotice' = sinceNotice')
  <2>1. CASE UNCHANGED <<lastNotice, cleared>>
    BY <2>1 DEF IdleInv, IdleTypeOK
  <2>2. CASE lastNotice' = Cooldown /\ cleared' = TRUE
    <3>1. Cooldown \in 0 .. Cooldown
      BY IdleAssumption
    <3>2. QED
      BY <2>2, <3>1
  <2>3. QED
    BY <2>1, <2>2
<1>4. latest' \in [Server -> Report] /\ answers' \subseteq [Server -> Report]
  BY DEF IdleInv, IdleTypeOK
<1>5. IdleInv'
  BY <1>2, <1>3, <1>4 DEF IdleInv, IdleTypeOK
<1>6. QED
  BY <1>1, <1>5

\* A lost connection leaves no sample.
LEMMA DisconnectStep ==
    ASSUME IdleInv, disconnectRealtime
    PROVE  IdleInv' /\ \A u \in Server : <<u, TRUE>> \notin showing'
<1>1. /\ Forget /\ samples' = [s \in Server |-> [g \in Gpu |-> {}]]
      /\ forgotten' = [s \in Server |-> FALSE]
      /\ UNCHANGED <<lastNotice, latest, answers, busyAge, sinceNotice, cleared>>
  BY DEF disconnectRealtime, reports
<1>2. /\ samples' \in [Server -> [Gpu -> SUBSET Sample]] /\ forgotten' \in [Server -> BOOLEAN]
      /\ \A s \in Server : \A g \in Gpu : samples'[s][g] = {}
  BY <1>1
<1>3. LatestIsNewest'
  BY <1>1, <1>2 DEF IdleInv, LatestIsNewest
<1>4. BusyIsTraced'
  <2> SUFFICES ASSUME NEW s \in Server, busyAge[s] < WindowAge
               PROVE  MinIdle > 0 /\ Traced(samples'[s], busyAge[s])
    BY <1>1 DEF BusyIsTraced
  <2>1. MinIdle > 0
    BY DEF IdleInv, BusyIsTraced
  <2>2. \A g \in Gpu : \A x \in samples'[s][g] : x.age <= busyAge[s]
    BY <1>2
  <2>3. QED
    BY <2>1, <2>2, NothingOlderIsTrace
<1>5. busyAge' \in [Server -> 0 .. WindowAge]
  BY <1>1 DEF IdleInv, IdleTypeOK
<1>6. QED
  BY <1>1, <1>2, <1>3, <1>4, <1>5, ForgetStep

\* A refresh starts anew from the reports of its answer: a busy report that the answer
\* had not seen is remembered as forgotten, every other one is traced.
LEMMA PrimeStep ==
    ASSUME IdleInv, NEW got \in answers \cup {[s \in Server |-> gone]}, primeRealtimeState(got)
    PROVE  IdleInv' /\ \A u \in Server : <<u, TRUE>> \notin showing'
<1>1. /\ Forget /\ lastNotice' = Cooldown /\ cleared' = TRUE
      /\ samples' = [s \in Server |-> Primed(got[s])]
      /\ busyAge' = [s \in Server |->
           IF Busy(got[s].idle) /\ got[s].age < busyAge[s] THEN got[s].age ELSE busyAge[s]]
      /\ forgotten' = [s \in Server |-> got[s].age \in busyAge[s] + 1 .. WindowAge]
      /\ answers' \subseteq answers /\ UNCHANGED <<latest, sinceNotice>>
  BY DEF primeRealtimeState
<1>2. \A s \in Server : got[s] \in Report /\ got[s].age \in Nat /\ busyAge[s] \in 0 .. WindowAge
  <2>1. gone \in Report
    BY IdleAssumption DEF gone, Report
  <2>2. got \in [Server -> Report]
    BY <2>1 DEF IdleInv, IdleTypeOK
  <2>3. QED
    BY <2>2, IdleAssumption DEF IdleInv, IdleTypeOK, Report
<1>3. /\ samples' \in [Server -> [Gpu -> SUBSET Sample]]
      /\ busyAge' \in [Server -> 0 .. WindowAge] /\ forgotten' \in [Server -> BOOLEAN]
  <2>1. \A s \in Server : Primed(got[s]) \in [Gpu -> SUBSET Sample]
    BY <1>2, PrimedSamples
  <2>2. \A s \in Server : got[s].age < busyAge[s] => got[s].age \in 0 .. WindowAge
    BY <1>2, IdleAssumption
  <2>3. \A s \in Server : (got[s].age \in busyAge[s] + 1 .. WindowAge) \in BOOLEAN
    OBVIOUS
  <2>4. QED
    BY <1>1, <1>2, <2>1, <2>2, <2>3
<1>4. LatestIsNewest'
  <2> SUFFICES ASSUME NEW s \in Server
               PROVE  /\ \A g \in Gpu : \A x \in Primed(got[s])[g] : x.age >= latest[s].age
                      /\ \A r \in answers' : r[s].age >= latest[s].age
    BY <1>1 DEF LatestIsNewest
  <2>1. \A r \in answers : r[s].age >= latest[s].age
    BY DEF IdleInv, LatestIsNewest
  <2>2. latest[s].age \in 0 .. WindowAge + 1
    BY DEF IdleInv, IdleTypeOK, Report
  <2>3. got[s].age >= latest[s].age
    BY <2>1, <2>2, IdleAssumption DEF gone
  <2>4. \A g \in Gpu : \A x \in Primed(got[s])[g] : x.age = got[s].age
    BY <1>2, PrimedSamples
  <2>5. QED
    BY <1>1, <2>1, <2>3, <2>4
<1>5. BusyIsTraced'
  <2> SUFFICES ASSUME NEW s \in Server, busyAge'[s] < WindowAge
               PROVE  MinIdle > 0 /\ (forgotten'[s] \/ Traced(Primed(got[s]), busyAge'[s]))
    BY <1>1 DEF BusyIsTraced
  <2>1. /\ busyAge'[s] = IF Busy(got[s].idle) /\ got[s].age < busyAge[s] THEN got[s].age ELSE busyAge[s]
        /\ forgotten'[s] = (got[s].age \in busyAge[s] + 1 .. WindowAge)
    BY <1>1
  <2>2. CASE Busy(got[s].idle) /\ got[s].age < busyAge[s]
    <3>1. Traced(Primed(got[s]), got[s].age)
      BY <1>2, <2>2, BusyPrimedIsTraced
    <3>2. got[s].idle \in SUBSET Gpu
      BY <1>2 DEF Report
    <3>3. MinIdle > 0
      BY <2>2, <3>2, BusyNeedsSome
    <3>4. QED
      BY <2>1, <2>2, <3>1, <3>3
  <2>3. CASE ~(Busy(got[s].idle) /\ got[s].age < busyAge[s])
    <3>1. busyAge'[s] = busyAge[s]
      BY <2>1, <2>3
    <3>2. MinIdle > 0
      BY <3>1 DEF IdleInv, BusyIsTraced
    <3>3. ASSUME ~forgotten'[s]
          PROVE  Traced(Primed(got[s]), busyAge[s])
      <4>1. got[s].age > WindowAge \/ got[s].age <= busyAge[s]
        <5>1. ~(got[s].age \in busyAge[s] + 1 .. WindowAge)
          BY <2>1, <3>3
        <5>2. got[s].age \in Nat /\ busyAge[s] \in Nat
          BY <1>2
        <5>3. QED
          BY <5>1, <5>2, IdleAssumption
      <4>2. \A g \in Gpu : \A x \in Primed(got[s])[g] : got[s].age <= WindowAge /\ x.age = got[s].age
        BY <1>2, PrimedSamples
      <4>3. \A g \in Gpu : \A x \in Primed(got[s])[g] : x.age <= busyAge[s]
        BY <1>2, <4>1, <4>2, IdleAssumption
      <4>4. QED
        BY <3>2, <4>3, NothingOlderIsTrace
    <3>4. QED
      BY <3>1, <3>2, <3>3
  <2>4. QED
    BY <2>2, <2>3
<1>6. QED
  BY <1>1, <1>3, <1>4, <1>5, ForgetStep

\* Everything ages together.
LEMMA TimeStep ==
    ASSUME IdleInv, TimePasses
    PROVE  IdleInv' /\ showing' = showing
<1>1. /\ samples' = [s \in Server |-> [g \in Gpu |->
           {[x EXCEPT !.age = @ + 1] : x \in {y \in samples[s][g] : y.age < WindowAge}}]]
      /\ lastNotice' = Older(lastNotice, Cooldown) /\ sinceNotice' = Older(sinceNotice, Cooldown)
      /\ busyAge' = [s \in Server |-> Older(busyAge[s], WindowAge)]
      /\ latest' = [s \in Server |-> Aged(latest[s])]
      /\ answers' = {[s \in Server |-> Aged(got[s])] : got \in answers}
      /\ UNCHANGED <<armed, showing, left, cleared, forgotten>>
  BY DEF TimePasses
<1>2. samples' \in [Server -> [Gpu -> SUBSET Sample]]
  <2> SUFFICES ASSUME NEW s \in Server, NEW g \in Gpu, NEW x \in samples[s][g], x.age < WindowAge
               PROVE  [x EXCEPT !.age = @ + 1] \in Sample
    BY <1>1
  <2>1. x \in Sample
    BY DEF IdleInv, IdleTypeOK
  <2>2. x.age + 1 \in 0 .. WindowAge
    BY <2>1, IdleAssumption DEF Sample
  <2>3. QED
    BY <2>1, <2>2 DEF Sample
<1>3. /\ busyAge' \in [Server -> 0 .. WindowAge]
      /\ lastNotice' \in 0 .. Cooldown /\ sinceNotice' \in 0 .. Cooldown
  BY <1>1, IdleAssumption DEF Older, IdleInv, IdleTypeOK
<1>4. BusyIsTraced'
  <2> SUFFICES ASSUME NEW s \in Server, busyAge'[s] < WindowAge
               PROVE  MinIdle > 0 /\ (forgotten[s] \/ Traced(samples'[s], busyAge'[s]))
    BY <1>1 DEF BusyIsTraced
  <2>1. busyAge[s] \in 0 .. WindowAge /\ samples[s] \in [Gpu -> SUBSET Sample]
    BY DEF IdleInv, IdleTypeOK
  <2>2. busyAge'[s] = busyAge[s] + 1 /\ busyAge[s] + 1 < WindowAge /\ busyAge[s] < WindowAge
    BY <1>1, <2>1, IdleAssumption DEF Older
  <2>3. MinIdle > 0 /\ (forgotten[s] \/ Traced(samples[s], busyAge[s]))
    BY <2>2 DEF IdleInv, BusyIsTraced
  <2>4. samples'[s] = [g \in Gpu |-> {[x EXCEPT !.age = @ + 1] : x \in {y \in samples[s][g] : y.age < WindowAge}}]
    BY <1>1
  <2>5. busyAge[s] \in Nat
    BY <2>1
  <2>6. Traced(samples[s], busyAge[s]) => Traced([g \in Gpu |-> {[x EXCEPT !.age = @ + 1] :
                                 x \in {y \in samples[s][g] : y.age < WindowAge}}], busyAge[s] + 1)
    BY <2>1, <2>2, <2>5, AgingKeepsTrace
  <2>7. QED
    BY <2>2, <2>3, <2>4, <2>6
<1>5. cleared' \/ lastNotice' = sinceNotice'
  BY <1>1 DEF IdleInv
<1>6. \A r \in Report : /\ Aged(r) \in Report
                        /\ Aged(r).age = IF r.age < WindowAge THEN r.age + 1 ELSE WindowAge + 1
  <2> SUFFICES ASSUME NEW r \in Report
               PROVE  /\ Aged(r) \in Report
                      /\ Aged(r).age = IF r.age < WindowAge THEN r.age + 1 ELSE WindowAge + 1
    OBVIOUS
  <2>1. r.age \in 0 .. WindowAge + 1 /\ r.idle \in SUBSET Gpu
    BY DEF Report
  <2>2. CASE r.age < WindowAge
    <3>1. Aged(r) = [r EXCEPT !.age = r.age + 1]
      BY <2>2 DEF Aged
    <3>2. r.age + 1 \in 0 .. WindowAge + 1
      BY <2>1, <2>2, IdleAssumption
    <3>3. QED
      BY <2>2, <3>1, <3>2 DEF Report
  <2>3. CASE ~(r.age < WindowAge)
    <3>1. Aged(r) = gone
      BY <2>3 DEF Aged
    <3>2. WindowAge + 1 \in 0 .. WindowAge + 1
      BY IdleAssumption
    <3>3. QED
      BY <2>3, <3>1, <3>2 DEF gone, Report
  <2>4. QED
    BY <2>2, <2>3
<1>7. latest' \in [Server -> Report] /\ answers' \subseteq [Server -> Report]
  <2>1. \A s \in Server : latest[s] \in Report /\ \A got \in answers : got[s] \in Report
    BY DEF IdleInv, IdleTypeOK
  <2>2. QED
    BY <1>1, <1>6, <2>1
<1>8. LatestIsNewest'
  <2> SUFFICES ASSUME NEW s \in Server
               PROVE  /\ \A g \in Gpu : \A x \in samples'[s][g] : x.age >= latest'[s].age
                      /\ \A r \in answers' : r[s].age >= latest'[s].age
    BY DEF LatestIsNewest
  <2>1. /\ latest[s] \in Report /\ latest[s].age \in 0 .. WindowAge + 1
        /\ latest'[s].age = IF latest[s].age < WindowAge THEN latest[s].age + 1 ELSE WindowAge + 1
    BY <1>1, <1>6 DEF IdleInv, IdleTypeOK, Report
  <2>2. ASSUME NEW g \in Gpu, NEW x \in samples'[s][g]
        PROVE  x.age >= latest'[s].age
    <3>1. PICK y \in samples[s][g] : y.age < WindowAge /\ x = [y EXCEPT !.age = y.age + 1]
      BY <1>1
    <3>2. y \in Sample /\ y.age >= latest[s].age
      BY DEF IdleInv, IdleTypeOK, LatestIsNewest
    <3>3. y.age \in Nat /\ x.age = y.age + 1
      BY <3>1, <3>2, IdleAssumption DEF Sample
    <3>4. QED
      BY <2>1, <3>1, <3>2, <3>3, IdleAssumption
  <2>3. ASSUME NEW r \in answers'
        PROVE  r[s].age >= latest'[s].age
    <3>1. PICK got \in answers : r = [u \in Server |-> Aged(got[u])]
      BY <1>1
    <3>2. got[s] \in Report /\ got[s].age >= latest[s].age
      BY DEF IdleInv, IdleTypeOK, LatestIsNewest
    <3>3. /\ got[s].age \in 0 .. WindowAge + 1
          /\ r[s].age = IF got[s].age < WindowAge THEN got[s].age + 1 ELSE WindowAge + 1
      BY <1>6, <3>1, <3>2 DEF Report
    <3>4. QED
      BY <2>1, <3>2, <3>3, IdleAssumption
  <2>4. QED
    BY <2>2, <2>3
<1>9. forgotten' \in [Server -> BOOLEAN]
  BY <1>1 DEF IdleInv, IdleTypeOK
<1>10. QED
  BY <1>1, <1>2, <1>3, <1>4, <1>5, <1>7, <1>8, <1>9 DEF IdleInv, IdleTypeOK

\* Everything else leaves the samples and the history as they are.
LEMMA OtherStep ==
    ASSUME IdleInv, UNCHANGED <<samples, armed, lastNotice, busyAge, sinceNotice, left, cleared>>,
           UNCHANGED <<latest, forgotten>>,
           answers' \subseteq answers \cup {latest}
    PROVE  IdleInv'
<1>1. \A s \in Server : latest[s] \in Report /\ latest[s].age >= latest[s].age
  <2>1. \A r \in Report : r.age >= r.age
    BY IdleAssumption DEF Report
  <2>2. QED
    BY <2>1 DEF IdleInv, IdleTypeOK
<1>2. LatestIsNewest'
  BY <1>1 DEF IdleInv, LatestIsNewest
<1>3. QED
  BY <1>2 DEF IdleInv, IdleTypeOK, BusyIsTraced

\* A notice, as IdleNoticeIsEarned asks for it.
Earned ==
    \A s \in Server : <<s, TRUE>> \in showing' \ showing =>
        /\ busyAge'[s] >= WindowAge \/ forgotten[s]
        /\ sinceNotice >= Cooldown \/ cleared
        /\ left[s]

\* Every step keeps the invariant, and starts only notices that are earned.
LEMMA IdleStep ==
    ASSUME IdleInv, [IdleNext]_idleVars
    PROVE  IdleInv' /\ [Earned]_idleVars
<1>1. ASSUME NEW s \in Server, NEW idle \in SUBSET Gpu, MetricsUpdate(s, idle)
      PROVE  IdleInv' /\ Earned
  BY <1>1, MetricsStep DEF Earned
<1>2. ASSUME NEW s \in Server, NEW used \in BOOLEAN, DispatchEnds(s, used)
      PROVE  IdleInv' /\ Earned
  BY <1>2, DispatchStep DEF Earned
<1>3. ASSUME \/ \E s \in Server : ServerGoesOffline(s) \/ toggleIdleServerSubscription(s)
             \/ MetricsServed
      PROVE  IdleInv' /\ Earned
  <2>1. /\ UNCHANGED <<samples, armed, lastNotice, busyAge, sinceNotice, left, cleared, showing>>
        /\ UNCHANGED <<latest, forgotten>> /\ answers' \subseteq answers \cup {latest}
    BY <1>3 DEF ServerGoesOffline, toggleIdleServerSubscription, MetricsServed, idleState, reports, idlePast
  <2>2. QED
    BY <2>1, OtherStep DEF Earned
<1>4. CASE disconnectRealtime
  BY <1>4, DisconnectStep DEF Earned
<1>8. CASE \E got \in answers \cup {[s \in Server |-> gone]} : primeRealtimeState(got)
  BY <1>8, PrimeStep DEF Earned
<1>9. ASSUME NEW s \in Server, NEW idle \in SUBSET Gpu, ReportMissed(s, idle)
      PROVE  IdleInv' /\ Earned
  BY <1>9, MissedStep DEF Earned
<1>5. CASE TimePasses
  BY <1>5, TimeStep DEF Earned
<1>6. CASE UNCHANGED idleVars
  BY <1>6, OtherStep DEF idleVars, idleState, reports, idlePast
<1>7. QED
  BY <1>1, <1>2, <1>3, <1>4, <1>5, <1>6, <1>8, <1>9 DEF IdleNext

\* At the start nothing was reported.
LEMMA IdleInitInv == IdleInit => IdleInv
<1> SUFFICES ASSUME IdleInit PROVE IdleInv
  OBVIOUS
<1>1. samples \in [Server -> [Gpu -> SUBSET Sample]]
  BY DEF IdleInit
<1>2. /\ armed \in [Server -> BOOLEAN] /\ left \in [Server -> BOOLEAN]
      /\ \A s \in Server : armed[s] => left[s]
  BY DEF IdleInit
<1>3. /\ lastNotice \in 0 .. Cooldown /\ sinceNotice \in 0 .. Cooldown
      /\ lastNotice = sinceNotice /\ cleared \in BOOLEAN
      /\ busyAge \in [Server -> 0 .. WindowAge]
  <2>1. Cooldown \in 0 .. Cooldown /\ WindowAge \in 0 .. WindowAge
    BY IdleAssumption
  <2>2. /\ lastNotice = Cooldown /\ sinceNotice = Cooldown /\ cleared = FALSE
        /\ busyAge = [s \in Server |-> WindowAge]
    BY DEF IdleInit
  <2>3. busyAge \in [Server -> 0 .. WindowAge]
    BY <2>1, <2>2
  <2>4. QED
    BY <2>1, <2>2, <2>3
<1>4. BusyIsTraced /\ LatestIsNewest
  BY IdleAssumption DEF IdleInit, BusyIsTraced, LatestIsNewest
<1>5. /\ latest \in [Server -> Report] /\ answers \subseteq [Server -> Report]
      /\ forgotten \in [Server -> BOOLEAN]
  <2>1. gone \in Report
    BY IdleAssumption DEF gone, Report
  <2>2. QED
    BY <2>1 DEF IdleInit
<1>6. QED
  BY <1>1, <1>2, <1>3, <1>4, <1>5 DEF IdleInv, IdleTypeOK

\* A notice starts only for a server that no report of the window has shown busy, but
\* for one that a late answer has made the phone forget, a
\* cooldown after the last notice unless a refresh has thrown the state away, and
\* not twice for the same idle time (store/realtime.ts).
THEOREM NoticesAreEarned == IdleSpec => IdleNoticeIsEarned
<1>1. IdleInv /\ [IdleNext]_idleVars =>
        IdleInv' /\ [\A s \in Server : <<s, TRUE>> \in showing' \ showing =>
                       /\ busyAge'[s] >= WindowAge \/ forgotten[s]
                       /\ sinceNotice >= Cooldown \/ cleared
                       /\ left[s]]_idleVars
  BY IdleStep DEF Earned
<1>2. QED
  BY IdleInitInv, <1>1, PTL DEF IdleSpec, IdleNoticeIsEarned

-----------------------------------------------------------------------------
(***************************************************************************)
(* What a phone remembers.                                                 *)
(***************************************************************************)

Raw       == Int \cup {junk}
SoundRule == {rule \in IdleGpuNotificationRule : RuleIsSound(rule)}
Sound     == {s \in MobileNotificationSettings :
                s.rules \in UNION {[S -> SoundRule] : S \in SUBSET Machine}}
Inbox     == {list \in Seq(Int) : Len(list) <= MAX_NOTIFICATION_INBOX_ITEMS}
Write     == [key : {"prefs"}, value : Sound] \cup [key : {"inbox"}, value : Inbox]
Editor    == [machine : Machine, draft : [Field -> Raw], error : BOOLEAN]

\* The variables hold what the code keeps in them; whatever is stored, what is
\* read is sound.
PhoneTypeOK ==
  /\ disk = [prefs |-> disk.prefs, inbox |-> disk.inbox]
  /\ loadNotificationSettings(disk.prefs) \in Sound
  /\ loadNotificationInbox(disk.inbox) \in Inbox
  /\ writes \in Seq(Write)
  /\ prefs \in Sound /\ inbox \in Inbox
  /\ dispatched \in SUBSET Int /\ visible \in SUBSET Machine /\ person \in BOOLEAN
  /\ editor \in Editor \cup {NoPage}
  /\ steps \in Nat /\ told \in Seq(Int)

\* What the store has under a key.
Now(key) == IF key = "prefs" THEN prefs ELSE inbox
ReadBack(key) ==
  IF key = "prefs" THEN loadNotificationSettings(disk.prefs) ELSE loadNotificationInbox(disk.inbox)

\* The last write of a key that waits has what the store has; if none waits and
\* the last one has not failed, a start would read it, but for what could not be read.
IsLast(list, i) == \A j \in DOMAIN list : j > i => list[j].key # list[i].key
WillBeStored ==
  /\ \A i \in DOMAIN writes : IsLast(writes, i) => writes[i].value = Now(writes[i].key)
  /\ \A key \in {"prefs", "inbox"} :
       key \notin failed \cup unread /\ (\A i \in DOMAIN writes : writes[i].key # key) =>
         ReadBack(key) = Now(key)

PhoneInv == PhoneTypeOK /\ WillBeStored /\ inbox = Shortened(told)

-----------------------------------------------------------------------------
(* Numbers and table. *)

\* The bounds of a field are whole in its unit.
LEMMA RangeIsWhole ==
  ASSUME NEW f \in Field
  PROVE  /\ Range4(f).min \in Int /\ Range4(f).max \in Int /\ Range4(f).min <= Range4(f).max
         /\ Range4(f).min % 100 = 0 /\ Range4(f).max % 100 = 0
         /\ Unit(f) \in {10, 100}
BY DEF Field, Range4, Unit

\* To round gives a number of whole units, changes none, and does not leave
\* bounds that are whole.
LEMMA RoundIs ==
  ASSUME NEW x \in Int, NEW unit \in {10, 100}
  PROVE  /\ Round(x, unit) \in Int /\ Round(x, unit) % unit = 0
         /\ x % unit = 0 => Round(x, unit) = x
         /\ \A b \in Int : b % 100 = 0 => /\ x <= b => Round(x, unit) <= b
                                          /\ b <= x => b <= Round(x, unit)
<1>1. CASE unit = 10
  BY <1>1 DEF Round
<1>2. CASE unit = 100
  BY <1>2 DEF Round
<1>3. QED
  BY <1>1, <1>2

\* A number that is cut to the bounds is within them, and whole if it was.
LEMMA ClampIs ==
  ASSUME NEW f \in Field, NEW x \in Int
  PROVE  /\ Clamp(f, x) \in Int /\ Range4(f).min <= Clamp(f, x) /\ Clamp(f, x) <= Range4(f).max
         /\ x % Unit(f) = 0 => Clamp(f, x) % Unit(f) = 0
         /\ Range4(f).min <= x /\ x <= Range4(f).max => Clamp(f, x) = x
<1> DEFINE low == Range4(f).min
           high == Range4(f).max
<1>1. /\ low \in Int /\ high \in Int /\ low <= high /\ low % 100 = 0 /\ high % 100 = 0
      /\ Unit(f) \in {10, 100}
  BY RangeIsWhole
<1>2. low % Unit(f) = 0 /\ high % Unit(f) = 0
  BY <1>1
<1>3. Clamp(f, x) = IF x < low THEN low ELSE IF x > high THEN high ELSE x
  BY DEF Clamp
<1> HIDE DEF low, high
<1>4. QED
  BY <1>1, <1>2, <1>3 DEF low, high

\* A number within the bounds and of whole units is what a rule may have.
FitsField(f, x) == x \in Int /\ x % Unit(f) = 0 /\ Range4(f).min <= x /\ x <= Range4(f).max
\* A rule is sound if every number is within its bounds and whole.
LEMMA SoundIs ==
  ASSUME NEW rule, rule = [f \in Field |-> rule[f]]
  PROVE  rule \in SoundRule <=> \A f \in Field : FitsField(f, rule[f])
<1>1. ASSUME NEW f \in Field, rule[f] \in Int
      PROVE  rule[f] = Clamp(f, rule[f]) <=> Range4(f).min <= rule[f] /\ rule[f] <= Range4(f).max
  BY <1>1, ClampIs
<1>2. QED
  BY <1>1 DEF SoundRule, IdleGpuNotificationRule, RuleIsSound, FitsField

\* The default is sound.
LEMMA DefaultIsSound == DEFAULT_IDLE_GPU_NOTIFICATION_RULE \in SoundRule
<1> DEFINE rule == DEFAULT_IDLE_GPU_NOTIFICATION_RULE
<1>1. rule = [f \in Field |-> rule[f]]
  BY DEF DEFAULT_IDLE_GPU_NOTIFICATION_RULE, Field
<1>2. \A f \in Field : FitsField(f, rule[f])
  BY DEF DEFAULT_IDLE_GPU_NOTIFICATION_RULE, Field, FitsField, Range4, Unit, Whole
<1> HIDE DEF rule
<1>3. rule \in SoundRule
  BY <1>1, <1>2, SoundIs
<1>4. QED
  BY <1>3 DEF rule

\* Whatever was stored, a rule that is read is sound, and a sound one is read as
\* it was stored.
LEMMA SanitizedIsSound ==
  ASSUME NEW raw, \A f \in Field \cap DOMAIN raw : raw[f] \in Raw
  PROVE  sanitizeIdleGpuRule(raw) \in SoundRule
<1> DEFINE rule == sanitizeIdleGpuRule(raw)
<1>1. rule = [f \in Field |-> rule[f]]
  BY DEF sanitizeIdleGpuRule
<1>2. ASSUME NEW f \in Field PROVE FitsField(f, rule[f])
  <2>1. CASE f \notin DOMAIN raw \/ raw[f] = junk
    <3>1. rule[f] = DEFAULT_IDLE_GPU_NOTIFICATION_RULE[f]
      BY <2>1 DEF sanitizeIdleGpuRule
    <3>2. QED
      BY <3>1 DEF DEFAULT_IDLE_GPU_NOTIFICATION_RULE, Field, FitsField, Range4, Unit, Whole
  <2>2. CASE f \in DOMAIN raw /\ raw[f] # junk
    <3>1. raw[f] \in Int /\ rule[f] = Clamp(f, Round(raw[f], Unit(f)))
      BY <2>2 DEF sanitizeIdleGpuRule, Raw
    <3>2. Unit(f) \in {10, 100}
      BY RangeIsWhole
    <3>3. Round(raw[f], Unit(f)) \in Int /\ Round(raw[f], Unit(f)) % Unit(f) = 0
      BY <3>1, <3>2, RoundIs
    <3>4. QED
      BY <3>1, <3>3, ClampIs DEF FitsField
  <2>3. QED
    BY <2>1, <2>2
<1> HIDE DEF rule
<1>3. rule \in SoundRule
  BY <1>1, <1>2, SoundIs
<1>4. QED
  BY <1>3 DEF rule

\* A sound rule is read as it was stored.
LEMMA SoundIsKept ==
  ASSUME NEW rule \in SoundRule
  PROVE  sanitizeIdleGpuRule(rule) = rule
<1>1. rule = [f \in Field |-> rule[f]]
  BY DEF SoundRule, IdleGpuNotificationRule
<1>2. ASSUME NEW f \in Field PROVE sanitizeIdleGpuRule(rule)[f] = rule[f]
  <2>1. FitsField(f, rule[f])
    BY <1>1, SoundIs
  <2>2. f \in DOMAIN rule /\ rule[f] \in Int /\ rule[f] # junk
    BY <1>1, <2>1, PhoneAssumption DEF FitsField
  <2>3. Unit(f) \in {10, 100}
    BY RangeIsWhole
  <2>4. Round(rule[f], Unit(f)) = rule[f]
    BY <2>1, <2>2, <2>3, RoundIs DEF FitsField
  <2>5. Clamp(f, rule[f]) = rule[f]
    BY <2>1, <2>2, ClampIs DEF FitsField
  <2>6. QED
    BY <2>2, <2>4, <2>5 DEF sanitizeIdleGpuRule
<1>3. sanitizeIdleGpuRule(rule) = [f \in Field |-> sanitizeIdleGpuRule(rule)[f]]
  BY DEF sanitizeIdleGpuRule
<1>4. QED
  BY <1>1, <1>2, <1>3


-----------------------------------------------------------------------------
(* Settings. *)

\* Settings are sound if each part is.
LEMMA SoundSettings ==
  ASSUME NEW s, NEW set \in SUBSET Machine,
         s = [off |-> s.off, adminView |-> s.adminView, personView |-> s.personView,
              hidden |-> s.hidden, rules |-> s.rules],
         s.off \in SUBSET Switch, s.adminView \in HomeView, s.personView \in HomeView,
         s.hidden \in SUBSET Machine, s.rules \in [set -> SoundRule]
  PROVE  s \in Sound
<1>1. s.rules \in [set -> IdleGpuNotificationRule]
  BY DEF SoundRule
<1>2. s \in MobileNotificationSettings
  BY <1>1 DEF MobileNotificationSettings
<1>3. QED
  BY <1>2 DEF Sound

\* What sound settings are.
LEMMA SoundParts ==
  ASSUME NEW s \in Sound
  PROVE  /\ s = [off |-> s.off, adminView |-> s.adminView, personView |-> s.personView,
                 hidden |-> s.hidden, rules |-> s.rules]
         /\ s.off \in SUBSET Switch /\ s.adminView \in HomeView /\ s.personView \in HomeView
         /\ s.hidden \in SUBSET Machine /\ DOMAIN s.rules \in SUBSET Machine
         /\ s.rules \in [DOMAIN s.rules -> SoundRule]
         /\ DOMAIN s = {"off", "adminView", "personView", "hidden", "rules"}
         /\ s # junk
<1>1. s \in MobileNotificationSettings /\ s.rules \in UNION {[S -> SoundRule] : S \in SUBSET Machine}
  BY DEF Sound
<1>2. /\ s = [off |-> s.off, adminView |-> s.adminView, personView |-> s.personView,
              hidden |-> s.hidden, rules |-> s.rules]
      /\ s.off \in SUBSET Switch /\ s.adminView \in HomeView /\ s.personView \in HomeView
      /\ s.hidden \in SUBSET Machine
  BY <1>1 DEF MobileNotificationSettings
<1>3. PICK S \in SUBSET Machine : s.rules \in [S -> SoundRule]
  BY <1>1
<1>4. DOMAIN s.rules = S
  BY <1>3
<1>5. DOMAIN s = {"off", "adminView", "personView", "hidden", "rules"}
  BY <1>2
<1>6. s # junk
  BY <1>1, PhoneAssumption
<1>7. QED
  BY <1>2, <1>3, <1>4, <1>5, <1>6

\* The default, of which no machine has a rule.
LEMMA DefaultSettings == DEFAULT_NOTIFICATION_SETTINGS \in Sound
<1> DEFINE s == DEFAULT_NOTIFICATION_SETTINGS
<1>1. /\ s = [off |-> s.off, adminView |-> s.adminView, personView |-> s.personView,
              hidden |-> s.hidden, rules |-> s.rules]
      /\ s.off = {} /\ s.adminView \in HomeView /\ s.personView \in HomeView
      /\ s.hidden = {} /\ s.rules = <<>>
  BY DEF DEFAULT_NOTIFICATION_SETTINGS, HomeView
<1>2. <<>> \in [{} -> SoundRule]
  OBVIOUS
<1> HIDE DEF s
<1>3. s \in Sound
  BY <1>1, <1>2, SoundSettings
<1>4. QED
  BY <1>3 DEF s

\* Sound settings are read as they were stored.
LEMMA SoundSettingsAreKept ==
  ASSUME NEW s \in Sound
  PROVE  loadNotificationSettings(s) = s
<1>1. /\ s = [off |-> s.off, adminView |-> s.adminView, personView |-> s.personView,
              hidden |-> s.hidden, rules |-> s.rules]
      /\ s.off \in SUBSET Switch /\ s.adminView \in HomeView /\ s.personView \in HomeView
      /\ s.hidden \in SUBSET Machine
      /\ s.rules \in [DOMAIN s.rules -> SoundRule]
      /\ DOMAIN s = {"off", "adminView", "personView", "hidden", "rules"}
      /\ s # junk
  BY SoundParts
<1>2. s.hidden \ {junk} = s.hidden
  BY <1>1, PhoneAssumption
<1>3. [m \in DOMAIN s.rules |-> sanitizeIdleGpuRule(s.rules[m])] = s.rules
  <2>1. \A m \in DOMAIN s.rules : sanitizeIdleGpuRule(s.rules[m]) = s.rules[m]
    BY <1>1, SoundIsKept
  <2>2. s.rules = [m \in DOMAIN s.rules |-> s.rules[m]]
    BY <1>1
  <2>3. QED
    BY <2>1, <2>2
<1>4. s["adminView"] = s.adminView /\ s["personView"] = s.personView
  OBVIOUS
<1>5. loadNotificationSettings(s) =
        [off |-> s.off, adminView |-> s.adminView, personView |-> s.personView,
         hidden |-> s.hidden \ {junk},
         rules |-> [m \in DOMAIN s.rules |-> sanitizeIdleGpuRule(s.rules[m])]]
  BY <1>1, <1>4 DEF loadNotificationSettings
<1>6. QED
  BY <1>1, <1>2, <1>3, <1>5

-----------------------------------------------------------------------------
(* The inbox. *)

\* A list that is cut has at most so many notices, the first ones.
LEMMA ShortenedIs ==
  ASSUME NEW list \in Seq(Int)
  PROVE  /\ Shortened(list) \in Inbox
         /\ Len(list) <= MAX_NOTIFICATION_INBOX_ITEMS => Shortened(list) = list
         /\ Len(Shortened(list)) <= Len(list)
         /\ \A i \in 1 .. Len(Shortened(list)) : Shortened(list)[i] = list[i]
         /\ Len(list) > MAX_NOTIFICATION_INBOX_ITEMS =>
              Len(Shortened(list)) = MAX_NOTIFICATION_INBOX_ITEMS
<1> DEFINE last == IF Len(list) > MAX_NOTIFICATION_INBOX_ITEMS
                   THEN MAX_NOTIFICATION_INBOX_ITEMS ELSE Len(list)
<1>1. /\ last \in Nat /\ last <= MAX_NOTIFICATION_INBOX_ITEMS /\ last <= Len(list)
      /\ Len(list) <= MAX_NOTIFICATION_INBOX_ITEMS => last = Len(list)
      /\ Len(list) > MAX_NOTIFICATION_INBOX_ITEMS => last = MAX_NOTIFICATION_INBOX_ITEMS
  BY PhoneAssumption
<1>2. Shortened(list) = SubSeq(list, 1, last)
  BY DEF Shortened
<1> HIDE DEF last
<1>3. /\ SubSeq(list, 1, last) \in Seq(Int) /\ Len(SubSeq(list, 1, last)) = last
      /\ \A i \in 1 .. last : SubSeq(list, 1, last)[i] = list[i]
  BY <1>1
<1>4. last = Len(list) => SubSeq(list, 1, last) = list
  BY <1>3
<1>5. QED
  BY <1>1, <1>2, <1>3, <1>4 DEF Inbox

\* A notice joins the list, whether it was cut before or not.
LEMMA JoinsTheShortened ==
  ASSUME NEW list \in Seq(Int), NEW n \in Int
  PROVE  /\ <<n>> \o list \in Seq(Int)
         /\ Shortened(<<n>> \o Shortened(list)) = Shortened(<<n>> \o list)
<1> DEFINE short == Shortened(list)
           a == <<n>> \o short
           b == <<n>> \o list
<1>1. /\ short \in Seq(Int) /\ Len(short) <= Len(list)
      /\ \A i \in 1 .. Len(short) : short[i] = list[i]
      /\ Len(short) < Len(list) => Len(short) = MAX_NOTIFICATION_INBOX_ITEMS
  <2>1. Len(list) <= MAX_NOTIFICATION_INBOX_ITEMS => Len(short) = Len(list)
    BY ShortenedIs
  <2>2. Len(list) \in Nat /\ MAX_NOTIFICATION_INBOX_ITEMS \in Nat
    BY PhoneAssumption
  <2>3. QED
    BY <2>1, <2>2, ShortenedIs DEF Inbox
<1> HIDE DEF short
<1>2. /\ a \in Seq(Int) /\ Len(a) = Len(short) + 1 /\ a[1] = n
      /\ \A i \in 2 .. Len(a) : a[i] = short[i - 1]
  BY <1>1
<1>3. /\ b \in Seq(Int) /\ Len(b) = Len(list) + 1 /\ b[1] = n
      /\ \A i \in 2 .. Len(b) : b[i] = list[i - 1]
  OBVIOUS
<1> HIDE DEF a, b
<1>4. Shortened(a) = Shortened(b)
  <2>1. /\ Shortened(a) \in Seq(Int) /\ Shortened(b) \in Seq(Int)
        /\ Len(Shortened(a)) \in Nat /\ Len(Shortened(b)) \in Nat
    BY <1>2, <1>3, ShortenedIs DEF Inbox
  <2>2. Len(Shortened(a)) = Len(Shortened(b))
    <3>1. /\ Len(a) <= MAX_NOTIFICATION_INBOX_ITEMS => Len(Shortened(a)) = Len(a)
          /\ Len(a) > MAX_NOTIFICATION_INBOX_ITEMS => Len(Shortened(a)) = MAX_NOTIFICATION_INBOX_ITEMS
      BY <1>2, ShortenedIs
    <3>2. /\ Len(b) <= MAX_NOTIFICATION_INBOX_ITEMS => Len(Shortened(b)) = Len(b)
          /\ Len(b) > MAX_NOTIFICATION_INBOX_ITEMS => Len(Shortened(b)) = MAX_NOTIFICATION_INBOX_ITEMS
      BY <1>3, ShortenedIs
    <3>3. Len(short) \in Nat /\ Len(list) \in Nat /\ MAX_NOTIFICATION_INBOX_ITEMS \in Nat
      BY <1>1, PhoneAssumption
    <3>4. Len(a) = Len(short) + 1 /\ Len(b) = Len(list) + 1 /\ Len(short) <= Len(list)
          /\ (Len(short) < Len(list) => Len(short) = MAX_NOTIFICATION_INBOX_ITEMS)
      BY <1>1, <1>2, <1>3
    <3>5. CASE Len(short) = Len(list)
      BY <3>1, <3>2, <3>3, <3>4, <3>5
    <3>6. CASE Len(short) < Len(list)
      <4>1. Len(a) > MAX_NOTIFICATION_INBOX_ITEMS /\ Len(b) > MAX_NOTIFICATION_INBOX_ITEMS
        BY <3>3, <3>4, <3>6
      <4>2. QED
        BY <3>1, <3>2, <4>1
    <3>7. QED
      BY <3>3, <3>4, <3>5, <3>6
  <2>3. ASSUME NEW i \in 1 .. Len(Shortened(a)) PROVE Shortened(a)[i] = Shortened(b)[i]
    <3>1. Shortened(a)[i] = a[i] /\ i \in 1 .. Len(a)
      <4>1. Len(Shortened(a)) <= Len(a) /\ Len(a) \in Nat
        BY <1>2, ShortenedIs
      <4>2. QED
        BY <1>2, <2>1, <4>1, ShortenedIs
    <3>5. Shortened(b)[i] = b[i] /\ i \in 1 .. Len(b)
      <4>1. Len(Shortened(b)) <= Len(b) /\ Len(b) \in Nat /\ i \in 1 .. Len(Shortened(b))
        BY <1>3, <2>2, ShortenedIs
      <4>2. \A j \in 1 .. Len(Shortened(b)) : Shortened(b)[j] = b[j]
        BY <1>3, ShortenedIs
      <4>3. QED
        BY <2>1, <4>1, <4>2
    <3>2. CASE i = 1
      BY <1>2, <1>3, <3>1, <3>2, <3>5
    <3>3. CASE i # 1
      <4>1. i \in 2 .. Len(a) /\ i \in 2 .. Len(b) /\ i - 1 \in 1 .. Len(short)
        BY <1>1, <1>2, <3>1, <3>3, <3>5
      <4>2. QED
        BY <1>1, <1>2, <1>3, <3>1, <3>5, <4>1
    <3>4. QED
      BY <3>2, <3>3
  <2>4. QED
    BY <2>1, <2>2, <2>3, SeqEqual
<1>5. QED
  BY <1>3, <1>4 DEF a, b, short

\* An inbox is read as it was stored.
LEMMA InboxIsKept ==
  ASSUME NEW list \in Inbox
  PROVE  loadNotificationInbox(list) = list
<1>1. list \in Seq(Int) /\ Len(list) <= MAX_NOTIFICATION_INBOX_ITEMS /\ list # junk
  BY PhoneAssumption DEF Inbox
<1>2. \A i \in DOMAIN list : list[i] # junk
  BY <1>1, PhoneAssumption
<1>3. QED
  BY <1>1, <1>2, ShortenedIs DEF loadNotificationInbox

\* A number is appended to another.
LEMMA AppendedToOne ==
  ASSUME NEW x \in Int, NEW y \in Int
  PROVE  Append(<<x>>, y) = <<x, y>>
<1> DEFINE a == Append(<<x>>, y)
           b == <<x, y>>
<1>1. <<x>> \in Seq(Int) /\ Len(<<x>>) = 1 /\ <<x>>[1] = x
  OBVIOUS
<1>2. a \in Seq(Int) /\ Len(a) = 2 /\ a[1] = x /\ a[2] = y
  BY <1>1, AppendProperties
<1>3. b \in Seq(Int) /\ Len(b) = 2 /\ b[1] = x /\ b[2] = y
  OBVIOUS
<1> HIDE DEF a, b
<1>4. \A i \in 1 .. Len(a) : a[i] = b[i]
  BY <1>2, <1>3
<1>5. a = b
  BY <1>2, <1>3, <1>4, SeqEqual
<1>6. QED
  BY <1>5 DEF a, b

\* Of a list with an item that is no notice the notices are read.
LEMMA NoticesAreRead == Notices(<<junk, -1, -2>>) = <<-1, -2>>
<1> DEFINE raw == <<junk, -1, -2>>
           G(g) == [i \in 0 .. Len(raw) |->
                      IF i = 0 THEN <<>>
                      ELSE IF raw[i] = junk THEN g[i - 1] ELSE Append(g[i - 1], raw[i])]
           F == CHOOSE g : g = G(g)
           w == [i \in 0 .. 3 |-> IF i <= 1 THEN <<>> ELSE IF i = 2 THEN <<-1>> ELSE <<-1, -2>>]
<1>1. junk # -1 /\ junk # -2
  BY PhoneAssumption
<1>2. Len(raw) = 3 /\ raw[1] = junk /\ raw[2] = -1 /\ raw[3] = -2
  OBVIOUS
<1>3. Notices(raw) = F[Len(raw)]
  BY DEF Notices
<1> HIDE DEF raw
<1>4. w = G(w)
  <2>1. 0 .. Len(raw) = {0, 1, 2, 3} /\ 0 .. 3 = {0, 1, 2, 3}
    BY <1>2
  <2>2. w[0] = <<>> /\ w[1] = <<>> /\ w[2] = <<-1>> /\ w[3] = <<-1, -2>>
    OBVIOUS
  <2>3. w = [i \in {0, 1, 2, 3} |-> w[i]]
    BY <2>1
  <2> HIDE DEF w
  <2> DEFINE v == G(w)
  <2>4. v = [i \in {0, 1, 2, 3} |-> v[i]]
    BY <2>1
  <2>5. v[0] = <<>> /\ v[1] = w[0]
    BY <1>2, <2>1
  <2>6. v[2] = Append(w[1], -1) /\ v[3] = Append(w[2], -2)
    BY <1>1, <1>2, <2>1
  <2> HIDE DEF v
  <2>7. v[0] = w[0] /\ v[1] = w[1] /\ v[2] = w[2] /\ v[3] = w[3]
    <3>1. Append(<<>>, -1) = <<-1>> /\ Append(<<-1>>, -2) = <<-1, -2>>
      BY AppendedToOne
    <3>2. QED
      BY <2>2, <2>5, <2>6, <3>1
  <2>8. v = w
    BY <2>3, <2>4, <2>7
  <2>9. QED
    BY <2>8 DEF v
<1>5. F = G(F)
  BY <1>4
<1> HIDE DEF F, w
<1>6. /\ F[0] = <<>> /\ F[1] = F[0] /\ F[2] = Append(F[1], -1) /\ F[3] = Append(F[2], -2)
  BY <1>1, <1>2, <1>5
<1>7. F[3] = <<-1, -2>>
  <2>1. Append(<<>>, -1) = <<-1>> /\ Append(<<-1>>, -2) = <<-1, -2>>
    BY AppendedToOne
  <2>2. QED
    BY <1>6, <2>1
<1>8. Notices(raw) = <<-1, -2>>
  BY <1>2, <1>3, <1>7
<1>9. QED
  BY <1>8 DEF raw


-----------------------------------------------------------------------------
(* The start. *)

\* What an older version has stored is read as sound settings.
LEMMA OldIsRead ==
  ASSUME NEW s \in Machine,
         NEW raw, raw = [off |-> {"alerts"}, ids |-> {s, junk}]
  PROVE  loadNotificationSettings(raw) \in Sound
<1> DEFINE r == loadNotificationSettings(raw)
           set == {s, junk} \ {junk}
<1>1. CASE raw = junk
  BY <1>1, DefaultSettings DEF loadNotificationSettings
<1>2. CASE raw # junk
  <2>1. DOMAIN raw = {"off", "ids"} /\ raw.off = {"alerts"} /\ raw.ids = {s, junk}
    OBVIOUS
  <2>2. r = [off |-> {"alerts"}, adminView |-> "summary", personView |-> "gpuIdle", hidden |-> {},
             rules |-> [m \in set |-> DEFAULT_IDLE_GPU_NOTIFICATION_RULE]]
    BY <1>2, <2>1 DEF loadNotificationSettings, DEFAULT_NOTIFICATION_SETTINGS
  <2>3. set \in SUBSET Machine
    OBVIOUS
  <2> HIDE DEF set, r
  <2>4. /\ r = [off |-> r.off, adminView |-> r.adminView, personView |-> r.personView,
                hidden |-> r.hidden, rules |-> r.rules]
        /\ r.off \in SUBSET Switch /\ r.adminView \in HomeView /\ r.personView \in HomeView
        /\ r.hidden = {} /\ r.rules = [m \in set |-> DEFAULT_IDLE_GPU_NOTIFICATION_RULE]
    BY <2>2 DEF Switch, HomeView
  <2>5. r.rules \in [set -> SoundRule]
    BY <2>4, DefaultIsSound
  <2>6. r \in Sound
    BY <2>3, <2>4, <2>5, SoundSettings
  <2>7. QED
    BY <2>6 DEF r
<1>3. QED
  BY <1>1, <1>2

\* So is what another version may have left.
LEMMA OddIsRead ==
  ASSUME NEW s \in Machine, NEW odd,
         odd = [minIdleGpuCount |-> 250, idleWindowSeconds |-> 40, maxGpuUtilizationPercent |-> junk],
         NEW raw,
         raw = [adminView |-> "map", hidden |-> {s, junk}, rules |-> [u \in {s} |-> odd]]
  PROVE  loadNotificationSettings(raw) \in Sound
<1> DEFINE r == loadNotificationSettings(raw)
<1>1. CASE raw = junk
  BY <1>1, DefaultSettings DEF loadNotificationSettings
<1>2. CASE raw # junk
  <2>1. /\ DOMAIN raw = {"adminView", "hidden", "rules"} /\ raw["adminView"] = "map"
        /\ raw.hidden = {s, junk} /\ raw.rules = [u \in {s} |-> odd]
        /\ DOMAIN raw.rules = {s}
    OBVIOUS
  <2>2. sanitizeIdleGpuRule(odd) \in SoundRule
    <3>1. \A f \in Field \cap DOMAIN odd : odd[f] \in Raw
      BY DEF Field, Raw
    <3>2. QED
      BY <3>1, SanitizedIsSound
  <2>3. r = [off |-> {}, adminView |-> "summary", personView |-> "gpuIdle",
             hidden |-> {s, junk} \ {junk},
             rules |-> [u \in {s} |-> sanitizeIdleGpuRule(odd)]]
    BY <1>2, <2>1 DEF loadNotificationSettings, DEFAULT_NOTIFICATION_SETTINGS, HomeView
  <2> HIDE DEF r
  <2>4. /\ r = [off |-> r.off, adminView |-> r.adminView, personView |-> r.personView,
                hidden |-> r.hidden, rules |-> r.rules]
        /\ r.off \in SUBSET Switch /\ r.adminView \in HomeView /\ r.personView \in HomeView
        /\ r.hidden \in SUBSET Machine /\ r.rules = [u \in {s} |-> sanitizeIdleGpuRule(odd)]
    BY <2>3 DEF Switch, HomeView
  <2>5. r.rules \in [{s} -> SoundRule] /\ {s} \in SUBSET Machine
    BY <2>2, <2>4
  <2>6. r \in Sound
    BY <2>4, <2>5, SoundSettings
  <2>7. QED
    BY <2>6 DEF r
<1>3. QED
  BY <1>1, <1>2

\* So are the notices that were stored.
LEMMA StoredInboxIsRead ==
  /\ loadNotificationInbox(junk) \in Inbox
  /\ loadNotificationInbox(<<junk, -1, -2>>) \in Inbox
<1>1. <<>> \in Inbox
  BY PhoneAssumption DEF Inbox
<1>2. loadNotificationInbox(junk) = <<>>
  BY DEF loadNotificationInbox
<1>3. loadNotificationInbox(<<junk, -1, -2>>) \in {<<>>, Shortened(<<-1, -2>>)}
  <2> DEFINE raw == <<junk, -1, -2>>
  <2>1. 1 \in DOMAIN raw /\ raw[1] = junk
    OBVIOUS
  <2>2. Notices(raw) = <<-1, -2>>
    BY NoticesAreRead
  <2> HIDE DEF raw
  <2>3. loadNotificationInbox(raw) \in {<<>>, Shortened(<<-1, -2>>)}
    BY <2>1, <2>2 DEF loadNotificationInbox
  <2>4. QED
    BY <2>3 DEF raw
<1>4. Shortened(<<-1, -2>>) \in Inbox
  <2>1. <<-1, -2>> \in Seq(Int)
    OBVIOUS
  <2>2. QED
    BY <2>1, ShortenedIs
<1>5. QED
  BY <1>1, <1>2, <1>3, <1>4

\* The phone starts with what it finds.
LEMMA PhoneInitKeeps == PhoneInit => PhoneInv
<1> SUFFICES ASSUME PhoneInit PROVE PhoneInv
  OBVIOUS
<1> DEFINE m   == CHOOSE s \in Machine : TRUE
           old == [off |-> {"alerts"}, ids |-> {m, junk}]
           rule == [minIdleGpuCount |-> 250, idleWindowSeconds |-> 40,
                    maxGpuUtilizationPercent |-> junk]
           odd == [adminView |-> "map", hidden |-> {m, junk}, rules |-> [u \in {m} |-> rule]]
           list == <<junk, -1, -2>>
<1>1. disk \in {[prefs |-> junk, inbox |-> junk], [prefs |-> old, inbox |-> list],
               [prefs |-> odd, inbox |-> list]}
  BY DEF PhoneInit
<1>2. m \in Machine
  BY PhoneAssumption
<1>3. loadNotificationSettings(junk) \in Sound
  BY DefaultSettings DEF loadNotificationSettings
<1>4. loadNotificationSettings(old) \in Sound
  BY <1>2, OldIsRead
<1>5. loadNotificationSettings(odd) \in Sound
  BY <1>2, OddIsRead
<1>6. loadNotificationInbox(junk) \in Inbox /\ loadNotificationInbox(list) \in Inbox
  BY StoredInboxIsRead
<1> HIDE DEF m, old, rule, odd, list
<1>7. /\ disk = [prefs |-> disk.prefs, inbox |-> disk.inbox]
      /\ loadNotificationSettings(disk.prefs) \in Sound
      /\ loadNotificationInbox(disk.inbox) \in Inbox
  BY <1>1, <1>3, <1>4, <1>5, <1>6
<1>8. /\ prefs = loadNotificationSettings(disk.prefs) /\ inbox = loadNotificationInbox(disk.inbox)
      /\ told = inbox /\ writes = <<>> /\ failed = {} /\ unread = {} /\ dispatched = {} /\ editor = NoPage
      /\ visible = Machine /\ person \in BOOLEAN /\ steps = 0
  BY DEF PhoneInit
<1>9. PhoneTypeOK
  BY <1>7, <1>8 DEF PhoneTypeOK, Inbox
<1>10. WillBeStored
  BY <1>8 DEF WillBeStored, ReadBack, Now
<1>11. inbox = Shortened(told)
  BY <1>7, <1>8, ShortenedIs DEF Inbox
<1>12. QED
  BY <1>9, <1>10, <1>11 DEF PhoneInv

-----------------------------------------------------------------------------
(* The store and the storage. *)

\* A step that neither changes nor stores anything.
LEMMA NothingStored ==
  ASSUME PhoneInv, disk' = disk, writes' = writes, failed' = failed, unread' = unread, prefs' = prefs,
         inbox' = inbox, told' = told, dispatched' \in SUBSET Int, visible' \in SUBSET Machine,
         person' \in BOOLEAN, editor' \in Editor \cup {NoPage}, steps' \in Nat
  PROVE  PhoneInv'
<1>1. PhoneTypeOK'
  BY DEF PhoneInv, PhoneTypeOK
<1>2. WillBeStored'
  BY DEF PhoneInv, WillBeStored, ReadBack, Now
<1>3. QED
  BY <1>1, <1>2 DEF PhoneInv

\* A write joins those that wait.
LEMMA WriteJoins ==
  ASSUME PhoneInv, NEW w \in Write, writes' = Append(writes, w), disk' = disk, failed' = failed,
         unread' = unread \ {w.key},
         w.key = "prefs" => w.value = prefs' /\ inbox' = inbox,
         w.key = "inbox" => w.value = inbox' /\ prefs' = prefs
  PROVE  writes' \in Seq(Write) /\ WillBeStored'
<1>1. writes \in Seq(Write) /\ w.key \in {"prefs", "inbox"}
  BY DEF PhoneInv, PhoneTypeOK, Write
<1> HIDE DEF Write
<1>2. /\ writes' \in Seq(Write) /\ Len(writes') = Len(writes) + 1 /\ writes'[Len(writes')] = w
      /\ \A i \in 1 .. Len(writes) : writes'[i] = writes[i]
      /\ Len(writes) \in Nat
  BY <1>1, AppendProperties
<1>3. DOMAIN writes = 1 .. Len(writes) /\ DOMAIN writes' = 1 .. Len(writes')
  BY <1>1, <1>2
<1>4. ASSUME NEW i \in DOMAIN writes', IsLast(writes', i)
      PROVE  writes'[i].value = IF writes'[i].key = "prefs" THEN prefs' ELSE inbox'
  <2>1. CASE i = Len(writes')
    BY <1>1, <1>2, <2>1
  <2>2. CASE i # Len(writes')
    <3>1. i \in DOMAIN writes /\ writes'[i] = writes[i]
      BY <1>2, <1>3, <2>2
    <3>2. IsLast(writes, i)
      BY <1>2, <1>3, <1>4, <3>1 DEF IsLast
    <3>3. w.key # writes[i].key
      BY <1>2, <1>3, <1>4, <2>2, <3>1 DEF IsLast
    <3>4. writes[i].key \in {"prefs", "inbox"}
      <4>1. writes[i] \in Write
        BY <1>1, <3>1
      <4>2. QED
        BY <4>1 DEF Write
    <3>5. writes[i].value = IF writes[i].key = "prefs" THEN prefs ELSE inbox
      BY <3>1, <3>2 DEF PhoneInv, WillBeStored, Now
    <3>6. QED
      BY <1>1, <3>1, <3>3, <3>4, <3>5
  <2>3. QED
    BY <2>1, <2>2
<1>5. ASSUME NEW key \in {"prefs", "inbox"}, key \notin failed' \cup unread',
             \A i \in DOMAIN writes' : writes'[i].key # key
      PROVE  ReadBack(key)' = Now(key)'
  <2>1. w.key # key
    BY <1>2, <1>3, <1>5
  <2>2. \A i \in DOMAIN writes : writes[i].key # key
    BY <1>2, <1>3, <1>5
  <2>3. ReadBack(key) = Now(key)
    BY <1>5, <2>2 DEF PhoneInv, WillBeStored
  <2>4. QED
    BY <1>1, <1>5, <2>1, <2>3 DEF ReadBack, Now
<1>6. WillBeStored'
  BY <1>4, <1>5 DEF WillBeStored, Now
<1>7. QED
  BY <1>2, <1>6

\* New settings are kept.
LEMMA SettingsChange ==
  ASSUME PhoneInv, NEW next \in Sound, Keep(next), disk' = disk, failed' = failed,
         inbox' = inbox, told' = told, dispatched' = dispatched, visible' = visible,
         person' = person, editor' \in Editor \cup {NoPage}, steps' \in Nat
  PROVE  PhoneInv'
<1> DEFINE w == [key |-> "prefs", value |-> next]
<1>1. w \in Write /\ w.key = "prefs" /\ w.value = next
  BY DEF Write
<1>2. writes' = Append(writes, w) /\ prefs' = next /\ unread' = unread \ {"prefs"}
  BY DEF Keep
<1> HIDE DEF w
<1>3. writes' \in Seq(Write) /\ WillBeStored'
  BY <1>1, <1>2, WriteJoins
<1>4. PhoneTypeOK'
  BY <1>2, <1>3 DEF PhoneInv, PhoneTypeOK
<1>5. QED
  BY <1>3, <1>4 DEF PhoneInv

\* A notice was shown.
LEMMA NoticeShownKeeps ==
  ASSUME PhoneInv, NEW n \in dispatched, NoticeShown(n)
  PROVE  PhoneInv'
<1> DEFINE w == [key |-> "inbox", value |-> inbox']
<1>1. /\ inbox' = Shortened(<<n>> \o inbox) /\ writes' = Append(writes, w)
      /\ told' = <<n>> \o told /\ dispatched' = dispatched \ {n} /\ unread' = unread \ {"inbox"}
      /\ disk' = disk /\ failed' = failed /\ prefs' = prefs /\ visible' = visible
      /\ person' = person /\ editor' = editor /\ steps' = steps
  BY DEF NoticeShown, pushNotificationInboxItem
<1>2. n \in Int /\ told \in Seq(Int) /\ inbox = Shortened(told)
  BY DEF PhoneInv, PhoneTypeOK
<1>3. told' \in Seq(Int) /\ inbox' = Shortened(told')
  BY <1>1, <1>2, JoinsTheShortened
<1>4. inbox' \in Inbox
  BY <1>3, ShortenedIs
<1>5. w \in Write /\ w.key = "inbox" /\ w.value = inbox'
  BY <1>4 DEF Write
<1> HIDE DEF w
<1>6. writes' \in Seq(Write) /\ WillBeStored'
  BY <1>1, <1>5, WriteJoins
<1>7. PhoneTypeOK'
  BY <1>1, <1>3, <1>4, <1>6 DEF PhoneInv, PhoneTypeOK
<1>8. QED
  BY <1>3, <1>6, <1>7 DEF PhoneInv


\* A write ends: it is stored or fails.
LEMMA WriteEndsKeeps ==
  ASSUME PhoneInv, WriteEnds
  PROVE  PhoneInv'
<1> DEFINE w == Head(writes)
<1>1. /\ writes # <<>> /\ writes' = Tail(writes)
      /\ \/ disk' = [disk EXCEPT ![w.key] = w.value] /\ failed' = failed \ {w.key}
         \/ failed' = failed \cup {w.key} /\ disk' = disk
      /\ unread' = unread
      /\ prefs' = prefs /\ inbox' = inbox /\ dispatched' = dispatched /\ visible' = visible
      /\ person' = person /\ editor' = editor /\ steps' = steps /\ told' = told
  BY DEF WriteEnds
<1>2. writes \in Seq(Write)
  BY DEF PhoneInv, PhoneTypeOK
<1> HIDE DEF Write
<1>3. /\ w \in Write /\ w = writes[1] /\ 1 \in DOMAIN writes
      /\ writes' \in Seq(Write) /\ Len(writes) \in Nat
      /\ Len(writes') = Len(writes) - 1
      /\ \A i \in 1 .. Len(writes') : writes'[i] = writes[i + 1]
  BY <1>1, <1>2, HeadTailProperties
<1>4. DOMAIN writes = 1 .. Len(writes) /\ DOMAIN writes' = 1 .. Len(writes')
  BY <1>2, <1>3
<1> HIDE DEF w
<1>5. \/ w.key = "prefs" /\ w.value \in Sound
      \/ w.key = "inbox" /\ w.value \in Inbox
  BY <1>3 DEF Write
<1>6. /\ disk = [prefs |-> disk.prefs, inbox |-> disk.inbox]
      /\ loadNotificationSettings(disk.prefs) \in Sound
      /\ loadNotificationInbox(disk.inbox) \in Inbox
  BY DEF PhoneInv, PhoneTypeOK
<1>7. /\ disk' = [prefs |-> disk'.prefs, inbox |-> disk'.inbox]
      /\ disk' = disk \/ w.key \notin failed'
      /\ w.key \notin failed' =>
           /\ disk'.prefs = IF w.key = "prefs" THEN w.value ELSE disk.prefs
           /\ disk'.inbox = IF w.key = "inbox" THEN w.value ELSE disk.inbox
  BY <1>1, <1>5, <1>6
<1>8. /\ \A key \in {"prefs", "inbox"} :
           key = w.key /\ w.key \notin failed' => ReadBack(key)' = w.value
      /\ \A key \in {"prefs", "inbox"} : key # w.key => ReadBack(key)' = ReadBack(key)
  <2>1. CASE w.key \notin failed'
    <3>1. CASE w.key = "prefs"
      <4>1. disk'.prefs = w.value /\ disk'.inbox = disk.inbox /\ w.value \in Sound
        BY <1>5, <1>7, <2>1, <3>1
      <4>2. loadNotificationSettings(disk'.prefs) = w.value
        BY <4>1, SoundSettingsAreKept
      <4>3. QED
        BY <3>1, <4>1, <4>2 DEF ReadBack
    <3>2. CASE w.key = "inbox"
      <4>1. disk'.inbox = w.value /\ disk'.prefs = disk.prefs /\ w.value \in Inbox
        BY <1>5, <1>7, <2>1, <3>2
      <4>2. loadNotificationInbox(disk'.inbox) = w.value
        BY <4>1, InboxIsKept
      <4>3. QED
        BY <3>2, <4>1, <4>2 DEF ReadBack
    <3>3. QED
      BY <1>5, <3>1, <3>2
  <2>2. CASE w.key \in failed'
    BY <1>7, <2>2 DEF ReadBack
  <2>3. QED
    BY <2>1, <2>2
<1>9. /\ loadNotificationSettings(disk'.prefs) \in Sound
      /\ loadNotificationInbox(disk'.inbox) \in Inbox
  <2>1. CASE w.key \notin failed'
    BY <1>5, <1>6, <1>8, <2>1 DEF ReadBack
  <2>2. CASE w.key \in failed'
    BY <1>6, <1>7, <2>2
  <2>3. QED
    BY <2>1, <2>2
<1>10. PhoneTypeOK'
  BY <1>1, <1>3, <1>7, <1>9 DEF PhoneInv, PhoneTypeOK
<1>11. ASSUME NEW i \in DOMAIN writes', IsLast(writes', i)
       PROVE  writes'[i].value = Now(writes'[i].key)
  <2>1. i + 1 \in DOMAIN writes /\ writes'[i] = writes[i + 1]
    BY <1>3, <1>4
  <2>2. IsLast(writes, i + 1)
    <3> SUFFICES ASSUME NEW j \in DOMAIN writes, j > i + 1
                 PROVE  writes[j].key # writes[i + 1].key
      BY DEF IsLast
    <3>1. j - 1 \in DOMAIN writes' /\ j - 1 > i /\ writes'[j - 1] = writes[j]
      BY <1>3, <1>4, <1>11
    <3>2. QED
      BY <1>11, <2>1, <3>1 DEF IsLast
  <2>3. QED
    BY <2>1, <2>2 DEF PhoneInv, WillBeStored
<1>12. ASSUME NEW key \in {"prefs", "inbox"}, key \notin failed' \cup unread',
              \A i \in DOMAIN writes' : writes'[i].key # key
       PROVE  ReadBack(key)' = Now(key)
  <2>1. \A i \in DOMAIN writes : i # 1 => writes[i].key # key
    <3> SUFFICES ASSUME NEW i \in DOMAIN writes, i # 1 PROVE writes[i].key # key
      OBVIOUS
    <3>1. i - 1 \in DOMAIN writes' /\ writes'[i - 1] = writes[i]
      BY <1>3, <1>4
    <3>2. QED
      BY <1>12, <3>1
  <2>2. CASE w.key = key
    <3>1. IsLast(writes, 1)
      BY <1>3, <2>1, <2>2 DEF IsLast
    <3>2. w.value = Now(key)
      BY <1>3, <2>2, <3>1 DEF PhoneInv, WillBeStored
    <3>3. ReadBack(key)' = w.value
      BY <1>5, <1>8, <1>12, <2>2
    <3>4. QED
      BY <3>2, <3>3
  <2>3. CASE w.key # key
    <3>1. \A i \in DOMAIN writes : writes[i].key # key
      BY <1>3, <2>1, <2>3
    <3>2. key \notin failed \cup unread
      BY <1>1, <1>12, <2>3
    <3>3. ReadBack(key) = Now(key)
      BY <3>1, <3>2 DEF PhoneInv, WillBeStored
    <3>4. ReadBack(key)' = ReadBack(key)
      BY <1>8, <2>3
    <3>5. QED
      BY <3>3, <3>4
  <2>4. QED
    BY <2>2, <2>3
<1>13. Now("prefs")' = Now("prefs") /\ Now("inbox")' = Now("inbox")
  BY <1>1 DEF Now
<1>14. WillBeStored'
  <2>1. \A i \in DOMAIN writes' : IsLast(writes', i) =>
           writes'[i].value = IF writes'[i].key = "prefs" THEN prefs' ELSE inbox'
    BY <1>1, <1>11 DEF Now
  <2>2. \A key \in {"prefs", "inbox"} :
          key \notin failed' \cup unread' /\ (\A i \in DOMAIN writes' : writes'[i].key # key) =>
            ReadBack(key)' = Now(key)'
    BY <1>12, <1>13
  <2>3. QED
    BY <2>1, <2>2 DEF WillBeStored, Now
<1>15. QED
  BY <1>1, <1>10, <1>14 DEF PhoneInv

\* The phone starts again, with what is stored or, if it cannot be read, without it.
LEMMA RestartKeeps ==
  ASSUME PhoneInv, Restart \/ RestartUnread
  PROVE  PhoneInv'
<1>1. /\ writes' = <<>> /\ failed' = {} /\ dispatched' = {} /\ editor' = NoPage /\ told' = inbox'
      /\ disk' = disk /\ visible' = visible /\ person' = person /\ steps' = steps
      /\ \/ /\ unread' = {}
            /\ prefs' = loadNotificationSettings(disk.prefs) /\ inbox' = loadNotificationInbox(disk.inbox)
         \/ /\ unread' = {"prefs", "inbox"}
            /\ prefs' = DEFAULT_NOTIFICATION_SETTINGS /\ inbox' = <<>>
  BY DEF Restart, RestartUnread, Started
<1>2. DEFAULT_NOTIFICATION_SETTINGS \in Sound
  BY DefaultSettings
<1>3. <<>> \in Inbox
  <2>1. loadNotificationInbox(junk) = <<>>
    BY DEF loadNotificationInbox
  <2>2. QED
    BY <2>1, StoredInboxIsRead
<1>4. PhoneTypeOK'
  <2>1. PhoneTypeOK
    BY DEF PhoneInv
  <2>2. prefs' \in Sound /\ inbox' \in Inbox
    BY <1>1, <1>2, <1>3, <2>1 DEF PhoneTypeOK
  <2>3. told' \in Seq(Int)
    BY <1>1, <2>2 DEF Inbox
  <2>4. writes' \in Seq(Write) /\ dispatched' \in SUBSET Int /\ editor' \in Editor \cup {NoPage}
    BY <1>1
  <2>5. QED
    BY <1>1, <2>1, <2>2, <2>3, <2>4 DEF PhoneTypeOK
<1>5. WillBeStored'
  BY <1>1 DEF WillBeStored, ReadBack, Now
<1>6. inbox' = Shortened(told')
  BY <1>1, <1>4, ShortenedIs DEF PhoneTypeOK, Inbox
<1>7. QED
  BY <1>4, <1>5, <1>6 DEF PhoneInv

-----------------------------------------------------------------------------
(* The settings and the page of a machine. *)

\* The page of a machine starts with its rule.
LEMMA FreshIsTyped ==
  ASSUME NEW s \in Machine, NEW set \in SUBSET Machine, NEW table \in [set -> SoundRule]
  PROVE  Fresh(s, table) \in Editor /\ RuleOf(table, s) \in SoundRule
<1>1. RuleOf(table, s) \in SoundRule
  BY DefaultIsSound DEF RuleOf
<1>2. RuleOf(table, s) \in [Field -> Raw]
  BY <1>1 DEF SoundRule, IdleGpuNotificationRule, Raw
<1>3. QED
  BY <1>1, <1>2 DEF Fresh, Editor

\* A page of a machine is known by its machine.
LEMMA WhichPage ==
  ASSUME PhoneInv
  PROVE  /\ editor = NoPage <=> editor.machine = "none"
         /\ editor # NoPage => editor \in Editor /\ editor.machine \in Machine
BY PhoneAssumption DEF PhoneInv, PhoneTypeOK, Editor, NoPage

\* A part of the settings is changed.
LEMMA PartChanges ==
  ASSUME NEW s \in Sound
  PROVE  /\ \A x \in SUBSET Switch : [s EXCEPT !.off = x] \in Sound
         /\ \A x \in HomeView : [s EXCEPT !.adminView = x] \in Sound
         /\ \A x \in HomeView : [s EXCEPT !.personView = x] \in Sound
         /\ \A x \in SUBSET Machine : [s EXCEPT !.hidden = x] \in Sound
         /\ \A set \in SUBSET Machine :
              \A x \in [set -> SoundRule] : [s EXCEPT !.rules = x] \in Sound
<1> DEFINE S == DOMAIN s.rules
<1>1. /\ s = [off |-> s.off, adminView |-> s.adminView, personView |-> s.personView,
              hidden |-> s.hidden, rules |-> s.rules]
      /\ s.off \in SUBSET Switch /\ s.adminView \in HomeView /\ s.personView \in HomeView
      /\ s.hidden \in SUBSET Machine /\ S \in SUBSET Machine
      /\ s.rules \in [S -> SoundRule]
  BY SoundParts
<1> HIDE DEF S
<1>2. ASSUME NEW x \in SUBSET Switch PROVE [s EXCEPT !.off = x] \in Sound
  <2> DEFINE r == [s EXCEPT !.off = x]
  <2>1. /\ r = [off |-> r.off, adminView |-> r.adminView, personView |-> r.personView,
                hidden |-> r.hidden, rules |-> r.rules]
        /\ r.off = x /\ r.adminView = s.adminView /\ r.personView = s.personView
        /\ r.hidden = s.hidden /\ r.rules = s.rules
    BY <1>1
  <2> HIDE DEF r
  <2>2. r \in Sound
    BY <1>1, <2>1, SoundSettings
  <2>3. QED
    BY <2>2 DEF r
<1>3. ASSUME NEW x \in HomeView PROVE [s EXCEPT !.adminView = x] \in Sound
  <2> DEFINE r == [s EXCEPT !.adminView = x]
  <2>1. /\ r = [off |-> r.off, adminView |-> r.adminView, personView |-> r.personView,
                hidden |-> r.hidden, rules |-> r.rules]
        /\ r.off = s.off /\ r.adminView = x /\ r.personView = s.personView
        /\ r.hidden = s.hidden /\ r.rules = s.rules
    BY <1>1
  <2> HIDE DEF r
  <2>2. r \in Sound
    BY <1>1, <2>1, SoundSettings
  <2>3. QED
    BY <2>2 DEF r
<1>4. ASSUME NEW x \in HomeView PROVE [s EXCEPT !.personView = x] \in Sound
  <2> DEFINE r == [s EXCEPT !.personView = x]
  <2>1. /\ r = [off |-> r.off, adminView |-> r.adminView, personView |-> r.personView,
                hidden |-> r.hidden, rules |-> r.rules]
        /\ r.off = s.off /\ r.adminView = s.adminView /\ r.personView = x
        /\ r.hidden = s.hidden /\ r.rules = s.rules
    BY <1>1
  <2> HIDE DEF r
  <2>2. r \in Sound
    BY <1>1, <2>1, SoundSettings
  <2>3. QED
    BY <2>2 DEF r
<1>5. ASSUME NEW x \in SUBSET Machine PROVE [s EXCEPT !.hidden = x] \in Sound
  <2> DEFINE r == [s EXCEPT !.hidden = x]
  <2>1. /\ r = [off |-> r.off, adminView |-> r.adminView, personView |-> r.personView,
                hidden |-> r.hidden, rules |-> r.rules]
        /\ r.off = s.off /\ r.adminView = s.adminView /\ r.personView = s.personView
        /\ r.hidden = x /\ r.rules = s.rules
    BY <1>1
  <2> HIDE DEF r
  <2>2. r \in Sound
    BY <1>1, <2>1, SoundSettings
  <2>3. QED
    BY <2>2 DEF r
<1>6. ASSUME NEW set \in SUBSET Machine, NEW x \in [set -> SoundRule]
      PROVE  [s EXCEPT !.rules = x] \in Sound
  <2> DEFINE r == [s EXCEPT !.rules = x]
  <2>1. /\ r = [off |-> r.off, adminView |-> r.adminView, personView |-> r.personView,
                hidden |-> r.hidden, rules |-> r.rules]
        /\ r.off = s.off /\ r.adminView = s.adminView /\ r.personView = s.personView
        /\ r.hidden = s.hidden /\ r.rules = x
    BY <1>1
  <2> HIDE DEF r
  <2>2. r \in Sound
    BY <1>1, <2>1, SoundSettings
  <2>3. QED
    BY <2>2 DEF r
<1>7. QED
  BY <1>2, <1>3, <1>4, <1>5, <1>6

\* What the page accepts is a sound rule.
LEMMA AcceptedIsSound ==
  ASSUME NEW draft \in [Field -> Raw],
         \A f \in Field : parseRuleNumber(f, draft[f]) # junk
  PROVE  [f \in Field |-> Round(parseRuleNumber(f, draft[f]), Unit(f))] \in SoundRule
<1> DEFINE rule == [f \in Field |-> Round(parseRuleNumber(f, draft[f]), Unit(f))]
<1>1. ASSUME NEW f \in Field PROVE FitsField(f, rule[f])
  <2> DEFINE x == Clamp(f, Round(draft[f], 10))
  <2>1. draft[f] \in Int /\ parseRuleNumber(f, draft[f]) = x
    <3>1. draft[f] # junk
      BY DEF parseRuleNumber
    <3>2. QED
      BY <3>1 DEF parseRuleNumber, Raw
  <2>2. Round(draft[f], 10) \in Int
    BY <2>1, RoundIs
  <2>3. x \in Int /\ Range4(f).min <= x /\ x <= Range4(f).max
    BY <2>2, ClampIs
  <2> HIDE DEF x
  <2>4. /\ Unit(f) \in {10, 100} /\ Range4(f).min \in Int /\ Range4(f).max \in Int
        /\ Range4(f).min % 100 = 0 /\ Range4(f).max % 100 = 0
    BY RangeIsWhole
  <2> DEFINE y == Round(x, Unit(f))
  <2>5. /\ y \in Int /\ y % Unit(f) = 0
        /\ \A b \in Int : b % 100 = 0 => (x <= b => y <= b) /\ (b <= x => b <= y)
    BY <2>3, <2>4, RoundIs
  <2>6. Range4(f).min <= y /\ y <= Range4(f).max
    BY <2>3, <2>4, <2>5
  <2>7. rule[f] = Round(x, Unit(f))
    BY <2>1
  <2> HIDE DEF rule
  <2>8. QED
    BY <2>5, <2>6, <2>7 DEF FitsField
<1>2. rule = [f \in Field |-> rule[f]]
  OBVIOUS
<1> HIDE DEF rule
<1>3. rule \in SoundRule
  BY <1>1, <1>2, SoundIs
<1>4. QED
  BY <1>3 DEF rule


\* A switch is turned.
LEMMA ToggleSwitchKeeps ==
  ASSUME PhoneInv, NEW x \in Switch, ToggleSwitch(x)
  PROVE  PhoneInv'
<1> DEFINE off == IF x \in prefs.off THEN prefs.off \ {x} ELSE prefs.off \cup {x}
           next == [prefs EXCEPT !.off = off]
<1>1. /\ Keep(next) /\ steps' = steps + 1
      /\ disk' = disk /\ failed' = failed /\ inbox' = inbox /\ dispatched' = dispatched
      /\ visible' = visible /\ person' = person /\ editor' = editor /\ told' = told
  BY DEF ToggleSwitch, Counted
<1>2. prefs \in Sound /\ steps' \in Nat /\ editor' \in Editor \cup {NoPage}
  BY <1>1 DEF PhoneInv, PhoneTypeOK
<1>3. off \in SUBSET Switch
  BY <1>2, SoundParts
<1> HIDE DEF off
<1>4. next \in Sound
  BY <1>2, <1>3, PartChanges
<1> HIDE DEF next
<1>5. QED
  BY <1>1, <1>2, <1>4, SettingsChange

\* Another first page.
LEMMA setHomeViewKeeps ==
  ASSUME PhoneInv, NEW home \in HomeView, setHomeView(home)
  PROVE  PhoneInv'
<1>1. /\ \/ Keep([prefs EXCEPT !["personView"] = home])
         \/ Keep([prefs EXCEPT !["adminView"] = home])
      /\ steps' = steps + 1
      /\ disk' = disk /\ failed' = failed /\ inbox' = inbox /\ dispatched' = dispatched
      /\ visible' = visible /\ person' = person /\ editor' = editor /\ told' = told
  BY DEF setHomeView, Counted
<1>2. prefs \in Sound /\ steps' \in Nat /\ editor' \in Editor \cup {NoPage}
  BY <1>1 DEF PhoneInv, PhoneTypeOK
<1>3. PICK next \in Sound : Keep(next)
  BY <1>1, <1>2, PartChanges
<1>4. QED
  BY <1>1, <1>2, <1>3, SettingsChange

\* A machine is hidden or shown.
LEMMA HiddenServerKeeps ==
  ASSUME PhoneInv, NEW s \in Machine, toggleAdminHiddenServer(s)
  PROVE  PhoneInv'
<1> DEFINE hidden == IF s \in prefs.hidden THEN prefs.hidden \ {s} ELSE prefs.hidden \cup {s}
           next == [prefs EXCEPT !.hidden = hidden]
<1>1. /\ Keep(next) /\ steps' = steps + 1
      /\ disk' = disk /\ failed' = failed /\ inbox' = inbox /\ dispatched' = dispatched
      /\ visible' = visible /\ person' = person /\ editor' = editor /\ told' = told
  BY DEF toggleAdminHiddenServer, Counted
<1>2. prefs \in Sound /\ steps' \in Nat /\ editor' \in Editor \cup {NoPage}
  BY <1>1 DEF PhoneInv, PhoneTypeOK
<1>3. hidden \in SUBSET Machine
  BY <1>2, SoundParts
<1> HIDE DEF hidden
<1>4. next \in Sound
  BY <1>2, <1>3, PartChanges
<1> HIDE DEF next
<1>5. QED
  BY <1>1, <1>2, <1>4, SettingsChange

\* Notices of a machine are wanted, or no longer.
LEMMA ToggleSubscriptionKeeps ==
  ASSUME PhoneInv, NEW s \in Machine, ToggleSubscription(s)
  PROVE  PhoneInv'
<1> DEFINE table == prefs.rules
           old == DOMAIN table
           fewer == [t \in old \ {s} |-> table[t]]
           more  == [t \in old \cup {s} |-> RuleOf(table, t)]
           new == IF s \in old THEN fewer ELSE more
           set == IF s \in old THEN old \ {s} ELSE old \cup {s}
           next == [prefs EXCEPT !.rules = new]
<1>1. /\ Keep(next) /\ steps' = steps + 1
      /\ editor' = Fresh(s, new) \/ editor' = editor
      /\ disk' = disk /\ failed' = failed /\ inbox' = inbox /\ dispatched' = dispatched
      /\ visible' = visible /\ person' = person /\ told' = told
  BY DEF ToggleSubscription, Counted
<1>2. prefs \in Sound /\ steps' \in Nat /\ editor \in Editor \cup {NoPage}
  BY <1>1 DEF PhoneInv, PhoneTypeOK
<1>3. old \in SUBSET Machine /\ table \in [old -> SoundRule]
  BY <1>2, SoundParts
<1> HIDE DEF old, table
<1>4. \A t \in Machine : RuleOf(table, t) \in SoundRule
  BY <1>3, FreshIsTyped
<1>5. set \in SUBSET Machine /\ new \in [set -> SoundRule]
  <2>1. CASE s \in old
    <3>1. fewer \in [old \ {s} -> SoundRule]
      BY <1>3
    <3>2. QED
      BY <1>3, <2>1, <3>1
  <2>2. CASE s \notin old
    <3>1. more \in [old \cup {s} -> SoundRule]
      BY <1>3, <1>4
    <3>2. QED
      BY <1>3, <2>2, <3>1
  <2>3. QED
    BY <2>1, <2>2
<1> HIDE DEF new, set
<1>6. next \in Sound
  BY <1>2, <1>5, PartChanges
<1>7. editor' \in Editor \cup {NoPage}
  BY <1>1, <1>2, <1>5, FreshIsTyped
<1> HIDE DEF next
<1>8. QED
  BY <1>1, <1>2, <1>6, <1>7, SettingsChange

\* The fields are read and the rule is stored, or not accepted.
LEMMA saveRuleKeeps ==
  ASSUME PhoneInv, saveRule
  PROVE  PhoneInv'
<1> DEFINE draft == editor.draft
           parsed == [f \in Field |-> parseRuleNumber(f, draft[f])]
           refused == junk \in {parsed[f] : f \in Field} \/ parsed.minIdleGpuCount > 100 * Cards
           table == prefs.rules
           old == DOMAIN table
           rule == [f \in Field |-> Round(parsed[f], Unit(f))]
           new == [table EXCEPT ![editor.machine] = rule]
           next == [prefs EXCEPT !.rules = new]
<1>1. /\ \/ /\ refused /\ editor' = [editor EXCEPT !.error = TRUE]
            /\ writes' = writes /\ unread' = unread /\ prefs' = prefs /\ steps' = steps
         \/ /\ ~refused /\ steps' = steps + 1
            /\ Keep(next) /\ editor' = Fresh(editor.machine, new)
      /\ disk' = disk /\ failed' = failed /\ inbox' = inbox /\ dispatched' = dispatched
      /\ visible' = visible /\ person' = person /\ told' = told
  BY DEF saveRule, Counted
<1>2. editor # NoPage /\ editor.machine \in old
  BY DEF saveRule, Subscribed
<1>3. /\ editor \in Editor /\ editor.machine \in Machine
      /\ prefs \in Sound /\ steps \in Nat /\ dispatched \in SUBSET Int
      /\ visible \in SUBSET Machine /\ person \in BOOLEAN
  BY <1>2, WhichPage DEF PhoneInv, PhoneTypeOK
<1>4. draft \in [Field -> Raw]
  BY <1>3 DEF Editor
<1>5. CASE refused
  <2>1. [editor EXCEPT !.error = TRUE] \in Editor
    BY <1>3 DEF Editor
  <2> HIDE DEF refused
  <2>2. /\ editor' \in Editor \cup {NoPage} /\ steps' \in Nat
        /\ writes' = writes /\ unread' = unread /\ prefs' = prefs
    BY <1>1, <1>3, <1>5, <2>1
  <2>3. QED
    BY <1>1, <1>3, <2>2, NothingStored
<1>6. CASE ~refused
  <2>1. \A f \in Field : parseRuleNumber(f, draft[f]) # junk
    BY <1>6
  <2>2. rule \in SoundRule
    <3>1. rule = [f \in Field |-> Round(parseRuleNumber(f, draft[f]), Unit(f))]
      OBVIOUS
    <3> HIDE DEF draft, rule
    <3>2. QED
      BY <1>4, <2>1, <3>1, AcceptedIsSound
  <2>3. old \in SUBSET Machine /\ table \in [old -> SoundRule]
    BY <1>3, SoundParts
  <2> HIDE DEF refused, rule, old, table
  <2>4. new \in [old -> SoundRule]
    BY <2>2, <2>3
  <2> HIDE DEF new
  <2>5. next \in Sound
    BY <1>3, <2>3, <2>4, PartChanges
  <2>6. /\ steps' \in Nat /\ Keep(next)
        /\ editor' = Fresh(editor.machine, new)
    BY <1>1, <1>3, <1>6
  <2>7. editor' \in Editor \cup {NoPage}
    BY <1>3, <2>3, <2>4, <2>6, FreshIsTyped
  <2> HIDE DEF next
  <2>8. QED
    BY <1>1, <2>5, <2>6, <2>7, SettingsChange
<1>7. QED
  BY <1>5, <1>6

\* Steps that store nothing.
LEMMA OthersKeep ==
  ASSUME PhoneInv,
         \/ OtherAccount \/ Dispatch \/ LeaveMachine
         \/ \E n \in dispatched : NoticeRefused(n)
         \/ \E s \in Machine : OpenMachine(s) \/ VisibleChanges(s)
         \/ \E f \in Field, text \in Typed : Type(f, text)
  PROVE  PhoneInv'
<1> DEFINE old == DOMAIN prefs.rules
<1>1. /\ steps \in Nat /\ dispatched \in SUBSET Int /\ visible \in SUBSET Machine
      /\ person \in BOOLEAN /\ editor \in Editor \cup {NoPage} /\ prefs \in Sound
  BY DEF PhoneInv, PhoneTypeOK
<1>2. old \in SUBSET Machine /\ prefs.rules \in [old -> SoundRule]
  BY <1>1, SoundParts
<1> HIDE DEF old
<1>3. CASE OtherAccount
  BY <1>1, <1>3, NothingStored DEF OtherAccount, Counted
<1>4. CASE Dispatch
  BY <1>1, <1>4, NothingStored DEF Dispatch, Counted
<1>5. CASE LeaveMachine
  BY <1>1, <1>5, NothingStored DEF LeaveMachine
<1>6. CASE \E n \in dispatched : NoticeRefused(n)
  BY <1>1, <1>6, NothingStored DEF NoticeRefused
<1>7. ASSUME NEW s \in Machine, OpenMachine(s) PROVE PhoneInv'
  <2>1. Fresh(s, prefs.rules) \in Editor
    BY <1>2, FreshIsTyped
  <2>2. QED
    BY <1>1, <1>7, <2>1, NothingStored DEF OpenMachine
<1>8. ASSUME NEW s \in Machine, VisibleChanges(s) PROVE PhoneInv'
  <2>1. Fresh(s, prefs.rules) \in Editor
    BY <1>2, FreshIsTyped
  <2>2. /\ steps' \in Nat /\ visible' \in SUBSET Machine /\ editor' \in Editor \cup {NoPage}
        /\ disk' = disk /\ writes' = writes /\ failed' = failed /\ unread' = unread /\ prefs' = prefs
        /\ inbox' = inbox /\ dispatched' = dispatched /\ person' = person /\ told' = told
    BY <1>1, <1>8, <2>1 DEF VisibleChanges, Counted
  <2>3. QED
    BY <1>1, <2>2, NothingStored
<1>9. ASSUME NEW f \in Field, NEW text \in Typed, Type(f, text) PROVE PhoneInv'
  <2>1. /\ editor' = [editor EXCEPT !.draft[f] = text] /\ steps' \in Nat
        /\ disk' = disk /\ writes' = writes /\ failed' = failed /\ unread' = unread /\ prefs' = prefs
        /\ inbox' = inbox /\ dispatched' = dispatched /\ visible' = visible
        /\ person' = person /\ told' = told
    BY <1>1, <1>9 DEF Type, Counted
  <2>2. editor \in Editor
    BY <1>1, <1>9 DEF Type, Subscribed
  <2>3. text \in Raw
    BY PhoneAssumption DEF Raw
  <2>4. [editor.draft EXCEPT ![f] = text] \in [Field -> Raw]
    BY <2>2, <2>3 DEF Editor
  <2> DEFINE draft == [editor.draft EXCEPT ![f] = text]
  <2>5. editor' = [editor EXCEPT !.draft = draft]
    BY <2>1
  <2> HIDE DEF draft
  <2>6. draft \in [Field -> Raw]
    BY <2>4 DEF draft
  <2>7. editor' \in Editor
    BY <2>2, <2>5, <2>6 DEF Editor
  <2>8. QED
    BY <1>1, <2>1, <2>7, NothingStored
<1>10. QED
  BY <1>3, <1>4, <1>5, <1>6, <1>7, <1>8, <1>9

-----------------------------------------------------------------------------
(* The theorem. *)

\* Nothing that happens breaks the invariant.
LEMMA PhoneStep ==
  ASSUME PhoneInv, [PhoneNext]_phoneVars
  PROVE  PhoneInv'
<1>1. CASE UNCHANGED phoneVars
  <2>1. /\ disk' = disk /\ writes' = writes /\ failed' = failed /\ unread' = unread /\ prefs' = prefs
        /\ inbox' = inbox /\ dispatched' = dispatched /\ visible' = visible
        /\ person' = person /\ editor' = editor /\ steps' = steps /\ told' = told
    BY <1>1 DEF phoneVars
  <2>2. /\ steps \in Nat /\ dispatched \in SUBSET Int /\ visible \in SUBSET Machine
        /\ person \in BOOLEAN /\ editor \in Editor \cup {NoPage}
    BY DEF PhoneInv, PhoneTypeOK
  <2>3. QED
    BY <2>1, <2>2, NothingStored
<1>2. CASE WriteEnds \/ Restart \/ RestartUnread \/ saveRule
  BY <1>2, WriteEndsKeeps, RestartKeeps, saveRuleKeeps
<1>3. CASE \E n \in dispatched : NoticeShown(n)
  BY <1>3, NoticeShownKeeps
<1>4. CASE \E x \in Switch : ToggleSwitch(x)
  BY <1>4, ToggleSwitchKeeps
<1>5. CASE \E v \in HomeView : setHomeView(v)
  BY <1>5, setHomeViewKeeps
<1>6. CASE \E s \in Machine : toggleAdminHiddenServer(s) \/ ToggleSubscription(s)
  BY <1>6, HiddenServerKeeps, ToggleSubscriptionKeeps
<1>7. CASE \/ OtherAccount \/ Dispatch \/ LeaveMachine
           \/ \E n \in dispatched : NoticeRefused(n)
           \/ \E s \in Machine : OpenMachine(s) \/ VisibleChanges(s)
           \/ \E f \in Field, text \in Typed : Type(f, text)
  BY <1>7, OthersKeep
<1>8. QED
  BY <1>1, <1>2, <1>3, <1>4, <1>5, <1>6, <1>7 DEF PhoneNext

\* The invariant says that the phone remembers.
LEMMA PhoneInvRemembers == PhoneInv => PhoneRemembers
<1> SUFFICES ASSUME PhoneInv PROVE PhoneRemembers
  OBVIOUS
<1>1. ASSUME writes = <<>>
      PROVE  /\ "prefs" \notin failed \cup unread => loadNotificationSettings(disk.prefs) = prefs
             /\ "inbox" \notin failed \cup unread => loadNotificationInbox(disk.inbox) = inbox
  BY <1>1 DEF PhoneInv, WillBeStored, ReadBack, Now
<1>2. \A s \in DOMAIN prefs.rules : RuleIsSound(prefs.rules[s])
  <2>1. prefs \in Sound
    BY DEF PhoneInv, PhoneTypeOK
  <2>2. \A s \in DOMAIN prefs.rules : prefs.rules[s] \in SoundRule
    BY <2>1, SoundParts
  <2>3. QED
    BY <2>2 DEF SoundRule
<1>3. QED
  BY <1>1, <1>2 DEF PhoneInv, PhoneRemembers

\* Whatever was stored before, is typed, fails or ends: settings that the page
\* accepts are read as they were stored, every rule is within its bounds, and no
\* notice is lost from the inbox.
THEOREM PhoneAlwaysRemembers == PhoneSpec => []PhoneRemembers
<1>1. PhoneInit => PhoneInv
  BY PhoneInitKeeps
<1>2. PhoneInv /\ [PhoneNext]_phoneVars => PhoneInv'
  BY PhoneStep
<1>3. PhoneInv => PhoneRemembers
  BY PhoneInvRemembers
<1>4. QED
  BY <1>1, <1>2, <1>3, PTL DEF PhoneSpec
=============================================================================
