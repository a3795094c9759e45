----------------------------- MODULE MobileApp -----------------------------
(***************************************************************************)
(* The session of the mobile application and the Android guard service     *)
(* that posts notifications beside it: the actions of the store            *)
(* (useAppStore.ts), each cut at its awaits, the foreground marker, and    *)
(* the service with its stored configuration, its intents and the sticky   *)
(* restart after the process has been killed.                              *)
(*                                                                         *)
(* An account stands for a token and for the principal it belongs to; what *)
(* the store shows is reduced to whose data it is, and the notification    *)
(* categories to one.                                                      *)
(***************************************************************************)
EXTENDS Naturals, Sequences

CONSTANTS Account, none,
          MaxIntents    \* intents that may wait for the service

\* none stands for what is not there: it is no account, no configuration of the
\* service, no call under way and no settings.
ASSUME NoneIsNothing ==
  /\ none \notin Account
  /\ none \notin [who : Account \cup {none}, category : BOOLEAN]
  /\ none \notin [who : Account, step : {"login", "saving", "linking"},
                    permitted : BOOLEAN]
  /\ none \notin [enabled : BOOLEAN, category : BOOLEAN]

VARIABLES
  saved,      \* the token in the storage of the phone
  settings,   \* of the store, or the last it had: [enabled, category]
  stored,     \* the settings in the storage of the phone
  app,        \* "dead", the stages of hydrate, "ready"
  token, session, shown, socket,   \* the store: whose each of them is
  granted,    \* notificationPermissionGranted
  allowed,    \* the permission as the system has it
  signing,    \* signIn under way, or none: [who, step, permitted]
  leaving,    \* signOut under way: "no", "saving", "stopping"
  asking,     \* the settings a permission request was made for, or none
  notifying,  \* a permission request made to show a notice is on the screen
  loads,      \* accounts of the refreshOverview calls under way
  front, marker,  \* AppState; the stored marker claims the foreground and is recent
  config,     \* the guard's stored configuration, or none
  intents,    \* START (a configuration) and STOP intents on their way
  service,    \* activeConfig of the running service, or none
  sticky,     \* the system owes the killed service a restart
  believed,   \* history: the account the user last saw signed in
  crossed,    \* history: calls of the store overlapped since it changed
  astray      \* history: the guard was left behind since it changed

store    == <<token, session, shown, socket>>
view     == <<front, marker>>
guard    == <<config, intents>>
running  == <<service, sticky>>
calls    == <<signing, leaving, asking, notifying, loads>>
kept     == <<settings, stored>>
history  == <<believed, crossed, astray>>
mobileVars     == <<saved, kept, app, store, granted, allowed, calls, view,
              guard, running, history>>

\* DEFAULT_NOTIFICATION_SETTINGS
Defaults == [enabled |-> TRUE, category |-> TRUE]

STOP     == [who |-> none, category |-> FALSE]

MobileInit ==
  /\ saved = none /\ settings \in [enabled : BOOLEAN, category : {TRUE}] /\ stored = settings
  /\ app = "dead" /\ allowed = FALSE /\ granted = FALSE
  /\ token = none /\ session = none /\ shown = none /\ socket = none
  /\ signing = none /\ leaving = "no" /\ asking = none /\ notifying = FALSE /\ loads = {}
  /\ front = FALSE /\ marker = FALSE
  /\ config = none /\ intents = <<>> /\ service = none /\ sticky = FALSE
  /\ believed = none /\ crossed = FALSE /\ astray = FALSE

(***************************************************************************)
(* Calls that several actions make.                                        *)
(***************************************************************************)
\* The native module: start and stop write the configuration at once, the
\* intent reaches the service later.
startGuardService(c) ==
  IF allowed' THEN /\ Len(intents) < MaxIntents
                   /\ config' = c /\ intents' = Append(intents, c)
              ELSE UNCHANGED guard
stopGuardService ==
  /\ Len(intents) < MaxIntents
  /\ config' = none /\ intents' = Append(intents, STOP)

syncNativeGuardServiceState(who, wanted, permitted) ==
  IF who # none /\ wanted.enabled /\ permitted
    THEN startGuardService([who |-> who, category |-> wanted.category])
    ELSE stopGuardService

\* The system answers at once when it has granted the permission before.
Answered(g) == g \in BOOLEAN /\ (allowed => g) /\ allowed' = g
\* enableNotificationsIfPossible where the settings ask for it
AskIfEnabled(wanted, otherwise, g) ==
  IF wanted.enabled THEN Answered(g) ELSE g = otherwise /\ UNCHANGED allowed

\* The effect of App.tsx runs on every change of the token or of the session
\* and whenever AppState changes; the first two claim the foreground.
Mark(b) == marker' = b

\* loadOverview never fails: a part that could not be fetched is empty.
Overview(who) == {who, none}

\* History: the service has, or is about to get, what is stored for it.
Follows == \/ intents = <<>> /\ service = config
           \/ Len(intents) = 1 /\ Head(intents) = IF config = none THEN STOP ELSE config

(***************************************************************************)
(* hydrate: load the storage, check the token, load and connect, publish.  *)
(***************************************************************************)
Launch ==
  /\ app = "dead"
  /\ app' = "starting" /\ front' = TRUE /\ Mark(TRUE)
  /\ UNCHANGED <<saved, kept, store, granted, allowed, calls, guard, running, history>>

HydrateLoads ==
  /\ app = "starting"
  /\ settings' = stored
  /\ \E g \in BOOLEAN : AskIfEnabled(stored, FALSE, g) /\ granted' = g
  /\ token' = saved
  /\ IF saved = none
       THEN /\ app' = "ready" /\ believed' = none /\ UNCHANGED marker
            /\ astray' = (config # none \/ service # none \/ intents # <<>>)
       ELSE app' = "checking" /\ Mark(TRUE) /\ UNCHANGED <<believed, astray>>
  /\ UNCHANGED <<saved, stored, session, shown, socket, calls, front, guard, running, crossed>>

\* The storage cannot be read: the store goes on with the defaults and without
\* a token, whatever is stored.
HydrateReadFails ==
  /\ app = "starting"
  /\ app' = "ready" /\ settings' = Defaults /\ believed' = none
  /\ stopGuardService
  /\ UNCHANGED <<saved, stored, store, granted, allowed, calls, view, running, crossed, astray>>

HydrateAccepted ==
  /\ app = "checking"
  /\ app' = "linking" /\ socket' = token /\ UNCHANGED allowed
  /\ syncNativeGuardServiceState(token, settings, granted)
  /\ UNCHANGED <<saved, kept, token, session, shown, granted, calls, view, running, history>>

HydrateRejected ==
  /\ app = "checking"
  /\ app' = "ready" /\ saved' = none /\ token' = none /\ socket' = none
  /\ Mark(TRUE) /\ believed' = none
  /\ astray' = (config # none \/ service # none \/ intents # <<>>)
  /\ UNCHANGED <<kept, session, shown, granted, allowed, calls, front, guard, running, crossed>>

HydrateFails ==
  /\ app = "checking"
  /\ app' = "ready" /\ socket' = none /\ believed' = none
  /\ stopGuardService
  /\ UNCHANGED <<saved, kept, token, session, shown, granted, allowed, calls, view, running, crossed, astray>>

HydratePublishes ==
  /\ app = "linking"
  /\ app' = "ready" /\ session' = token /\ shown' \in Overview(token)
  /\ Mark(TRUE) /\ believed' = token /\ crossed' = FALSE /\ astray' = ~Follows
  /\ UNCHANGED <<saved, kept, token, socket, granted, allowed, calls, front, guard, running>>

(***************************************************************************)
(* signIn and signOut, and the fields of the connection screen.            *)
(***************************************************************************)
SignIn(a) ==
  /\ app = "ready" /\ session = none /\ signing = none
  /\ signing' = [who |-> a, step |-> "login", permitted |-> FALSE]
  /\ astray' = (asking # none)
  /\ UNCHANGED <<saved, kept, app, store, granted, allowed, leaving, asking, notifying, loads, view, guard, running, believed, crossed>>

At(step) == signing # none /\ signing.step = step

\* The answer to the request is kept aside until signIn publishes.
LoginAnswers ==
  /\ At("login")
  /\ \E g \in BOOLEAN :
       /\ AskIfEnabled(settings, granted, g)
       /\ signing' = [signing EXCEPT !.step = "saving", !.permitted = g]
  /\ saved' = signing.who
  /\ UNCHANGED <<kept, app, store, granted, leaving, asking, notifying, loads, view, guard, running, history>>

\* The login fails, or storing its token after the permission was asked for.
LoginFails ==
  /\ At("login")
  /\ \/ UNCHANGED allowed
     \/ settings.enabled /\ \E g \in BOOLEAN : Answered(g)
  /\ signing' = none /\ socket' = none
  /\ stopGuardService
  /\ UNCHANGED <<saved, kept, app, token, session, shown, granted, leaving, asking, notifying, loads, view, running, history>>

SignInLinks ==
  /\ At("saving")
  /\ signing' = [signing EXCEPT !.step = "linking"] /\ UNCHANGED allowed
  /\ syncNativeGuardServiceState(signing.who, settings, signing.permitted)
  /\ UNCHANGED <<saved, kept, app, store, granted, leaving, asking, notifying, loads, view, running, history>>

SignInPublishes ==
  /\ At("linking")
  /\ token' = signing.who /\ session' = signing.who /\ socket' = signing.who
  /\ shown' \in Overview(signing.who)
  /\ granted' = signing.permitted /\ signing' = none
  /\ Mark(TRUE) /\ believed' = signing.who
  /\ crossed' = (saved # signing.who) /\ astray' = (astray \/ ~Follows)
  /\ UNCHANGED <<saved, kept, app, allowed, leaving, asking, notifying, loads, front, guard, running>>

\* setBaseUrl and setMode store the token the store holds at that moment,
\* which is not yet the one signIn has just stored.
EditConnection ==
  /\ app = "ready" /\ session = none
  /\ saved' = token
  /\ UNCHANGED <<kept, app, store, granted, allowed, calls, view, guard, running, history>>

SignOut ==
  /\ app = "ready" /\ session # none /\ leaving = "no"
  /\ saved' = none /\ leaving' = "saving"
  /\ UNCHANGED <<kept, app, store, granted, allowed, signing, asking, notifying, loads, view, guard, running, history>>

SignOutStops ==
  /\ leaving = "saving"
  /\ leaving' = "stopping" /\ socket' = none
  /\ stopGuardService
  /\ UNCHANGED <<saved, kept, app, token, session, shown, granted, allowed, signing, asking, notifying, loads, view, running, history>>

SignOutPublishes ==
  /\ leaving = "stopping"
  /\ token' = none /\ session' = none /\ shown' = none
  /\ leaving' = "no" /\ Mark(TRUE) /\ believed' = none
  /\ UNCHANGED <<saved, kept, app, socket, granted, allowed, signing, asking, notifying, loads, front, guard, running, crossed, astray>>

(***************************************************************************)
(* The notification settings, whose screen is there while signed in.       *)
(***************************************************************************)
\* PhoneSettings has the writes that fail or come too late.
persistNotificationSettings(next) == settings' = next /\ stored' = next

ToggleOn ==
  /\ app = "ready" /\ session # none /\ ~settings.enabled /\ asking = none
  /\ persistNotificationSettings([settings EXCEPT !.enabled = TRUE])
  /\ asking' = settings'
  /\ astray' = (astray \/ leaving # "no")
  /\ UNCHANGED <<saved, app, store, granted, allowed, signing, leaving, notifying, loads, view, guard, running, believed, crossed>>

\* The answer is combined with the settings of the moment of the request and
\* with the session of the moment of the answer.
PermissionAnswers ==
  /\ asking # none
  /\ \E g \in BOOLEAN :
       /\ Answered(g) /\ granted' = g
       /\ syncNativeGuardServiceState(session, asking, g)
  /\ asking' = none
  /\ astray' = (astray \/ leaving # "no")
  /\ UNCHANGED <<saved, kept, app, store, signing, leaving, notifying, loads, view, running, believed, crossed>>

\* ToggleOff and the category: stored, and brought to the guard at once
Change(next) ==
  /\ app = "ready" /\ session # none
  /\ persistNotificationSettings(next) /\ UNCHANGED allowed
  /\ syncNativeGuardServiceState(session, next, granted)
  /\ astray' = (astray \/ leaving # "no" \/ asking # none)
  /\ UNCHANGED <<saved, app, store, granted, calls, view, running, believed, crossed>>
ToggleOff      == settings.enabled /\ Change([settings EXCEPT !.enabled = FALSE])
ToggleCategory == Change([settings EXCEPT !.category = ~@])

(***************************************************************************)
(* Who posts a notification about an event for account a that arrives now. *)
(***************************************************************************)
\* The application, if the system allows it
dispatchNotification(a) ==
  socket = a /\ session # none /\ settings.enabled /\ settings.category /\ front
showRealtimeNotification(a) ==
  service # none /\ service.who = a /\ service.category /\ ~marker

Posts(a) == (dispatchNotification(a) /\ allowed) \/ showRealtimeNotification(a)

\* To show a notice the permission is asked for; with the permission known to be
\* granted this changes nothing.
EventArrives(a) ==
  /\ dispatchNotification(a) /\ ~granted /\ ~notifying
  /\ notifying' = TRUE
  /\ UNCHANGED <<saved, kept, app, store, granted, allowed, signing, leaving, asking, loads, view, guard, running, history>>

\* The store has what was granted, and the guard is not told.
NoticeAnswered ==
  /\ notifying
  /\ \E g \in BOOLEAN :
       /\ Answered(g) /\ granted' = (granted \/ g)
       /\ astray' = (astray \/ (g /\ ~allowed))
  /\ notifying' = FALSE
  /\ UNCHANGED <<saved, kept, app, store, signing, leaving, asking, loads, view, guard, running, believed, crossed>>

(***************************************************************************)
(* Overview and foreground.                                                *)
(***************************************************************************)
RefreshOverview ==
  /\ app = "ready" /\ session # none
  /\ loads' = loads \cup {session}
  /\ UNCHANGED <<saved, kept, app, store, granted, allowed, signing, leaving, asking, notifying, view, guard, running, history>>

\* The answer is published without a look at the session of the moment.
OverviewArrives(a) ==
  /\ a \in loads
  /\ loads' = loads \ {a} /\ shown' \in Overview(a)
  /\ crossed' = (crossed \/ shown' \notin {none, session})
  /\ UNCHANGED <<saved, kept, app, token, session, socket, granted, allowed, signing, leaving, asking, notifying, view, guard, running, believed, astray>>

Leave ==
  /\ app # "dead" /\ front
  /\ front' = FALSE /\ Mark(FALSE)
  /\ UNCHANGED <<saved, kept, app, store, granted, allowed, calls, guard, running, history>>

\* AppState "active", with resumeRealtimeFromForeground where one is signed in
Return ==
  /\ app # "dead" /\ ~front
  /\ front' = TRUE /\ Mark(TRUE)
  /\ IF session = none
       THEN UNCHANGED <<socket, loads, crossed>>
       ELSE /\ socket' = token /\ loads' = loads \cup {session}
            /\ crossed' = (crossed \/ leaving # "no")
  /\ UNCHANGED <<saved, kept, app, token, session, shown, granted, allowed, signing, leaving, asking, notifying, guard, running, believed, astray>>

\* 15 seconds without a change: an old marker claims nothing
MarkerAges ==
  /\ marker /\ marker' = FALSE
  /\ UNCHANGED <<saved, kept, app, store, granted, allowed, calls, front, guard, running, history>>

(***************************************************************************)
(* The service.                                                            *)
(***************************************************************************)
\* Mutant: a running service keeps its configuration.
ServiceKeeps ==
  /\ intents # <<>> /\ Head(intents) # STOP
  /\ config' = Head(intents) /\ service' = IF service = none THEN Head(intents) ELSE service
  /\ intents' = Tail(intents) /\ sticky' = FALSE
  /\ UNCHANGED <<saved, kept, app, store, granted, allowed, calls, view, history>>

\* START: the configuration is stored again and the socket follows it.
ServiceStarts ==
  /\ intents # <<>> /\ Head(intents) # STOP
  /\ config' = Head(intents) /\ service' = Head(intents)
  /\ intents' = Tail(intents) /\ sticky' = FALSE
  /\ UNCHANGED <<saved, kept, app, store, granted, allowed, calls, view, history>>

\* STOP: stopSelf() names no start, so that a START which waits behind the
\* STOP still stores its configuration but is handled by a dying service.
ServiceStops ==
  /\ intents # <<>> /\ Head(intents) = STOP
  /\ \E n \in 1 .. Len(intents) :
       LET dying == {i \in 2 .. n : intents[i] # STOP} IN
       /\ \/ dying = {} /\ UNCHANGED config
          \/ \E i \in dying : (\A j \in dying : j <= i) /\ config' = intents[i]
       /\ intents' = SubSeq(intents, n + 1, Len(intents))
       /\ astray' = (astray \/ n > 1)
  /\ service' = none /\ sticky' = FALSE
  /\ UNCHANGED <<saved, kept, app, store, granted, allowed, calls, view, believed, crossed>>

\* The system kills the process, and brings a started service back.
ProcessDies ==
  /\ app # "dead" \/ service # none
  /\ intents = <<>>
  /\ app' = "dead" /\ token' = none /\ session' = none /\ shown' = none /\ socket' = none
  /\ granted' = FALSE /\ signing' = none /\ leaving' = "no" /\ asking' = none
  /\ notifying' = FALSE /\ loads' = {} /\ front' = FALSE
  /\ sticky' = (sticky \/ service # none) /\ service' = none
  /\ crossed' = FALSE
  /\ astray' = (astray \/ signing # none \/ leaving # "no" \/ asking # none
               \/ app \in {"checking", "linking"})
  /\ UNCHANGED <<saved, kept, allowed, marker, guard, believed>>

StickyRestart ==
  /\ sticky
  /\ sticky' = FALSE /\ service' = config
  /\ UNCHANGED <<saved, kept, app, store, granted, allowed, calls, view, guard, history>>

MobileNext ==
  \/ Launch \/ HydrateLoads \/ HydrateReadFails \/ HydrateAccepted
  \/ HydrateRejected \/ HydrateFails \/ HydratePublishes
  \/ (\E a \in Account : SignIn(a) \/ OverviewArrives(a) \/ EventArrives(a))
  \/ LoginAnswers \/ LoginFails \/ SignInLinks \/ SignInPublishes
  \/ EditConnection \/ SignOut \/ SignOutStops \/ SignOutPublishes
  \/ ToggleOn \/ PermissionAnswers \/ ToggleOff \/ ToggleCategory
  \/ NoticeAnswered \/ RefreshOverview \/ Leave \/ Return \/ MarkerAges
  \/ ServiceStarts \/ ServiceStops \/ ProcessDies \/ StickyRestart

MobileSpec == MobileInit /\ [][MobileNext]_mobileVars

(***************************************************************************)
(* Properties.                                                             *)
(***************************************************************************)
Idle  == app \in {"dead", "ready"} /\ signing = none /\ leaving = "no" /\ asking = none
Still == Idle /\ intents = <<>> /\ ~sticky /\ ~marker

\* Between calls the whole store speaks of one account: the socket, the token,
\* the stored token and what is shown belong to the session, unless calls have
\* overlapped (a late overview, a return to the foreground during signOut, an
\* edit of the connection fields during signIn).
OneAccount ==
  app = "ready" /\ Idle /\ ~crossed =>
    /\ socket = session
    /\ session # none => token = session /\ saved = session /\ shown \in {none, session}

\* Once everything has settled, an event for an account is posted, by the
\* application or by the guard, exactly if that account is the one the user
\* last saw signed in and the settings want it: also in the background, after
\* the process was killed and restarted, and not after signing out. It may fail
\* after the overlaps that astray records, until the next session.
NoticesFollowSession ==
  Still /\ ~astray =>
    \A a \in Account :
      Posts(a) <=> a = believed /\ settings.enabled /\ settings.category /\ allowed

\* The application and the guard serve the session that the user believes in.
SessionIsServed == OneAccount /\ NoticesFollowSession
=============================================================================
