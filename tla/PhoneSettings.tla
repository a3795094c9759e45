---------------------------- MODULE PhoneSettings ----------------------------
(***************************************************************************)
(* What a phone remembers: the settings of notices and of the first page,  *)
(* the rules about idle GPUs, and the notices it has shown.  Both are read *)
(* once, when the application starts; afterwards the store has them, and   *)
(* every change stores all of the new value without waiting for it.  A     *)
(* rule is edited on the page of a machine.  Settings belong to the phone: *)
(* whoever signs in next finds them.                                       *)
(*                                                                         *)
(* AsyncStorage carries the writes out in order; each may fail, as may the *)
(* reading, and the end of the process takes those that wait.  Numbers are *)
(* in hundredths.                                                          *)
(***************************************************************************)
EXTENDS Integers, Sequences

CONSTANTS Machine,
          Cards,       \* the GPUs of a machine
          Typed,       \* what may be typed into a field
          junk,        \* text that is no number; a value of another type
          MAX_NOTIFICATION_INBOX_ITEMS,
          MaxSteps     \* bound: changes and notices

Field  == {"minIdleGpuCount", "idleWindowSeconds", "maxGpuUtilizationPercent",
           "minSchedulableFreePercent"}
Whole  == {"minIdleGpuCount", "idleWindowSeconds"}
Switch == {"notificationsEnabled", "alerts", "security", "adminTaskEvents", "taskEvents"}
HomeView == {"summary", "gpuIdle"}
\* Machines of which notices are wanted have a rule.
IdleGpuNotificationRule == [Field -> Int]
MobileNotificationSettings ==
  [off : SUBSET Switch, adminView : HomeView, personView : HomeView, hidden : SUBSET Machine,
   rules : UNION {[S -> IdleGpuNotificationRule] : S \in SUBSET Machine}]

ASSUME PhoneAssumption ==
  /\ Machine # {} /\ "none" \notin Machine
  /\ junk \notin Machine \cup Int \cup Seq(Int) \cup MobileNotificationSettings
  /\ Typed \subseteq Int \cup {junk}
  /\ MAX_NOTIFICATION_INBOX_ITEMS \in Nat

VARIABLES
  disk,       \* [prefs, inbox] in AsyncStorage
  writes,     \* setItem calls under way, [key, value]
  failed,     \* the keys whose last write has failed
  unread,     \* history: the keys that could not be read and were not written since
  prefs,      \* notificationSettings of the store
  inbox,      \* notificationInbox of the store, the latest first
  dispatched, \* notices given to Android
  visible,    \* the machines in the store
  person,     \* a person is signed in, not an administrator
  editor,     \* the page of a machine: its machine, the fields, the error
  steps,
  told        \* history: what was in the inbox at the start and shown since

phoneVars == <<disk, writes, failed, unread, prefs, inbox, dispatched, visible, person,
               editor, steps, told>>

\* In hundredths.
Range4(f) == CASE f = "minIdleGpuCount"   -> [min |-> 100, max |-> 1600]
               [] f = "idleWindowSeconds" -> [min |-> 1000, max |-> 360000]
               [] OTHER                   -> [min |-> 0, max |-> 10000]
DEFAULT_IDLE_GPU_NOTIFICATION_RULE ==
  [minIdleGpuCount |-> 100, idleWindowSeconds |-> 6000,
   maxGpuUtilizationPercent |-> 500, minSchedulableFreePercent |-> 8000]
DEFAULT_NOTIFICATION_SETTINGS ==
  [off |-> {}, adminView |-> "summary", personView |-> "gpuIdle", hidden |-> {},
   rules |-> <<>>]

\* Math.round(x / unit) * unit, halves upwards
Round(x, unit) == ((2 * x + unit) \div (2 * unit)) * unit
Clamp(f, x) ==
  IF x < Range4(f).min THEN Range4(f).min ELSE IF x > Range4(f).max THEN Range4(f).max ELSE x
Unit(f) == IF f \in Whole THEN 100 ELSE 10

-----------------------------------------------------------------------------
(* Reading what is stored. *)

sanitizeAsWhole(raw) ==
  [f \in Field |-> IF f \notin DOMAIN raw \/ raw[f] = junk
                   THEN DEFAULT_IDLE_GPU_NOTIFICATION_RULE[f]
                   ELSE Clamp(f, Round(raw[f], 100))]
\* Counts and seconds are whole, percentages have a decimal.
sanitizeIdleGpuRule(raw) ==
  [f \in Field |-> IF f \notin DOMAIN raw \/ raw[f] = junk
                   THEN DEFAULT_IDLE_GPU_NOTIFICATION_RULE[f]
                   ELSE Clamp(f, Round(raw[f], Unit(f)))]

\* A value that is missing or of another type becomes the default; the list of
\* an older version becomes a rule for each of its machines.  Lists of machines
\* are sets: they are cleared of doubles, and nothing depends on their order.
loadNotificationSettings(raw) ==
  IF raw = junk THEN DEFAULT_NOTIFICATION_SETTINGS
  ELSE LET Or(key, ok) == IF key \in DOMAIN raw /\ raw[key] \in ok THEN raw[key]
                          ELSE DEFAULT_NOTIFICATION_SETTINGS[key]
       IN  [off |-> IF "off" \in DOMAIN raw THEN raw.off ELSE {},
            adminView |-> Or("adminView", HomeView), personView |-> Or("personView", HomeView),
            hidden |-> IF "hidden" \in DOMAIN raw THEN raw.hidden \ {junk} ELSE {},
            rules |-> CASE "rules" \in DOMAIN raw ->
                             [s \in DOMAIN raw.rules |-> sanitizeIdleGpuRule(raw.rules[s])]
                        [] "ids" \in DOMAIN raw /\ "rules" \notin DOMAIN raw ->
                             [s \in raw.ids \ {junk} |-> DEFAULT_IDLE_GPU_NOTIFICATION_RULE]
                        [] OTHER -> <<>>]

Shortened(list) == SubSeq(list, 1, IF Len(list) > MAX_NOTIFICATION_INBOX_ITEMS
                                   THEN MAX_NOTIFICATION_INBOX_ITEMS ELSE Len(list))
\* Items that are no notices are passed over.
Notices(raw) ==
  LET upTo[i \in 0 .. Len(raw)] ==
        IF i = 0 THEN <<>>
        ELSE IF raw[i] = junk THEN upTo[i - 1] ELSE Append(upTo[i - 1], raw[i])
  IN  upTo[Len(raw)]
loadNotificationInbox(raw) ==
  IF raw = junk THEN <<>>
  ELSE Shortened(IF \A i \in DOMAIN raw : raw[i] # junk THEN raw ELSE Notices(raw))
pushNotificationInboxItem(list, n) == Shortened(<<n>> \o list)

-----------------------------------------------------------------------------
(* The store and the storage. *)

\* The store changes at once, the storage later.
Keep(next) ==
  /\ prefs' = next
  /\ writes' = Append(writes, [key |-> "prefs", value |-> next]) /\ unread' = unread \ {"prefs"}
Counted == steps < MaxSteps /\ steps' = steps + 1

WriteEnds ==
  /\ writes # <<>> /\ writes' = Tail(writes)
  /\ LET w == Head(writes)
     IN  \/ disk' = [disk EXCEPT ![w.key] = w.value] /\ failed' = failed \ {w.key}
         \/ failed' = failed \cup {w.key} /\ UNCHANGED disk
  /\ UNCHANGED <<unread, prefs, inbox, dispatched, visible, person, editor, steps, told>>

NoPage == [machine |-> "none"]

\* The process ends at any time, and hydrate reads what is there.
Started(settings, notices) ==
  /\ prefs' = settings /\ inbox' = notices /\ told' = notices
  /\ writes' = <<>> /\ failed' = {} /\ dispatched' = {} /\ editor' = NoPage
  /\ UNCHANGED <<disk, visible, person, steps>>
Restart ==
  /\ Started(loadNotificationSettings(disk.prefs), loadNotificationInbox(disk.inbox))
  /\ unread' = {}

\* If one of them cannot be read, the store goes on as if nothing were stored.
RestartUnread ==
  /\ Started(DEFAULT_NOTIFICATION_SETTINGS, <<>>) /\ unread' = {"prefs", "inbox"}

\* Signing out and in again: the settings stay.
OtherAccount ==
  /\ Counted /\ person' = ~person /\ editor' = NoPage
  /\ UNCHANGED <<disk, writes, unread, failed, prefs, inbox, dispatched, visible, told>>

-----------------------------------------------------------------------------
(* The notices. *)

\* A notice, told by its number.
Dispatch ==
  /\ Counted /\ dispatched' = dispatched \cup {steps'}
  /\ UNCHANGED <<disk, writes, unread, failed, prefs, inbox, visible, person, editor, told>>

\* It joins the inbox as it is now, not as it was before the notice was shown.
NoticeShown(n) ==
  /\ n \in dispatched /\ dispatched' = dispatched \ {n}
  /\ inbox' = pushNotificationInboxItem(inbox, n)
  /\ writes' = Append(writes, [key |-> "inbox", value |-> inbox']) /\ unread' = unread \ {"inbox"}
  /\ told' = <<n>> \o told
  /\ UNCHANGED <<disk, failed, prefs, visible, person, editor, steps>>

NoticeRefused(n) ==
  /\ n \in dispatched /\ dispatched' = dispatched \ {n}
  /\ UNCHANGED <<disk, writes, unread, failed, prefs, inbox, visible, person, editor, steps, told>>

-----------------------------------------------------------------------------
(* The settings, and the page of a machine. *)

RuleOf(rules, s) == IF s \in DOMAIN rules THEN rules[s] ELSE DEFAULT_IDLE_GPU_NOTIFICATION_RULE
\* buildEditableRule, whenever the rule of the page's machine is another object
Fresh(s, rules) == [machine |-> s, draft |-> RuleOf(rules, s), error |-> FALSE]
Subscribed == editor # NoPage /\ person /\ editor.machine \in DOMAIN prefs.rules

ToggleSwitch(x) ==
  /\ Counted
  /\ x = "notificationsEnabled" \/ (x = "taskEvents") = person
  /\ Keep([prefs EXCEPT !.off = IF x \in @ THEN @ \ {x} ELSE @ \cup {x}])
  /\ UNCHANGED <<disk, failed, inbox, dispatched, visible, person, editor, told>>

\* Choosing the view that is chosen stores nothing.
setHomeView(view) ==
  /\ Counted
  /\ LET key == IF person THEN "personView" ELSE "adminView"
     IN  prefs[key] # view /\ Keep([prefs EXCEPT ![key] = view])
  /\ UNCHANGED <<disk, failed, inbox, dispatched, visible, person, editor, told>>

toggleAdminHiddenServer(s) ==
  /\ Counted /\ ~person /\ s \in visible
  /\ Keep([prefs EXCEPT !.hidden = IF s \in @ THEN @ \ {s} ELSE @ \cup {s}])
  /\ UNCHANGED <<disk, failed, inbox, dispatched, visible, person, editor, told>>

\* On the page of the machine or among the settings.  The rule that was there is
\* gone: subscribing again begins with the default.
ToggleSubscription(s) ==
  /\ Counted /\ person /\ s \in visible
  /\ LET rules == prefs.rules
         next == IF s \in DOMAIN rules THEN [t \in DOMAIN rules \ {s} |-> rules[t]]
                 ELSE [t \in DOMAIN rules \cup {s} |-> RuleOf(rules, t)]
     IN  /\ Keep([prefs EXCEPT !.rules = next])
         /\ editor.machine = s => editor' = Fresh(s, next)
         /\ editor.machine # s => editor = NoPage /\ UNCHANGED editor
  /\ UNCHANGED <<disk, failed, inbox, dispatched, visible, person, told>>

OpenMachine(s) ==
  /\ editor = NoPage /\ s \in visible /\ editor' = Fresh(s, prefs.rules)
  /\ UNCHANGED <<disk, writes, unread, failed, prefs, inbox, dispatched, visible, person>>
  /\ UNCHANGED <<steps, told>>

LeaveMachine ==
  /\ editor # NoPage /\ editor' = NoPage
  /\ UNCHANGED <<disk, writes, unread, failed, prefs, inbox, dispatched, visible, person>>
  /\ UNCHANGED <<steps, told>>

\* A refresh without the machine of the page takes what was typed with it.
VisibleChanges(s) ==
  /\ Counted /\ visible' = IF s \in visible THEN visible \ {s} ELSE visible \cup {s}
  /\ editor' = IF editor.machine = s THEN Fresh(s, prefs.rules) ELSE editor
  /\ UNCHANGED <<disk, writes, unread, failed, prefs, inbox, dispatched, person, told>>

Type(f, text) ==
  /\ Counted /\ Subscribed /\ editor.machine \in visible
  /\ editor' = [editor EXCEPT !.draft[f] = text]
  /\ UNCHANGED <<disk, writes, unread, failed, prefs, inbox, dispatched, visible, person, told>>

parseRuleNumber(f, text) == IF text = junk THEN junk ELSE Clamp(f, Round(text, 10))

saveRule ==
  /\ Subscribed /\ editor.machine \in visible
  /\ LET parsed == [f \in Field |-> parseRuleNumber(f, editor.draft[f])]
     IN  IF junk \in {parsed[f] : f \in Field} \/ parsed.minIdleGpuCount > 100 * Cards
         THEN editor' = [editor EXCEPT !.error = TRUE] /\ UNCHANGED <<writes, unread, prefs, steps>>
         ELSE /\ Counted
              /\ LET next == [prefs.rules EXCEPT ![editor.machine] =
                                [f \in Field |-> Round(parsed[f], Unit(f))]]
                 IN  Keep([prefs EXCEPT !.rules = next]) /\ editor' = Fresh(editor.machine, next)
  /\ UNCHANGED <<disk, failed, inbox, dispatched, visible, person, told>>

-----------------------------------------------------------------------------
\* Nothing, something unreadable, what an older version has stored, or values
\* that another version may have left.
PhoneInit ==
  /\ LET s == CHOOSE s \in Machine : TRUE
         old == [off |-> {"alerts"}, ids |-> {s, junk}]
         odd == [adminView |-> "map", hidden |-> {s, junk},
                 rules |-> [u \in {s} |-> [minIdleGpuCount |-> 250, idleWindowSeconds |-> 40,
                                          maxGpuUtilizationPercent |-> junk]]]
     IN  disk \in {[prefs |-> junk, inbox |-> junk], [prefs |-> old, inbox |-> <<junk, -1, -2>>],
                  [prefs |-> odd, inbox |-> <<junk, -1, -2>>]}
  /\ prefs = loadNotificationSettings(disk.prefs) /\ inbox = loadNotificationInbox(disk.inbox)
  /\ told = inbox /\ writes = <<>> /\ failed = {} /\ unread = {} /\ dispatched = {}
  /\ editor = NoPage
  /\ visible = Machine /\ person \in BOOLEAN /\ steps = 0

PhoneNext ==
  \/ WriteEnds \/ Restart \/ RestartUnread \/ OtherAccount \/ Dispatch \/ LeaveMachine \/ saveRule
  \/ \E n \in dispatched : NoticeShown(n) \/ NoticeRefused(n)
  \/ \E x \in Switch : ToggleSwitch(x)
  \/ \E view \in HomeView : setHomeView(view)
  \/ \E s \in Machine : toggleAdminHiddenServer(s) \/ ToggleSubscription(s)
                        \/ OpenMachine(s) \/ VisibleChanges(s)
  \/ \E f \in Field, text \in Typed : Type(f, text)

PhoneSpec == PhoneInit /\ [][PhoneNext]_phoneVars

-----------------------------------------------------------------------------
RuleIsSound(rule) ==
  \A f \in Field : rule[f] % Unit(f) = 0 /\ rule[f] = Clamp(f, rule[f])

\* What the phone shows is what a start would read, once nothing waits and the
\* last write has not failed: no rule that the page accepts or an older version
\* has left is changed by being stored and read.  This does not hold after a start
\* that could not read, up to the next change, which overwrites what was stored.
\* Every rule that the notices go by is within its bounds, whatever was stored or
\* typed.  And no notice is lost from the inbox when several are shown together:
\* it is the latest of all that were shown.
PhoneRemembers ==
  /\ writes = <<>> =>
       /\ "prefs" \notin failed \cup unread => loadNotificationSettings(disk.prefs) = prefs
       /\ "inbox" \notin failed \cup unread => loadNotificationInbox(disk.inbox) = inbox
  /\ \A s \in DOMAIN prefs.rules : RuleIsSound(prefs.rules[s])
  /\ inbox = Shortened(told)
=============================================================================
