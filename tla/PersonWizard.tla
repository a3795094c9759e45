----------------------------- MODULE PersonWizard -----------------------------
(***************************************************************************)
(* The page that creates a person step by step (PersonCreateWizard.tsx),   *)
(* beside a server whose bindings other people change meanwhile.  The page *)
(* loads the candidate accounts once, with their owners of that moment;    *)
(* the user chooses, confirms the transfer of accounts that have an owner, *)
(* and submits; or has all unassigned users added at once.                 *)
(*                                                                         *)
(* The server is reduced to who owns each account: People has the tables   *)
(* behind it.  An owner is somebody else, or a person made here.           *)
(***************************************************************************)
EXTENDS Naturals, FiniteSets

CONSTANTS Acct, Owner, nil    \* candidate accounts, persons there are, nobody

\* nil is no account and no request.
ASSUME NilIsNothing ==
  /\ nil \notin Acct
  /\ nil \notin [accts : SUBSET Acct, confirm : BOOLEAN, agreed : SUBSET Acct,
                 state : {"sent", "conflict", "created"}]

VARIABLES
  owner,      \* on the server: Acct -> Owner, "new" or nil
  loaded,     \* candidates: "loading", "failed", "loaded"
  listed,     \* the owners that were loaded with them
  mode, wstep, seed, chosen, name,
  confirmTransfer,
  submitting, \* the request under way [accts, confirm, agreed, state], or nil
  autoAdding, \* autoAddLoading
  agreed,     \* history: the accounts shown when the user confirmed
  moved,      \* history: accounts whose owner changed after they were loaded
  created,    \* history: persons the wizard has created
  lost        \* history: an answer was lost after the server had done its work

draft   == <<mode, seed, chosen, name>>
wizVars == <<owner, loaded, listed, wstep, draft, confirmTransfer, submitting,
             autoAdding, agreed, moved, created, lost>>

WizInit ==
  /\ owner \in [Acct -> Owner \cup {nil}] /\ loaded = "loading" /\ listed = [a \in Acct |-> nil]
  /\ mode = nil /\ wstep = "entry" /\ seed = nil /\ chosen = {} /\ name = "empty"
  /\ confirmTransfer = FALSE /\ submitting = nil /\ autoAdding = FALSE
  /\ agreed = {} /\ moved = {} /\ created = 0 /\ lost = FALSE

\* Nothing is selected that is not among the candidates.
selectedBindings == IF loaded = "loaded" THEN (chosen \cup {seed}) \ {nil} ELSE {}
conflicts == {a \in selectedBindings : listed[a] # nil}
canSubmit == name # "empty" /\ (conflicts = {} \/ confirmTransfer)

CandidatesAnswer ==
  /\ loaded = "loading"
  /\ \/ loaded' = "failed" /\ UNCHANGED <<listed, moved>>
     \/ loaded' = "loaded" /\ listed' = owner /\ moved' = {}
  /\ UNCHANGED <<owner, wstep, draft, confirmTransfer, submitting, autoAdding, agreed, created, lost>>

(***************************************************************************)
(* The steps.                                                              *)
(***************************************************************************)
Elsewhere == UNCHANGED <<owner, loaded, listed, submitting, autoAdding, moved, created, lost>>
Unconfirm == confirmTransfer' = FALSE /\ agreed' = {}

handleSelectMode(m) ==
  /\ wstep = "entry"
  /\ mode' = m /\ wstep' = IF m = "seed-user" THEN "seed" ELSE "profile"
  /\ seed' = nil /\ chosen' = {} /\ name' = "empty"
  /\ Unconfirm /\ Elsewhere

SelectSeed(a) ==
  /\ wstep = "seed" /\ loaded = "loaded"
  /\ seed' = a
  /\ UNCHANGED <<wstep, mode, chosen, name, confirmTransfer, agreed>> /\ Elsewhere

\* A name that is there stays, also the name taken from an earlier seed.
handleSeedConfirm ==
  /\ wstep = "seed" /\ seed # nil
  /\ wstep' = "profile" /\ chosen' = {} /\ name' = "given"
  /\ UNCHANGED <<mode, seed>> /\ Unconfirm /\ Elsewhere

TypeName(n) ==
  /\ wstep = "profile" /\ name' = n
  /\ UNCHANGED <<wstep, mode, seed, chosen, confirmTransfer, agreed>> /\ Elsewhere

NextStep ==
  /\ \/ wstep = "profile" /\ name # "empty" /\ wstep' = "bindings"
     \/ wstep = "bindings" /\ wstep' = "review"
  /\ UNCHANGED <<draft, confirmTransfer, agreed>> /\ Elsewhere

handleToggleBinding(a) ==
  /\ wstep = "bindings" /\ loaded = "loaded" /\ a # seed
  /\ chosen' = (chosen \ {a}) \cup ({a} \ chosen)
  /\ UNCHANGED <<wstep, mode, seed, name, confirmTransfer, agreed>> /\ Elsewhere

Before == [seed |-> "entry", profile |-> IF mode = "seed-user" THEN "seed" ELSE "entry",
           bindings |-> "profile", review |-> "bindings"]
\* Mutant: the confirmation outlives the selection it was given for.
BackStillConfirmed ==
  /\ wstep \in DOMAIN Before
  /\ wstep' = Before[wstep]
  /\ UNCHANGED <<draft, confirmTransfer, agreed>> /\ Elsewhere

handleBack ==
  /\ wstep \in DOMAIN Before
  /\ wstep' = Before[wstep]
  /\ UNCHANGED draft /\ Unconfirm /\ Elsewhere

LeaveResult ==
  /\ wstep = "auto-add-result" /\ wstep' = "entry"
  /\ UNCHANGED <<draft, confirmTransfer, agreed>> /\ Elsewhere

Confirm ==
  /\ wstep = "review" /\ conflicts # {}
  /\ confirmTransfer' = ~confirmTransfer
  /\ agreed' = IF confirmTransfer THEN {} ELSE conflicts
  /\ UNCHANGED <<wstep, draft>> /\ Elsewhere

(***************************************************************************)
(* The requests.                                                           *)
(***************************************************************************)
handleSubmit ==
  /\ wstep = "review" /\ canSubmit /\ submitting = nil
  /\ submitting' = [accts |-> selectedBindings, confirm |-> confirmTransfer,
                     agreed |-> agreed, state |-> "sent"]
  /\ UNCHANGED <<owner, loaded, listed, wstep, draft, confirmTransfer, autoAdding, agreed, moved, created, lost>>

\* What the server does with it (createPersonFromWizard): all or nothing.
Refused(r) == ~r.confirm /\ \E a \in r.accts : owner[a] # nil
ServeSubmit ==
  /\ submitting # nil /\ submitting.state = "sent"
  /\ IF Refused(submitting)
       THEN UNCHANGED <<owner, created>>
       ELSE /\ owner' = [a \in Acct |-> IF a \in submitting.accts THEN "new" ELSE owner[a]]
            /\ created < 2 /\ created' = created + 1
  /\ moved' = moved \cup {a \in Acct : owner'[a] # owner[a]}
  /\ submitting' = [submitting EXCEPT !.state = IF Refused(submitting) THEN "conflict" ELSE "created"]
  /\ UNCHANGED <<loaded, listed, wstep, draft, confirmTransfer, autoAdding, agreed, lost>>

\* navigate() leaves the page, from whatever step the user has gone to.
SubmitAnswers ==
  /\ submitting # nil
  /\ \/ submitting.state = "created" /\ wstep' = "left" /\ Unconfirm /\ UNCHANGED lost
     \/ submitting.state = "conflict" /\ Unconfirm /\ UNCHANGED <<wstep, lost>>
     \/ lost' = (lost \/ submitting.state = "created") /\ UNCHANGED <<wstep, confirmTransfer, agreed>>
  /\ submitting' = nil
  /\ UNCHANGED <<owner, loaded, listed, draft, autoAdding, moved, created>>

handleAutoAdd ==
  /\ wstep = "entry" /\ ~autoAdding
  /\ autoAdding' = TRUE
  /\ UNCHANGED <<owner, loaded, listed, wstep, draft, confirmTransfer, submitting, agreed, moved, created, lost>>

\* The report takes the user to its own step, out of any other.
Added == [a \in Acct |-> IF owner[a] = nil THEN "new" ELSE owner[a]]
AutoAddAnswers ==
  /\ autoAdding /\ autoAdding' = FALSE
  /\ \/ /\ owner' = Added
        /\ wstep' = IF wstep = "left" THEN wstep ELSE "auto-add-result"
     \/ owner' \in {owner, Added} /\ UNCHANGED wstep
  /\ moved' = moved \cup {a \in Acct : owner'[a] # owner[a]}
  /\ UNCHANGED <<loaded, listed, draft, confirmTransfer, submitting, agreed, created, lost>>

\* Nothing matters any more once the page has been left.
OthersRebind(a) ==
  /\ wstep # "left"
  /\ \E o \in Owner \cup {nil} : o # owner[a] /\ owner' = [owner EXCEPT ![a] = o]
  /\ moved' = moved \cup {a}
  /\ UNCHANGED <<loaded, listed, wstep, draft, confirmTransfer, submitting, autoAdding, agreed, created, lost>>

WizNext ==
  \/ CandidatesAnswer \/ handleSeedConfirm \/ NextStep \/ handleBack \/ LeaveResult \/ Confirm
  \/ handleSubmit \/ ServeSubmit \/ SubmitAnswers \/ handleAutoAdd \/ AutoAddAnswers
  \/ \E m \in {"seed-user", "manual"} : handleSelectMode(m)
  \/ \E n \in {"empty", "given"} : TypeName(n)
  \/ \E a \in Acct : SelectSeed(a) \/ handleToggleBinding(a) \/ OthersRebind(a)

WizSpec == WizInit /\ [][WizNext]_wizVars

(***************************************************************************)
(* Properties.                                                             *)
(***************************************************************************)
\* What a submission does on the server is what the user agreed to: an account
\* leaves its owner only if it was among those shown when the transfer was
\* confirmed (the confirmation itself names none, so that an account whose owner
\* changed after the page had loaded goes along), and a second person is made
\* only where the answer about the first was lost.
WizardDoesWhatWasAgreed ==
  [][created' # created =>
       /\ \A a \in Acct : owner[a] # nil /\ owner'[a] # owner[a] => a \in submitting.agreed \cup moved
       /\ created > 0 => lost]_wizVars
=============================================================================
