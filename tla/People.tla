--------------------------------- MODULE People ---------------------------------
(***************************************************************************)
(* Persons and the accounts that are bound to them (person/service.ts,     *)
(* db/person-bindings.ts, db/persons.ts, routes/person-routes.ts): an      *)
(* administrator edits persons and bindings one by one, creates a person   *)
(* with several accounts in a wizard that may take accounts over from      *)
(* others, and has persons made for all accounts that have none.           *)
(*                                                                         *)
(* An account is a server and a system user.  Every call is one            *)
(* transaction.  Of effective_from and effective_to a binding keeps where  *)
(* the present is: before them, between them, after them, or in effect     *)
(* without an end; time moves a binding along.  Inputs that a call may     *)
(* leave out are covered by the ones that repeat what is there.  Bindings  *)
(* with the same content are one element of the table: editing one of them *)
(* and keeping the other comes to the same as adding a binding.            *)
(***************************************************************************)
EXTENDS Integers, Sequences, FiniteSets, SequencesExt

CONSTANTS
    Account,
    UserOf(_),     \* the system user of an account
    Root,          \* the user "root"
    Chosen,        \* bound: the accounts, and by their users the names, that an
                   \* administrator enters by hand
    MaxPersons,    \* bounds on the two tables
    MaxBindings

ASSUME PeopleAssumption ==
    /\ IsFiniteSet(Account) /\ Chosen \subseteq Account
    /\ MaxPersons \in Nat /\ MaxBindings \in Nat

Name == {UserOf(a) : a \in Chosen}
Window == {"future", "current", "past", "endless"}
NoPerson == 0

VARIABLES
    persons,     \* the table; a person's id is its place
    bindings,    \* the table
    answer       \* the last call, the accounts it had to bind, and how it ended:
                 \* "done", "refused", or "constraint" if a statement raised

peopleVars == <<persons, bindings, answer>>

Binding == [person : 1..MaxPersons, account : Account, enabled : BOOLEAN, window : Window]

\* A statement raises if beside the rows it enables a second binding of an account.
Clashes(rows, row) ==
    row.enabled /\ \E b \in rows : b.account = row.account /\ b.enabled

Answer(op, accounts, result) == answer' = [op |-> op, accounts |-> accounts, result |-> result]

PeopleInit ==
    /\ persons = <<>> /\ bindings = {}
    /\ answer = [op |-> "none", accounts |-> {}, result |-> "done"]

-----------------------------------------------------------------------------
(* Bindings. *)

InWindow(b) == b.window \in {"current", "endless"}

\* The binding of an account that is in effect; at most one is.
getActiveBinding(rows, account) ==
    {b \in rows : b.account = account /\ b.enabled /\ InWindow(b)}

ActiveBinding(account) == getActiveBinding(bindings, account) # {}

\* resolveRawUserPerson
Owner(rows, account) ==
    LET active == getActiveBinding(rows, account)
    IN IF active = {} THEN NoPerson ELSE (CHOOSE b \in active : TRUE).person

Row(person, account, enabled, window) ==
    [person |-> person, account |-> account, enabled |-> enabled, window |-> window]

\* The table after createBinding, and whether it refuses or raises.
createBinding(rows, person, account, enabled, window) ==
    LET active == getActiveBinding(rows, account)
        row == Row(person, account, enabled, window)
    IN IF active # {}
       THEN IF Owner(rows, account) = person
            THEN [rows |-> (rows \ active) \cup {row}, result |-> "done"]
            ELSE [rows |-> rows, result |-> "refused"]
       ELSE IF Clashes(rows, row) THEN [rows |-> rows, result |-> "constraint"]
            ELSE [rows |-> rows \cup {row}, result |-> "done"]

\* POST /person-bindings
PostBinding(person, account, enabled, window) ==
    /\ Cardinality(bindings) < MaxBindings
    /\ LET made == createBinding(bindings, person, account, enabled, window)
       IN /\ bindings' = made.rows
          /\ Answer("post", {account}, made.result)
    /\ UNCHANGED persons

\* PUT /person-bindings/:id; the account stays.
PutBinding(b, person, enabled, window) ==
    /\ LET others == bindings \ {b}
           row == Row(person, b.account, enabled, window)
       IN IF Clashes(others, row)
          THEN UNCHANGED bindings /\ Answer("put", {}, "constraint")
          ELSE bindings' = others \cup {row} /\ Answer("put", {}, "done")
    /\ UNCHANGED persons

-----------------------------------------------------------------------------
(* Persons. *)

Person(name) == [name |-> name, status |-> "active"]

CreatePerson(name) ==
    /\ Len(persons) < MaxPersons
    /\ persons' = Append(persons, Person(name))
    /\ Answer("none", {}, "done")
    /\ UNCHANGED bindings

\* PUT /persons/:id; archiving leaves the bindings alone.
UpdatePerson(p, name, status) ==
    /\ persons' = [persons EXCEPT ![p] = [name |-> name, status |-> status]]
    /\ Answer("none", {}, "done")
    /\ UNCHANGED bindings

-----------------------------------------------------------------------------
(* The wizard. *)

\* The bindings in effect of these accounts end now.
deactivateBindings(rows, accounts) ==
    LET ended == UNION {getActiveBinding(rows, a) : a \in accounts}
    IN (rows \ ended) \cup {[b EXCEPT !.enabled = FALSE, !.window = "past"] : b \in ended}

\* Bind accounts to a person, one after another; the first failure is the result.
BindOne(made, person, account) ==
    IF made.result # "done" THEN made
    ELSE createBinding(made.rows, person, account, TRUE, "endless")

BindAll(rows, person, accounts) ==
    FoldSet(LAMBDA a, made : BindOne(made, person, a),
            [rows |-> rows, result |-> "done"], accounts)

\* Mutant: not a transaction.
CommittedAnyway(result) == TRUE

\* A call that raises leaves the tables as they were.
Committed(result) == result = "done"

\* Accounts that have an owner are taken over only if that is confirmed.
WizardRefused(accounts, confirmTransfer) ==
    (\E a \in accounts : ActiveBinding(a)) /\ ~confirmTransfer

createPersonFromWizard(name, accounts, confirmTransfer) ==
    /\ Len(persons) < MaxPersons
    /\ Cardinality(bindings) + Cardinality(accounts) <= MaxBindings
    /\ LET op == IF confirmTransfer THEN "transfer" ELSE "wizard"
           made == BindAll(deactivateBindings(bindings, accounts), Len(persons) + 1, accounts)
       IN IF WizardRefused(accounts, confirmTransfer)
          THEN /\ UNCHANGED <<persons, bindings>>
               /\ Answer(op, accounts, "refused")
          ELSE /\ Answer(op, accounts, made.result)
               /\ IF Committed(made.result)
                  THEN /\ persons' = Append(persons, Person(name))
                       /\ bindings' = made.rows
                  ELSE UNCHANGED <<persons, bindings>>

-----------------------------------------------------------------------------
(* autoAddUnassignedUsers *)

\* listPersons, without the archived ones
Named(table, name) ==
    {p \in DOMAIN table : table[p].name = name /\ table[p].status = "active"}

\* Accounts with an owner and root are skipped.
Skipped(account) == ActiveBinding(account) \/ UserOf(account) = Root

\* One account: reuse the one person of that name, make one if there is none, leave
\* the account alone if there are several.
AutoAddOne(state, account) ==
    LET same == Named(state.persons, UserOf(account))
        grown == IF same = {} THEN Append(state.persons, Person(UserOf(account)))
                 ELSE state.persons
        person == IF same = {} THEN Len(grown) ELSE CHOOSE p \in same : TRUE
        made == createBinding(state.rows, person, account, TRUE, "endless")
    IN IF \/ state.result # "done" \/ Skipped(account) \/ Cardinality(same) > 1
       THEN state
       ELSE [persons |-> grown, rows |-> made.rows, result |-> made.result]

AutoAddAll(candidates) ==
    FoldSet(LAMBDA a, state : AutoAddOne(state, a),
            [persons |-> persons, rows |-> bindings, result |-> "done"], candidates)

\* All or nothing, for the accounts in the latest snapshots of the servers.
AutoAdd(candidates) ==
    /\ LET made == AutoAddAll(candidates)
       IN /\ Len(made.persons) <= MaxPersons /\ Cardinality(made.rows) <= MaxBindings
          /\ Answer("auto-add", candidates, made.result)
          /\ IF Committed(made.result)
             THEN persons' = made.persons /\ bindings' = made.rows
             ELSE UNCHANGED <<persons, bindings>>

\* A window begins or ends.
Pass(b, window) ==
    /\ \/ b.window = "future" /\ window \in {"current", "endless"}
       \/ b.window = "current" /\ window = "past"
    /\ bindings' = (bindings \ {b}) \cup {[b EXCEPT !.window = window]}
    /\ Answer("none", {}, "done")
    /\ UNCHANGED persons

PeopleNext ==
    \/ \E b \in bindings, window \in Window : Pass(b, window)
    \/ \E name \in Name : CreatePerson(name)
    \/ \E p \in DOMAIN persons, name \in Name, status \in {"active", "archived"} :
           UpdatePerson(p, name, status)
    \/ \E p \in DOMAIN persons, enabled \in BOOLEAN, window \in Window :
           \/ \E a \in Chosen : PostBinding(p, a, enabled, window)
           \/ \E b \in bindings : PutBinding(b, p, enabled, window)
    \/ \E name \in Name, accounts \in SUBSET Chosen, confirmTransfer \in BOOLEAN :
           createPersonFromWizard(name, accounts, confirmTransfer)
    \/ \E candidates \in SUBSET Account : AutoAdd(candidates)

PeopleSpec == PeopleInit /\ [][PeopleNext]_peopleVars

-----------------------------------------------------------------------------
(* Properties. *)

\* An account passes from one person to another only when an administrator says so:
\* by a confirmed wizard or by editing the binding; not by making a binding, by
\* auto-add, by archiving a person, or as time goes by.
HandedOverOnPurpose ==
    [][\A a \in Account :
           LET before == Owner(bindings, a)
               after == Owner(bindings, a)'
           IN before # NoPerson /\ after # NoPerson /\ after # before
              => answer'.op \in {"transfer", "put"}]_peopleVars

\* The wizard gives all of the accounts to the new person or, if anything fails,
\* changes nothing; nobody else's accounts are touched.
WizardIsWhole ==
    [][answer'.op \in {"wizard", "transfer"} =>
           IF answer'.result = "done"
           THEN /\ Len(persons') = Len(persons) + 1
                /\ \A a \in Account : Owner(bindings, a)' = IF a \in answer'.accounts
                                                             THEN Len(persons')
                                                             ELSE Owner(bindings, a)
           ELSE UNCHANGED <<persons, bindings>>]_peopleVars

\* Auto-add takes no account from anybody, never gives root to anybody, and gives an
\* account only to an active person of the same name.  It does not itself make the
\* several persons of one name that it cannot choose between, and when it is done
\* each of the accounts has an owner, root and the names of several persons aside.
AutoAddIsRight ==
    [][answer'.op = "auto-add" =>
           \A a \in Account :
               LET before == Owner(bindings, a)
                   after == Owner(bindings, a)'
                   namesakes == Cardinality(Named(persons', UserOf(a)))
               IN /\ after # before => /\ before = NoPerson /\ UserOf(a) # Root
                                       /\ persons'[after] = Person(UserOf(a))
                  /\ namesakes > 1 => namesakes = Cardinality(Named(persons, UserOf(a)))
                  /\ answer'.result = "done" /\ a \in answer'.accounts =>
                         \/ UserOf(a) = Root \/ namesakes > 1
                         \/ after # NoPerson]_peopleVars

\* Who owns an account is what a user has chosen, or what nobody had: by every
\* operation on persons and bindings in any order.
BindingsAreChosen == HandedOverOnPurpose /\ WizardIsWhole /\ AutoAddIsRight

=============================================================================
