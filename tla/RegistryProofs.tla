-------------------------- MODULE RegistryProofs --------------------------
(***************************************************************************)
(* Proofs about what the server knows of people and of nodes, for any      *)
(* accounts, persons, bindings, agents and sockets:                        *)
(*   who owns an account is what a user has chosen;                        *)
(*   the directory and the list of a person tell what is the person's own, *)
(*   and the pages of the list show it whole;                              *)
(*   a command reaches the node that it was given for.                     *)
(***************************************************************************)
EXTENDS PersonViews, Fleet, FoldLemmas

-----------------------------------------------------------------------------
(***************************************************************************)
(* Persons and the accounts that are bound to them.                        *)
(***************************************************************************)

BindingRow == [person : Nat \ {0}, account : Account, enabled : BOOLEAN, window : Window]
UserName == {UserOf(a) : a \in Account}
PersonRow == [name : UserName, status : {"active", "archived"}]
Result == {"done", "refused", "constraint"}

\* The table of bindings: an account has at most one that is enabled.
GoodRows(list) ==
  /\ list \in SUBSET BindingRow
  /\ \A b, c \in list : b.enabled /\ c.enabled /\ b.account = c.account => b = c

PeopleOK ==
  /\ persons \in Seq(PersonRow)
  /\ GoodRows(bindings)

-----------------------------------------------------------------------------
(* Owners. *)

\* The owner of an account is the person of the binding that is in effect.
LEMMA OwnerIs ==
  ASSUME NEW list, GoodRows(list), NEW account \in Account
  PROVE  /\ Owner(list, account) \in Nat
         /\ Owner(list, account) = NoPerson <=> getActiveBinding(list, account) = {}
         /\ \A b \in getActiveBinding(list, account) :
                b.person = Owner(list, account) /\ getActiveBinding(list, account) = {b}
<1> DEFINE active == getActiveBinding(list, account)
<1>1. \A b \in active : b \in list /\ b.account = account /\ b.enabled
  BY DEF getActiveBinding
<1>2. \A b, c \in active : b = c
  BY <1>1 DEF GoodRows
<1>3. \A b \in active : b.person \in Nat \ {0}
  BY <1>1 DEF GoodRows, BindingRow
<1>4. Owner(list, account) = IF active = {} THEN NoPerson ELSE (CHOOSE b \in active : TRUE).person
  BY DEF Owner
<1> HIDE DEF active
<1>5. CASE active = {}
  BY <1>4, <1>5 DEF active, NoPerson
<1>6. CASE active # {}
  <2>1. PICK b \in active : TRUE
    BY <1>6
  <2>2. (CHOOSE c \in active : TRUE) = b
    BY <1>2, <2>1
  <2>3. Owner(list, account) = b.person
    BY <1>4, <1>6, <2>2
  <2>4. active = {b}
    BY <1>2, <2>1
  <2>5. QED
    BY <1>3, <1>6, <2>1, <2>3, <2>4 DEF active, NoPerson
<1>7. QED
  BY <1>5, <1>6

\* An account whose binding in effect is the same has the same owner.
LEMMA SameOwner ==
  ASSUME NEW list, GoodRows(list), NEW others, GoodRows(others), NEW account \in Account,
         getActiveBinding(others, account) = getActiveBinding(list, account)
  PROVE  Owner(others, account) = Owner(list, account)
<1>1. CASE getActiveBinding(list, account) = {}
  BY <1>1, OwnerIs
<1>2. CASE getActiveBinding(list, account) # {}
  <2>1. PICK b \in getActiveBinding(list, account) : TRUE
    BY <1>2
  <2>2. QED
    BY <2>1, OwnerIs
<1>3. QED
  BY <1>1, <1>2

\* createBinding gives an account that has no owner to the person, and takes it from
\* nobody; the other accounts stay where they are.
Bound(list, person, account, enabled, window) ==
  LET made == createBinding(list, person, account, enabled, window)
  IN /\ made \in [rows : SUBSET BindingRow, result : Result]
     /\ GoodRows(made.rows)
     /\ \A a \in Account : a # account => Owner(made.rows, a) = Owner(list, a)
     /\ Owner(made.rows, account) \in {NoPerson, person, Owner(list, account)}
     /\ Owner(list, account) # NoPerson =>
            Owner(made.rows, account) \in {NoPerson, Owner(list, account)}
     /\ enabled /\ window = "endless" /\ made.result = "done" =>
            Owner(made.rows, account) = person

LEMMA CreateBindingKeeps ==
  ASSUME NEW list, GoodRows(list), NEW person \in Nat \ {0}, NEW account \in Account,
         NEW enabled \in BOOLEAN, NEW window \in Window
  PROVE  Bound(list, person, account, enabled, window)
<1> DEFINE active == getActiveBinding(list, account)
           row == Row(person, account, enabled, window)
           made == createBinding(list, person, account, enabled, window)
<1>1. made = IF active # {}
             THEN IF Owner(list, account) = person
                  THEN [rows |-> (list \ active) \cup {row}, result |-> "done"]
                  ELSE [rows |-> list, result |-> "refused"]
             ELSE IF Clashes(list, row) THEN [rows |-> list, result |-> "constraint"]
                  ELSE [rows |-> list \cup {row}, result |-> "done"]
  BY DEF createBinding
<1>2. /\ row \in BindingRow /\ row.person = person /\ row.account = account
      /\ row.enabled = enabled /\ row.window = window
  BY DEF Row, BindingRow
<1>3. \A b \in active : b \in list /\ b.account = account /\ b.enabled
  BY DEF getActiveBinding
<1>4. list \in SUBSET BindingRow
  BY DEF GoodRows
<1>5. CASE made.rows = list /\ made.result # "done" /\ made.result \in Result
           /\ made = [rows |-> made.rows, result |-> made.result]
  BY <1>4, <1>5 DEF Bound
<1>6. CASE /\ made = [rows |-> (list \ active) \cup {row}, result |-> "done"]
           /\ active = {} => ~Clashes(list, row)
           /\ active # {} => Owner(list, account) = person
  <2>1. made.rows = (list \ active) \cup {row} /\ made.result = "done"
    BY <1>6
  <2> DEFINE next == (list \ active) \cup {row}
  <2>2. next \in SUBSET BindingRow
    BY <1>2, <1>4
  <2>3. ASSUME enabled, NEW b \in list \ active, b.enabled PROVE b.account # account
    <3>1. CASE active = {}
      BY <1>2, <1>6, <2>3, <3>1 DEF Clashes
    <3>2. CASE active # {}
      <4>1. PICK c \in active : TRUE
        BY <3>2
      <4>2. c # b
        BY <2>3
      <4>3. QED
        BY <1>3, <2>3, <4>1, <4>2 DEF GoodRows
    <3>3. QED
      BY <3>1, <3>2
  <2>4. GoodRows(next)
    <3> SUFFICES ASSUME NEW b \in next, NEW c \in next,
                        b.enabled, c.enabled, b.account = c.account
                 PROVE  b = c
      BY <2>2 DEF GoodRows
    <3>1. CASE b = row /\ c # row
      BY <1>2, <2>3, <3>1
    <3>2. CASE c = row /\ b # row
      BY <1>2, <2>3, <3>2
    <3>3. CASE b # row /\ c # row
      BY <3>3 DEF GoodRows
    <3>4. QED
      BY <3>1, <3>2, <3>3
  <2>5. ASSUME NEW a \in Account, a # account
        PROVE  Owner(next, a) = Owner(list, a)
    <3>1. getActiveBinding(next, a) = getActiveBinding(list, a)
      BY <1>2, <1>3, <2>5 DEF getActiveBinding
    <3>2. QED
      BY <2>4, <3>1, SameOwner
  <2>6. getActiveBinding(next, account) = IF enabled /\ InWindow(row) THEN {row} ELSE {}
    <3>1. \A b \in list \ active : ~(b.account = account /\ b.enabled /\ InWindow(b))
      BY DEF getActiveBinding
    <3>2. QED
      BY <1>2, <3>1 DEF getActiveBinding
  <2>7. Owner(next, account) = IF enabled /\ InWindow(row) THEN person ELSE NoPerson
    <3>1. CASE enabled /\ InWindow(row)
      <4>1. row \in getActiveBinding(next, account)
        BY <2>6, <3>1
      <4>2. row.person = Owner(next, account)
        BY <2>4, <4>1, OwnerIs
      <4>3. QED
        BY <1>2, <3>1, <4>2
    <3>2. CASE ~(enabled /\ InWindow(row))
      BY <2>4, <2>6, <3>2, OwnerIs
    <3>3. QED
      BY <3>1, <3>2
  <2>8. window = "endless" => InWindow(row)
    BY <1>2 DEF InWindow
  <2>9. Owner(list, account) # NoPerson => Owner(list, account) = person
    BY <1>6, OwnerIs
  <2>10. made \in [rows : SUBSET BindingRow, result : Result]
    BY <1>6, <2>2 DEF Result
  <2> HIDE DEF next, made, row, active
  <2>11. made.rows = next
    BY <2>1 DEF next
  <2>12. Owner(next, account) \in {NoPerson, person}
    BY <2>7
  <2>13. QED
    BY <2>4, <2>5, <2>7, <2>8, <2>9, <2>10, <2>11, <2>12 DEF Bound, made
<1>7. QED
  <2>1. CASE active # {} /\ Owner(list, account) = person
    BY <1>1, <1>6, <2>1
  <2>2. CASE active # {} /\ Owner(list, account) # person
    <3>1. made = [rows |-> list, result |-> "refused"]
      BY <1>1, <2>2
    <3>2. QED
      BY <1>5, <3>1 DEF Result
  <2>3. CASE active = {} /\ Clashes(list, row)
    <3>1. made = [rows |-> list, result |-> "constraint"]
      BY <1>1, <2>3
    <3>2. QED
      BY <1>5, <3>1 DEF Result
  <2>4. CASE active = {} /\ ~Clashes(list, row)
    <3>1. made = [rows |-> (list \ active) \cup {row}, result |-> "done"]
      <4>1. list \cup {row} = (list \ active) \cup {row}
        BY <2>4
      <4> HIDE DEF active, row, made
      <4>2. QED
        BY <1>1, <2>4, <4>1
    <3>2. QED
      BY <1>6, <2>4, <3>1
  <2>5. QED
    BY <2>1, <2>2, <2>3, <2>4

\* Ending the bindings in effect of some accounts leaves these without an owner and
\* the others with theirs.
LEMMA DeactivateKeeps ==
  ASSUME NEW list, GoodRows(list), NEW accounts \in SUBSET Account
  PROVE  /\ GoodRows(deactivateBindings(list, accounts))
         /\ \A a \in Account : Owner(deactivateBindings(list, accounts), a)
                                 = IF a \in accounts THEN NoPerson ELSE Owner(list, a)
<1> DEFINE ended == UNION {getActiveBinding(list, a) : a \in accounts}
           shut == {[b EXCEPT !.enabled = FALSE, !.window = "past"] : b \in ended}
           next == (list \ ended) \cup shut
<1>1. deactivateBindings(list, accounts) = next
  BY DEF deactivateBindings
<1>2. ended \in SUBSET list /\ list \in SUBSET BindingRow
  BY DEF getActiveBinding, GoodRows
<1>3. ASSUME NEW c \in shut PROVE c \in BindingRow /\ c.enabled = FALSE
  <2>1. PICK b \in ended : c = [b EXCEPT !.enabled = FALSE, !.window = "past"]
    OBVIOUS
  <2>2. b \in BindingRow
    BY <1>2
  <2>3. QED
    BY <2>1, <2>2 DEF BindingRow, Window
<1>4. \A b \in list : b \in ended <=> b.account \in accounts /\ b.enabled /\ InWindow(b)
  BY DEF getActiveBinding
<1> HIDE DEF ended, shut
<1>5. GoodRows(next)
  <2>1. next \in SUBSET BindingRow
    BY <1>2, <1>3
  <2>2. \A b \in next : b.enabled => b \in list
    BY <1>3
  <2>3. QED
    BY <2>1, <2>2 DEF GoodRows
<1>6. ASSUME NEW a \in Account
      PROVE  Owner(next, a) = IF a \in accounts THEN NoPerson ELSE Owner(list, a)
  <2>1. CASE a \in accounts
    <3>1. getActiveBinding(next, a) = {}
      BY <1>3, <1>4, <2>1 DEF getActiveBinding
    <3>2. QED
      BY <2>1, <3>1 DEF Owner
  <2>2. CASE a \notin accounts
    <3>1. getActiveBinding(next, a) = getActiveBinding(list, a)
      BY <1>3, <1>4, <2>2 DEF getActiveBinding
    <3>2. QED
      BY <1>5, <2>2, <3>1, SameOwner
  <2>3. QED
    BY <2>1, <2>2
<1>7. QED
  BY <1>1, <1>5, <1>6

\* A binding that is replaced by one of the same account and person, and is no more
\* enabled than it was, gives the account to nobody else.
LEMMA ReplaceKeeps ==
  ASSUME NEW list, GoodRows(list), NEW b \in list, NEW row \in BindingRow,
         row.account = b.account, row.enabled => ~Clashes(list \ {b}, row)
  PROVE  /\ GoodRows((list \ {b}) \cup {row})
         /\ \A a \in Account : a # b.account => Owner((list \ {b}) \cup {row}, a) = Owner(list, a)
<1> DEFINE next == (list \ {b}) \cup {row}
<1>1. GoodRows(next)
  <2>1. next \in SUBSET BindingRow
    BY DEF GoodRows
  <2> SUFFICES ASSUME NEW c \in next, NEW d \in next,
                      c.enabled, d.enabled, c.account = d.account
               PROVE  c = d
    BY <2>1 DEF GoodRows
  <2>2. CASE c \in list \ {b} /\ d \in list \ {b}
    BY <2>2 DEF GoodRows
  <2>3. CASE c \in list \ {b} /\ d = row
    BY <2>3 DEF Clashes
  <2>4. CASE c = row /\ d \in list \ {b}
    BY <2>4 DEF Clashes
  <2>5. QED
    BY <2>2, <2>3, <2>4
<1>2. ASSUME NEW a \in Account, a # b.account PROVE Owner(next, a) = Owner(list, a)
  <2>1. getActiveBinding(next, a) = getActiveBinding(list, a)
    BY <1>2 DEF getActiveBinding
  <2>2. QED
    BY <1>1, <2>1, SameOwner
<1>3. QED
  BY <1>1, <1>2

-----------------------------------------------------------------------------
(* The wizard binds accounts one after another. *)

Made == [rows : SUBSET BindingRow, result : Result]

LEMMA BindOneTyped ==
  ASSUME NEW made \in Made, GoodRows(made.rows), NEW person \in Nat \ {0}, NEW account \in Account
  PROVE  BindOne(made, person, account) \in Made
<1>1. CASE made.result # "done"
  BY <1>1 DEF BindOne
<1>2. CASE made.result = "done"
  <2>1. "endless" \in Window
    BY DEF Window
  <2>2. Bound(made.rows, person, account, TRUE, "endless")
    BY <2>1, CreateBindingKeeps
  <2>3. QED
    BY <1>2, <2>2 DEF BindOne, Bound, Made
<1>3. QED
  BY <1>1, <1>2

\* Some tables that are good.
GoodMade == {made \in Made : GoodRows(made.rows)}

\* The fold that BindAll is.
Binds(it, list, person, accounts) ==
  /\ BindAll(list, person, accounts) = it[accounts]
  /\ it[{}] = [rows |-> list, result |-> "done"]
  /\ \A s \in SUBSET accounts : s # {} =>
         \E a \in s : it[s] = BindOne(it[s \ {a}], person, a)

LEMMA BindAllUnfolds ==
  ASSUME NEW list, GoodRows(list), NEW person \in Nat \ {0}, NEW accounts \in SUBSET Account
  PROVE  \E it : Binds(it, list, person, accounts)
<1> DEFINE base == [rows |-> list, result |-> "done"]
           Run(it) == it = [s \in SUBSET accounts |-> IF s = {} THEN base
                              ELSE BindOne(it[s \ {CHOOSE x \in s : TRUE}], person,
                                           CHOOSE x \in s : TRUE)]
           pick == [s \in SUBSET accounts |-> CHOOSE x \in s : TRUE]
           step == [p \in accounts \X GoodMade |-> BindOne(p[2], person, p[1])]
<1>1. IsFiniteSet(accounts)
  BY PeopleAssumption, FS_Subset
<1>2. \A s \in SUBSET accounts : s # {} => pick[s] \in s
  OBVIOUS
<1>3. base \in GoodMade
  BY DEF GoodMade, Made, Result, GoodRows
<1>4. step \in [accounts \X GoodMade -> GoodMade]
  <2>1. ASSUME NEW a \in accounts, NEW made \in GoodMade
        PROVE  BindOne(made, person, a) \in GoodMade
    <3>1. made \in Made /\ GoodRows(made.rows) /\ a \in Account
      BY DEF GoodMade
    <3>2. BindOne(made, person, a) \in Made
      BY <3>1, BindOneTyped
    <3>3. GoodRows(BindOne(made, person, a).rows)
      <4>1. CASE made.result # "done"
        BY <3>1, <4>1 DEF BindOne
      <4>2. CASE made.result = "done"
        <5>1. "endless" \in Window
          BY DEF Window
        <5>2. Bound(made.rows, person, a, TRUE, "endless")
          BY <3>1, <5>1, CreateBindingKeeps
        <5>3. QED
          BY <4>2, <5>2 DEF BindOne, Bound
      <4>3. QED
        BY <4>1, <4>2
    <3>4. QED
      BY <3>2, <3>3 DEF GoodMade
  <2>2. QED
    BY <2>1
<1>5. \E it : Run(it)
  <2>1. PICK it \in [SUBSET accounts -> GoodMade] : Folds(it, accounts, base, pick, step)
    <3> HIDE DEF pick, step, base
    <3>1. QED
      BY <1>1, <1>2, <1>3, <1>4, FoldExists
  <2>2. ASSUME NEW s \in SUBSET accounts
        PROVE  it[s] = IF s = {} THEN base
                       ELSE BindOne(it[s \ {CHOOSE x \in s : TRUE}], person,
                                    CHOOSE x \in s : TRUE)
    <3>1. CASE s = {}
      BY <2>1, <3>1 DEF Folds
    <3>2. CASE s # {}
      <4>1. it[s] = step[<<pick[s], it[s \ {pick[s]}]>>]
        <5> HIDE DEF pick, step
        <5>1. QED
          BY <2>1, <3>2 DEF Folds
      <4>2. pick[s] = (CHOOSE x \in s : TRUE) /\ pick[s] \in accounts
        BY <1>2, <3>2
      <4>3. it[s \ {pick[s]}] \in GoodMade
        OBVIOUS
      <4>4. step[<<pick[s], it[s \ {pick[s]}]>>] = BindOne(it[s \ {pick[s]}], person, pick[s])
        <5> HIDE DEF pick
        <5>1. QED
          BY <4>2, <4>3
      <4>5. QED
        BY <3>2, <4>1, <4>2, <4>4
    <3>3. QED
      BY <3>1, <3>2
  <2>3. Run(it)
    BY <2>2
  <2>4. QED
    <3> HIDE DEF Run
    <3>1. QED
      BY <2>3
<1> DEFINE run == CHOOSE it : Run(it)
<1>6. BindAll(list, person, accounts) = run[accounts]
  BY DEF BindAll, FoldSet, MapThenFoldSet
<1>7. Run(run)
  <2> HIDE DEF Run
  <2>1. QED
    BY <1>5
<1> HIDE DEF run
<1>8. run[{}] = base
  BY <1>7
<1>9. ASSUME NEW s \in SUBSET accounts, s # {}
      PROVE  \E a \in s : run[s] = BindOne(run[s \ {a}], person, a)
  <2> DEFINE c == CHOOSE x \in s : TRUE
  <2>1. c \in s /\ run[s] = BindOne(run[s \ {c}], person, c)
    BY <1>7, <1>9
  <2> HIDE DEF c
  <2>2. QED
    BY <2>1
<1>10. Binds(run, list, person, accounts)
  BY <1>6, <1>8, <1>9 DEF Binds
<1>11. QED
  BY <1>10

\* After some of the accounts nobody else's owner has changed and, if nothing
\* failed, these are the person's.
BoundSome(made, s, list, person) ==
  /\ made \in GoodMade
  /\ \A a \in Account : a \notin s => Owner(made.rows, a) = Owner(list, a)
  /\ made.result = "done" => \A a \in s : Owner(made.rows, a) = person

LEMMA BindAllKeeps ==
  ASSUME NEW list, GoodRows(list), NEW person \in Nat \ {0}, NEW accounts \in SUBSET Account
  PROVE  BoundSome(BindAll(list, person, accounts), accounts, list, person)
<1>1. IsFiniteSet(accounts)
  BY PeopleAssumption, FS_Subset
<1>2. PICK it : Binds(it, list, person, accounts)
  BY BindAllUnfolds
<1> DEFINE G == {s \in SUBSET accounts : BoundSome(it[s], s, list, person)}
<1>3. {} \in G
  <2> DEFINE base == [rows |-> list, result |-> "done"]
  <2>1. it[{}] = base
    BY <1>2 DEF Binds
  <2>2. base \in GoodMade
    BY DEF GoodMade, Made, Result, GoodRows
  <2>3. BoundSome(base, {}, list, person)
    BY <2>2 DEF BoundSome
  <2>4. QED
    BY <2>1, <2>3
<1>4. ASSUME NEW s \in SUBSET accounts, s # {}, \A x \in s : s \ {x} \in G
      PROVE  s \in G
  <2>1. PICK c \in s : it[s] = BindOne(it[s \ {c}], person, c)
    BY <1>2, <1>4 DEF Binds
  <2> DEFINE before == it[s \ {c}]
             after == it[s]
  <2>2. BoundSome(before, s \ {c}, list, person)
    BY <1>4
  <2>3. after = BindOne(before, person, c)
    BY <2>1
  <2> HIDE DEF before, after
  <2>4. before \in Made /\ GoodRows(before.rows) /\ c \in Account
    BY <2>2 DEF BoundSome, GoodMade
  <2>5. CASE before.result # "done"
    <3>1. after = before
      BY <2>3, <2>5 DEF BindOne
    <3>2. BoundSome(after, s, list, person)
      BY <2>2, <2>5, <3>1 DEF BoundSome
    <3>3. QED
      BY <3>2 DEF after
  <2>6. CASE before.result = "done"
    <3>1. after = createBinding(before.rows, person, c, TRUE, "endless")
      BY <2>3, <2>6 DEF BindOne
    <3>2. "endless" \in Window
      BY DEF Window
    <3>3. Bound(before.rows, person, c, TRUE, "endless")
      BY <2>4, <3>2, CreateBindingKeeps
    <3>4. /\ after \in Made /\ GoodRows(after.rows)
          /\ \A a \in Account : a # c => Owner(after.rows, a) = Owner(before.rows, a)
          /\ after.result = "done" => Owner(after.rows, c) = person
      BY <3>1, <3>3 DEF Bound, Made
    <3>5. BoundSome(after, s, list, person)
      BY <2>2, <2>6, <3>4 DEF BoundSome, GoodMade
    <3>6. QED
      BY <3>5 DEF after
  <2>7. QED
    BY <2>5, <2>6
<1>5. G \in SUBSET SUBSET accounts
  OBVIOUS
<1>6. G = SUBSET accounts
  <2> HIDE DEF G
  <2>1. QED
    BY <1>1, <1>3, <1>4, <1>5, SetOfAllSubsets
<1>7. accounts \in G
  BY <1>6
<1>8. QED
  BY <1>2, <1>7 DEF Binds

-----------------------------------------------------------------------------
(* Auto-add goes through the accounts one after another. *)

Adding == [persons : Seq(PersonRow), rows : SUBSET BindingRow, result : Result]

\* A name that had no person got at most one; the others have the persons they had.
NamesKept(table) ==
  \A n \in UserName : \/ Named(table, n) = Named(persons, n)
                      \/ Named(persons, n) = {} /\ \E p \in DOMAIN table : Named(table, n) = {p}

\* Nobody lost an account; one that has a new owner had none and is not root's, and
\* the owner is an active person of its name.
OwnersKept(state, s) ==
  \A a \in Account :
      Owner(state.rows, a) # Owner(bindings, a) =>
          /\ a \in s
          /\ Owner(bindings, a) = NoPerson /\ UserOf(a) # Root
          /\ Owner(state.rows, a) \in DOMAIN state.persons
          /\ state.persons[Owner(state.rows, a)] = Person(UserOf(a))

\* Every account has an owner, root and the names of several persons aside.
OwnersFound(state, s) ==
  state.result = "done" =>
      \A a \in s : \/ UserOf(a) = Root
                   \/ Cardinality(Named(state.persons, UserOf(a))) > 1
                   \/ Owner(state.rows, a) # NoPerson

AddedSome(state, s) ==
  /\ state \in Adding /\ GoodRows(state.rows)
  /\ NamesKept(state.persons)
  /\ OwnersKept(state, s)
  /\ OwnersFound(state, s)

\* A person who is added has the next number and leaves the others alone.
LEMMA PersonAdded ==
  ASSUME NEW table \in Seq(PersonRow), NEW name \in UserName
  PROVE  LET grown == Append(table, Person(name))
         IN /\ grown \in Seq(PersonRow)
            /\ Len(grown) \in DOMAIN grown /\ Len(grown) \in Nat \ {0}
            /\ grown[Len(grown)] = Person(name)
            /\ \A p \in DOMAIN table : p \in DOMAIN grown /\ grown[p] = table[p]
            /\ \A n \in UserName : n # name => Named(grown, n) = Named(table, n)
            /\ Named(table, name) = {} => Named(grown, name) = {Len(grown)}
<1> DEFINE grown == Append(table, Person(name))
<1>1. Person(name) \in PersonRow /\ Person(name).name = name /\ Person(name).status = "active"
  BY DEF Person, PersonRow
<1>2. /\ grown \in Seq(PersonRow) /\ Len(grown) = Len(table) + 1 /\ Len(table) \in Nat
      /\ DOMAIN grown = 1..(Len(table) + 1) /\ DOMAIN table = 1..Len(table)
      /\ grown[Len(table) + 1] = Person(name)
      /\ \A p \in 1..Len(table) : grown[p] = table[p]
  BY <1>1
<1> HIDE DEF grown
<1>3. \A n \in UserName : n # name => Named(grown, n) = Named(table, n)
  <2> SUFFICES ASSUME NEW n \in UserName, n # name
               PROVE  Named(grown, n) = Named(table, n)
    OBVIOUS
  <2>1. ASSUME NEW p \in Named(grown, n) PROVE p \in Named(table, n)
    <3>1. p \in 1..(Len(table) + 1) /\ grown[p].name = n /\ grown[p].status = "active"
      BY <1>2 DEF Named
    <3>2. p # Len(table) + 1
      BY <1>1, <1>2, <3>1
    <3>3. p \in 1..Len(table)
      BY <1>2, <3>1, <3>2
    <3>4. QED
      BY <1>2, <3>1, <3>3 DEF Named
  <2>2. ASSUME NEW p \in Named(table, n) PROVE p \in Named(grown, n)
    BY <1>2 DEF Named
  <2>3. QED
    BY <2>1, <2>2
<1>4. ASSUME Named(table, name) = {} PROVE Named(grown, name) = {Len(grown)}
  <2>1. Len(grown) \in Named(grown, name)
    BY <1>1, <1>2 DEF Named
  <2>2. ASSUME NEW p \in Named(grown, name), p # Len(grown) PROVE FALSE
    <3>1. p \in 1..Len(table)
      BY <1>2, <2>2 DEF Named
    <3>2. p \in Named(table, name)
      BY <1>2, <3>1, <2>2 DEF Named
    <3>3. QED
      BY <1>4, <3>2
  <2>3. QED
    BY <2>1, <2>2
<1>5. QED
  BY <1>2, <1>3, <1>4 DEF grown

\* The person auto-add picks for an account that it does not leave alone.
Picked(state, account) ==
  LET same == Named(state.persons, UserOf(account))
      grown == IF same = {} THEN Append(state.persons, Person(UserOf(account))) ELSE state.persons
  IN [persons |-> grown, person |-> IF same = {} THEN Len(grown) ELSE CHOOSE p \in same : TRUE]

LEMMA PickedIsRight ==
  ASSUME PeopleOK, NEW table, NEW account \in Account,
         NEW state \in Adding, NamesKept(state.persons), table = Picked(state, account).persons
  PROVE  /\ table \in Seq(PersonRow)
         /\ Picked(state, account).person \in DOMAIN table
         /\ Picked(state, account).person \in Nat \ {0}
         /\ table[Picked(state, account).person] = Person(UserOf(account))
         /\ \A p \in DOMAIN state.persons : p \in DOMAIN table /\ table[p] = state.persons[p]
         /\ NamesKept(table)
         /\ \A n \in UserName :
                Cardinality(Named(state.persons, n)) > 1 => Named(table, n) = Named(state.persons, n)
<1> DEFINE old == state.persons
           name == UserOf(account)
           same == Named(old, name)
<1>1. old \in Seq(PersonRow) /\ name \in UserName
  BY DEF Adding, UserName
<1>2. CASE same = {}
  <2>1. /\ table = Append(old, Person(name)) /\ Picked(state, account).person = Len(table)
    BY <1>2 DEF Picked
  <2> HIDE DEF old, name
  <2>2. /\ table \in Seq(PersonRow)
        /\ Len(table) \in DOMAIN table /\ Len(table) \in Nat \ {0}
        /\ table[Len(table)] = Person(name)
        /\ \A p \in DOMAIN old : p \in DOMAIN table /\ table[p] = old[p]
        /\ \A n \in UserName : n # name => Named(table, n) = Named(old, n)
        /\ Named(table, name) = {Len(table)}
    BY <1>1, <1>2, <2>1, PersonAdded
  <2>3. ASSUME NEW n \in UserName
        PROVE  \/ Named(table, n) = Named(persons, n)
               \/ Named(persons, n) = {} /\ \E p \in DOMAIN table : Named(table, n) = {p}
    <3>1. \/ Named(old, n) = Named(persons, n)
          \/ Named(persons, n) = {} /\ \E p \in DOMAIN old : Named(old, n) = {p}
      BY DEF NamesKept, old
    <3>2. CASE n = name
      BY <1>2, <2>2, <3>1, <3>2
    <3>3. CASE n # name
      BY <2>2, <3>1, <3>3
    <3>4. QED
      BY <3>2, <3>3
  <2>4. NamesKept(table)
    BY <2>3 DEF NamesKept
  <2>5. \A n \in UserName : Cardinality(Named(old, n)) > 1 => Named(table, n) = Named(old, n)
    <3>1. Cardinality(same) = 0
      BY <1>2, FS_EmptySet
    <3>2. QED
      BY <2>2, <3>1
  <2>6. QED
    BY <2>1, <2>2, <2>4, <2>5 DEF old, name
<1>3. CASE same # {}
  <2>1. table = old /\ Picked(state, account).person \in same
    BY <1>3 DEF Picked
  <2> DEFINE p == Picked(state, account).person
  <2> HIDE DEF p
  <2>2. p \in DOMAIN old /\ old[p].name = name /\ old[p].status = "active"
    BY <2>1 DEF Named, p
  <2>3. p \in Nat \ {0} /\ old[p] \in PersonRow
    BY <1>1, <2>2
  <2>4. old[p] = Person(name)
    BY <2>2, <2>3 DEF PersonRow, Person
  <2>5. QED
    BY <1>1, <2>1, <2>2, <2>3, <2>4 DEF p
<1>4. QED
  BY <1>2, <1>3

\* One account.
LEMMA AutoAddOneKeeps ==
  ASSUME PeopleOK, NEW state \in Adding, NEW s \in SUBSET Account, NEW account \in s,
         AddedSome(state, s \ {account})
  PROVE  AddedSome(AutoAddOne(state, account), s)
<1> DEFINE same == Named(state.persons, UserOf(account))
           person == Picked(state, account).person
           table == Picked(state, account).persons
           made == createBinding(state.rows, person, account, TRUE, "endless")
           after == AutoAddOne(state, account)
           left == \/ state.result # "done" \/ Skipped(account) \/ Cardinality(same) > 1
<1>1. after = IF left THEN state
              ELSE [persons |-> table, rows |-> made.rows, result |-> made.result]
  BY DEF AutoAddOne, Picked
<1>2. account \in Account /\ UserOf(account) \in UserName
  BY DEF UserName
<1>3. /\ GoodRows(state.rows) /\ GoodRows(bindings) /\ NamesKept(state.persons)
      /\ OwnersKept(state, s \ {account}) /\ OwnersFound(state, s \ {account})
  BY DEF AddedSome, PeopleOK
<1>4. Owner(state.rows, account) = Owner(bindings, account)
  BY <1>2, <1>3 DEF OwnersKept
<1> HIDE DEF same, person, table, made, after
<1>5. CASE left
  <2>1. after = state
    BY <1>1, <1>5
  <2>2. OwnersKept(state, s)
    BY <1>3 DEF OwnersKept
  <2>3. OwnersFound(state, s)
    <3>1. CASE state.result # "done"
      BY <3>1 DEF OwnersFound
    <3>2. CASE state.result = "done" /\ UserOf(account) = Root
      BY <1>3, <3>2 DEF OwnersFound
    <3>3. CASE state.result = "done" /\ ActiveBinding(account)
      <4>1. Owner(bindings, account) # NoPerson
        BY <1>2, <1>3, <3>3, OwnerIs DEF ActiveBinding
      <4>2. QED
        BY <1>3, <1>4, <4>1 DEF OwnersFound
    <3>4. CASE Cardinality(same) > 1
      BY <1>3, <3>4 DEF OwnersFound, same
    <3>5. QED
      BY <1>5, <3>1, <3>2, <3>3, <3>4 DEF Skipped
  <2>4. QED
    BY <1>3, <2>1, <2>2, <2>3 DEF AddedSome, after
<1>6. CASE ~left
  <2>1. after = [persons |-> table, rows |-> made.rows, result |-> made.result]
    BY <1>1, <1>6
  <2>2. /\ after.persons = table /\ after.rows = made.rows /\ after.result = made.result
    BY <2>1
  <2>3. UserOf(account) # Root /\ Owner(bindings, account) = NoPerson
    <3>1. UserOf(account) # Root /\ getActiveBinding(bindings, account) = {}
      BY <1>6 DEF Skipped, ActiveBinding
    <3>2. QED
      BY <1>2, <1>3, <3>1, OwnerIs
  <2>4. /\ table \in Seq(PersonRow)
        /\ person \in DOMAIN table /\ person \in Nat \ {0}
        /\ table[person] = Person(UserOf(account))
        /\ \A p \in DOMAIN state.persons : p \in DOMAIN table /\ table[p] = state.persons[p]
        /\ NamesKept(table)
        /\ \A n \in UserName :
               Cardinality(Named(state.persons, n)) > 1 => Named(table, n) = Named(state.persons, n)
    BY <1>2, <1>3, PickedIsRight DEF person, table
  <2>5. "endless" \in Window
    BY DEF Window
  <2>6. Bound(state.rows, person, account, TRUE, "endless")
    BY <1>2, <1>3, <2>4, <2>5, CreateBindingKeeps
  <2>7. /\ made \in [rows : SUBSET BindingRow, result : Result] /\ GoodRows(made.rows)
        /\ \A a \in Account : a # account => Owner(made.rows, a) = Owner(state.rows, a)
        /\ Owner(made.rows, account) \in {NoPerson, person}
        /\ made.result = "done" => Owner(made.rows, account) = person
    BY <1>4, <2>3, <2>6 DEF Bound, made
  <2>8. after \in Adding /\ GoodRows(after.rows)
    BY <2>1, <2>4, <2>7 DEF Adding
  <2>9. OwnersKept(after, s)
    <3> SUFFICES ASSUME NEW a \in Account, Owner(made.rows, a) # Owner(bindings, a)
                 PROVE  /\ a \in s
                        /\ Owner(bindings, a) = NoPerson /\ UserOf(a) # Root
                        /\ Owner(made.rows, a) \in DOMAIN table
                        /\ table[Owner(made.rows, a)] = Person(UserOf(a))
      BY <2>2 DEF OwnersKept
    <3>1. CASE a = account
      <4>1. Owner(made.rows, a) = person
        BY <2>3, <2>7, <3>1
      <4>2. QED
        BY <2>3, <2>4, <3>1, <4>1
    <3>2. CASE a # account
      <4>1. Owner(made.rows, a) = Owner(state.rows, a)
        BY <2>7, <3>2
      <4>2. /\ a \in s \ {account}
            /\ Owner(bindings, a) = NoPerson /\ UserOf(a) # Root
            /\ Owner(state.rows, a) \in DOMAIN state.persons
            /\ state.persons[Owner(state.rows, a)] = Person(UserOf(a))
        BY <1>3, <4>1 DEF OwnersKept
      <4>3. QED
        BY <2>4, <4>1, <4>2
    <3>3. QED
      BY <3>1, <3>2
  <2>10. OwnersFound(after, s)
    <3> SUFFICES ASSUME made.result = "done", NEW a \in s
                 PROVE  \/ UserOf(a) = Root
                        \/ Cardinality(Named(table, UserOf(a))) > 1
                        \/ Owner(made.rows, a) # NoPerson
      BY <2>2 DEF OwnersFound
    <3>1. CASE a = account
      BY <2>4, <2>7, <3>1 DEF NoPerson
    <3>2. CASE a # account
      <4>1. a \in Account /\ UserOf(a) \in UserName
        BY DEF UserName
      <4>2. \/ UserOf(a) = Root
            \/ Cardinality(Named(state.persons, UserOf(a))) > 1
            \/ Owner(state.rows, a) # NoPerson
        BY <1>3, <1>6, <3>2 DEF OwnersFound
      <4>3. Owner(made.rows, a) = Owner(state.rows, a)
        BY <2>7, <3>2, <4>1
      <4>4. QED
        BY <2>4, <4>1, <4>2, <4>3
    <3>3. QED
      BY <3>1, <3>2
  <2>11. QED
    BY <2>2, <2>4, <2>8, <2>9, <2>10 DEF AddedSome, after
<1>7. QED
  BY <1>5, <1>6

GoodAdding == {state \in Adding : GoodRows(state.rows) /\ NamesKept(state.persons)}

LEMMA AutoAddOneTyped ==
  ASSUME PeopleOK, NEW state \in GoodAdding, NEW account \in Account
  PROVE  AutoAddOne(state, account) \in GoodAdding
<1> DEFINE person == Picked(state, account).person
           table == Picked(state, account).persons
           made == createBinding(state.rows, person, account, TRUE, "endless")
           after == AutoAddOne(state, account)
<1>1. state \in Adding /\ GoodRows(state.rows) /\ NamesKept(state.persons)
  BY DEF GoodAdding
<1>2. after = state \/ after = [persons |-> table, rows |-> made.rows, result |-> made.result]
  BY DEF AutoAddOne, Picked
<1> HIDE DEF person, table, made, after
<1>3. table \in Seq(PersonRow) /\ person \in Nat \ {0} /\ NamesKept(table)
  BY <1>1, PickedIsRight DEF person, table
<1>4. "endless" \in Window
  BY DEF Window
<1>5. Bound(state.rows, person, account, TRUE, "endless")
  BY <1>1, <1>3, <1>4, CreateBindingKeeps
<1>6. made \in [rows : SUBSET BindingRow, result : Result] /\ GoodRows(made.rows)
  BY <1>5 DEF Bound, made
<1>7. [persons |-> table, rows |-> made.rows, result |-> made.result] \in GoodAdding
  BY <1>3, <1>6 DEF GoodAdding, Adding
<1>8. after \in GoodAdding
  BY <1>2, <1>7
<1>9. QED
  BY <1>8 DEF after

\* The fold that AutoAddAll is.
Adds(it, candidates) ==
  /\ AutoAddAll(candidates) = it[candidates]
  /\ it[{}] = [persons |-> persons, rows |-> bindings, result |-> "done"]
  /\ \A s \in SUBSET candidates : it[s] \in GoodAdding
  /\ \A s \in SUBSET candidates : s # {} =>
         \E a \in s : it[s] = AutoAddOne(it[s \ {a}], a)

LEMMA AutoAddUnfolds ==
  ASSUME PeopleOK, NEW candidates \in SUBSET Account
  PROVE  \E it : Adds(it, candidates)
<1> DEFINE base == [persons |-> persons, rows |-> bindings, result |-> "done"]
           Run(it) == it = [s \in SUBSET candidates |-> IF s = {} THEN base
                              ELSE AutoAddOne(it[s \ {CHOOSE x \in s : TRUE}],
                                              CHOOSE x \in s : TRUE)]
           pick == [s \in SUBSET candidates |-> CHOOSE x \in s : TRUE]
           step == [p \in candidates \X GoodAdding |-> AutoAddOne(p[2], p[1])]
<1>1. IsFiniteSet(candidates)
  BY PeopleAssumption, FS_Subset
<1>2. \A s \in SUBSET candidates : s # {} => pick[s] \in s
  OBVIOUS
<1>3. base \in GoodAdding
  BY DEF PeopleOK, GoodAdding, Adding, Result, GoodRows, NamesKept
<1>4. step \in [candidates \X GoodAdding -> GoodAdding]
  <2>1. \A a \in candidates, state \in GoodAdding : AutoAddOne(state, a) \in GoodAdding
    BY AutoAddOneTyped
  <2>2. QED
    BY <2>1
<1>5. \E it : Run(it)
  <2>1. PICK it \in [SUBSET candidates -> GoodAdding] : Folds(it, candidates, base, pick, step)
    <3> HIDE DEF pick, step, base
    <3>1. QED
      BY <1>1, <1>2, <1>3, <1>4, FoldExists
  <2>2. ASSUME NEW s \in SUBSET candidates
        PROVE  it[s] = IF s = {} THEN base
                       ELSE AutoAddOne(it[s \ {CHOOSE x \in s : TRUE}], CHOOSE x \in s : TRUE)
    <3>1. CASE s = {}
      BY <2>1, <3>1 DEF Folds
    <3>2. CASE s # {}
      <4>1. it[s] = step[<<pick[s], it[s \ {pick[s]}]>>]
        <5> HIDE DEF pick, step
        <5>1. QED
          BY <2>1, <3>2 DEF Folds
      <4>2. pick[s] = (CHOOSE x \in s : TRUE) /\ pick[s] \in candidates
        BY <1>2, <3>2
      <4>3. it[s \ {pick[s]}] \in GoodAdding
        OBVIOUS
      <4>4. step[<<pick[s], it[s \ {pick[s]}]>>] = AutoAddOne(it[s \ {pick[s]}], pick[s])
        <5> HIDE DEF pick
        <5>1. QED
          BY <4>2, <4>3
      <4>5. QED
        BY <3>2, <4>1, <4>2, <4>4
    <3>3. QED
      BY <3>1, <3>2
  <2>3. Run(it)
    BY <2>2
  <2>4. QED
    <3> HIDE DEF Run
    <3>1. QED
      BY <2>3
<1> DEFINE run == CHOOSE it : Run(it)
<1>6. AutoAddAll(candidates) = run[candidates]
  BY DEF AutoAddAll, FoldSet, MapThenFoldSet
<1>7. Run(run)
  <2> HIDE DEF Run
  <2>1. QED
    BY <1>5
<1> HIDE DEF run
<1>8. run[{}] = base
  BY <1>7
<1>9. ASSUME NEW s \in SUBSET candidates, s # {}
      PROVE  \E a \in s : run[s] = AutoAddOne(run[s \ {a}], a)
  <2> DEFINE c == CHOOSE x \in s : TRUE
  <2>1. c \in s /\ run[s] = AutoAddOne(run[s \ {c}], c)
    BY <1>7, <1>9
  <2> HIDE DEF c
  <2>2. QED
    BY <2>1
<1> DEFINE G == {s \in SUBSET candidates : run[s] \in GoodAdding}
<1>10. {} \in G /\ G \in SUBSET SUBSET candidates
  BY <1>3, <1>8
<1>11. ASSUME NEW s \in SUBSET candidates, s # {}, \A x \in s : s \ {x} \in G
       PROVE  s \in G
  <2>1. PICK c \in s : run[s] = AutoAddOne(run[s \ {c}], c)
    BY <1>9, <1>11
  <2>2. run[s \ {c}] \in GoodAdding
    BY <1>11
  <2>3. QED
    BY <2>1, <2>2, AutoAddOneTyped
<1>12. G = SUBSET candidates
  <2> HIDE DEF G
  <2>1. QED
    BY <1>1, <1>10, <1>11, SetOfAllSubsets
<1>13. \A s \in SUBSET candidates : run[s] \in GoodAdding
  BY <1>12
<1>14. Adds(run, candidates)
  BY <1>6, <1>8, <1>9, <1>13 DEF Adds
<1>15. QED
  BY <1>14

LEMMA AutoAddAllKeeps ==
  ASSUME PeopleOK, NEW candidates \in SUBSET Account
  PROVE  AddedSome(AutoAddAll(candidates), candidates)
<1>1. IsFiniteSet(candidates)
  BY PeopleAssumption, FS_Subset
<1>2. PICK it : Adds(it, candidates)
  BY AutoAddUnfolds
<1> DEFINE G == {s \in SUBSET candidates : AddedSome(it[s], s)}
<1>3. {} \in G
  <2> DEFINE base == [persons |-> persons, rows |-> bindings, result |-> "done"]
  <2>1. it[{}] = base /\ it[{}] \in GoodAdding
    BY <1>2 DEF Adds
  <2>2. OwnersKept(base, {}) /\ OwnersFound(base, {})
    BY DEF OwnersKept, OwnersFound
  <2> HIDE DEF base
  <2>3. AddedSome(base, {})
    BY <2>1, <2>2 DEF AddedSome, GoodAdding
  <2>4. QED
    BY <2>1, <2>3
<1>4. ASSUME NEW s \in SUBSET candidates, s # {}, \A x \in s : s \ {x} \in G
      PROVE  s \in G
  <2>1. PICK c \in s : it[s] = AutoAddOne(it[s \ {c}], c)
    BY <1>2, <1>4 DEF Adds
  <2>2. AddedSome(it[s \ {c}], s \ {c})
    BY <1>4
  <2>3. it[s \ {c}] \in Adding /\ s \in SUBSET Account
    BY <2>2 DEF AddedSome
  <2>4. AddedSome(it[s], s)
    BY <2>1, <2>2, <2>3, AutoAddOneKeeps
  <2>5. QED
    BY <2>4
<1>5. G \in SUBSET SUBSET candidates
  OBVIOUS
<1>6. G = SUBSET candidates
  <2> HIDE DEF G
  <2>1. QED
    BY <1>1, <1>3, <1>4, <1>5, SetOfAllSubsets
<1>7. candidates \in G
  BY <1>6
<1>8. QED
  BY <1>2, <1>7 DEF Adds

-----------------------------------------------------------------------------
(* The steps. *)

\* What is true of a step on accounts, and the tables stay good.
GoodStep ==
  /\ PeopleOK'
  /\ \A a \in Account :
         LET before == Owner(bindings, a)
             after == Owner(bindings, a)'
         IN before # NoPerson /\ after # NoPerson /\ after # before
            => answer'.op \in {"transfer", "put"}
  /\ answer'.op \in {"wizard", "transfer"} =>
         IF answer'.result = "done"
         THEN /\ Len(persons') = Len(persons) + 1
              /\ \A a \in Account : Owner(bindings, a)' = IF a \in answer'.accounts
                                                           THEN Len(persons')
                                                           ELSE Owner(bindings, a)
         ELSE UNCHANGED <<persons, bindings>>
  /\ answer'.op = "auto-add" =>
         \A a \in Account :
             LET before == Owner(bindings, a)
                 after == Owner(bindings, a)'
                 namesakes == Cardinality(Named(persons', UserOf(a)))
             IN /\ after # before => /\ before = NoPerson /\ UserOf(a) # Root
                                     /\ persons'[after] = Person(UserOf(a))
                /\ namesakes > 1 => namesakes = Cardinality(Named(persons, UserOf(a)))
                /\ answer'.result = "done" /\ a \in answer'.accounts =>
                       \/ UserOf(a) = Root \/ namesakes > 1
                       \/ after # NoPerson

\* A call that changes no binding and is none of the three.
LEMMA PlainStep ==
  ASSUME PeopleOK, PeopleOK', answer'.op \notin {"wizard", "transfer", "auto-add"},
         \A a \in Account : Owner(bindings, a) # NoPerson /\ Owner(bindings', a) # NoPerson
                            /\ Owner(bindings', a) # Owner(bindings, a) => answer'.op = "put"
  PROVE  GoodStep
BY DEF GoodStep

LEMMA PassIsGood ==
  ASSUME PeopleOK, NEW b \in bindings, NEW window \in Window, Pass(b, window)
  PROVE  GoodStep
<1> DEFINE row == [b EXCEPT !.window = window]
<1>1. bindings' = (bindings \ {b}) \cup {row} /\ persons' = persons /\ answer'.op = "none"
  BY DEF Pass, Answer
<1>2. GoodRows(bindings) /\ b \in BindingRow
  BY DEF PeopleOK, GoodRows
<1>3. /\ row \in BindingRow /\ row.account = b.account /\ row.person = b.person
      /\ row.enabled = b.enabled
  BY <1>2 DEF BindingRow
<1> HIDE DEF row
<1>4. row.enabled => ~Clashes(bindings \ {b}, row)
  BY <1>2, <1>3 DEF Clashes, GoodRows
<1>5. /\ GoodRows(bindings')
      /\ \A a \in Account : a # b.account => Owner(bindings', a) = Owner(bindings, a)
  BY <1>1, <1>2, <1>3, <1>4, ReplaceKeeps
<1>6. ASSUME Owner(bindings, b.account) # NoPerson, Owner(bindings', b.account) # NoPerson
      PROVE  Owner(bindings', b.account) = Owner(bindings, b.account)
  <2>1. b.account \in Account
    BY <1>2 DEF BindingRow
  <2>2. PICK c \in getActiveBinding(bindings, b.account) : c.person = Owner(bindings, b.account)
    BY <1>2, <1>6, <2>1, OwnerIs
  <2>3. PICK d \in getActiveBinding(bindings', b.account) : d.person = Owner(bindings', b.account)
    BY <1>5, <1>6, <2>1, OwnerIs
  <2>4. CASE d = row
    <3>1. b.enabled
      BY <1>3, <2>3, <2>4 DEF getActiveBinding
    <3>2. c = b
      BY <1>2, <2>2, <3>1 DEF getActiveBinding, GoodRows
    <3>3. QED
      BY <1>3, <2>2, <2>3, <2>4, <3>2
  <2>5. CASE d # row
    <3>1. d \in bindings
      BY <1>1, <2>3, <2>5 DEF getActiveBinding
    <3>2. c = d
      BY <1>2, <2>2, <2>3, <3>1 DEF getActiveBinding, GoodRows
    <3>3. QED
      BY <2>2, <2>3, <3>2
  <2>6. QED
    BY <2>4, <2>5
<1>7. PeopleOK'
  BY <1>1, <1>5 DEF PeopleOK
<1>8. QED
  BY <1>1, <1>5, <1>6, <1>7, PlainStep

LEMMA PersonStepsAreGood ==
  ASSUME PeopleOK, NEW name \in Name,
         \/ CreatePerson(name)
         \/ \E p \in DOMAIN persons, status \in {"active", "archived"} :
                UpdatePerson(p, name, status)
  PROVE  GoodStep
<1>1. bindings' = bindings /\ answer'.op = "none"
  BY DEF CreatePerson, UpdatePerson, Answer
<1>2. name \in UserName
  BY PeopleAssumption DEF Name, UserName
<1>3. persons' \in Seq(PersonRow)
  <2>1. CASE CreatePerson(name)
    <3>1. Person(name) \in PersonRow
      BY <1>2 DEF Person, PersonRow
    <3>2. QED
      BY <2>1, <3>1 DEF CreatePerson, PeopleOK
  <2>2. ASSUME NEW p \in DOMAIN persons, NEW status \in {"active", "archived"},
               UpdatePerson(p, name, status)
        PROVE  persons' \in Seq(PersonRow)
    <3> DEFINE row == [name |-> name, status |-> status]
    <3>1. row \in PersonRow
      BY <1>2 DEF PersonRow
    <3>2. persons' = [persons EXCEPT ![p] = row]
      BY <2>2 DEF UpdatePerson
    <3> HIDE DEF row
    <3>3. QED
      BY <3>1, <3>2 DEF PeopleOK
  <2>3. QED
    BY <2>1, <2>2
<1>4. PeopleOK'
  BY <1>1, <1>3 DEF PeopleOK
<1>5. QED
  BY <1>1, <1>4, PlainStep

LEMMA PostIsGood ==
  ASSUME PeopleOK, NEW p \in DOMAIN persons, NEW enabled \in BOOLEAN, NEW window \in Window,
         NEW a \in Chosen, PostBinding(p, a, enabled, window)
  PROVE  GoodStep
<1>1. /\ bindings' = createBinding(bindings, p, a, enabled, window).rows
      /\ persons' = persons /\ answer'.op = "post"
  BY DEF PostBinding, Answer
<1>2. p \in Nat \ {0} /\ a \in Account /\ GoodRows(bindings)
  BY PeopleAssumption DEF PeopleOK
<1>3. Bound(bindings, p, a, enabled, window)
  BY <1>2, CreateBindingKeeps
<1>4. /\ GoodRows(bindings')
      /\ \A c \in Account : c # a => Owner(bindings', c) = Owner(bindings, c)
      /\ Owner(bindings, a) # NoPerson => Owner(bindings', a) \in {NoPerson, Owner(bindings, a)}
  BY <1>1, <1>3 DEF Bound
<1>5. PeopleOK'
  BY <1>1, <1>4 DEF PeopleOK
<1>6. QED
  BY <1>1, <1>4, <1>5, PlainStep

LEMMA PutIsGood ==
  ASSUME PeopleOK, NEW p \in DOMAIN persons, NEW enabled \in BOOLEAN, NEW window \in Window,
         NEW b \in bindings, PutBinding(b, p, enabled, window)
  PROVE  GoodStep
<1> DEFINE row == Row(p, b.account, enabled, window)
<1>1. persons' = persons /\ answer'.op = "put"
  BY DEF PutBinding, Answer
<1>2. p \in Nat \ {0} /\ b \in BindingRow /\ GoodRows(bindings)
  BY DEF PeopleOK, GoodRows
<1>3. row \in BindingRow /\ row.account = b.account
  BY <1>2 DEF BindingRow, Row
<1>4. \/ bindings' = bindings
      \/ bindings' = (bindings \ {b}) \cup {row} /\ ~Clashes(bindings \ {b}, row)
  BY DEF PutBinding
<1> HIDE DEF row
<1>5. GoodRows(bindings')
  <2>1. CASE bindings' = bindings
    BY <1>2, <2>1
  <2>2. CASE bindings' = (bindings \ {b}) \cup {row} /\ ~Clashes(bindings \ {b}, row)
    <3>1. GoodRows((bindings \ {b}) \cup {row})
      BY <1>2, <1>3, <2>2, ReplaceKeeps
    <3>2. QED
      BY <2>2, <3>1
  <2>3. QED
    BY <1>4, <2>1, <2>2
<1>6. PeopleOK'
  BY <1>1, <1>5 DEF PeopleOK
<1>7. QED
  BY <1>1, <1>6, PlainStep

LEMMA WizardIsGood ==
  ASSUME PeopleOK, NEW name \in Name, NEW accounts \in SUBSET Chosen,
         NEW confirmTransfer \in BOOLEAN,
         createPersonFromWizard(name, accounts, confirmTransfer)
  PROVE  GoodStep
<1> DEFINE person == Len(persons) + 1
           freed == deactivateBindings(bindings, accounts)
           made == BindAll(freed, person, accounts)
           op == IF confirmTransfer THEN "transfer" ELSE "wizard"
<1>1. /\ persons \in Seq(PersonRow) /\ GoodRows(bindings) /\ Len(persons) \in Nat
      /\ person \in Nat \ {0} /\ accounts \in SUBSET Account
  BY PeopleAssumption DEF PeopleOK
<1>2. answer'.op = op /\ answer'.accounts = accounts
  BY DEF createPersonFromWizard, Answer
<1>3. \/ UNCHANGED <<persons, bindings>> /\ answer'.result = "refused"
      \/ UNCHANGED <<persons, bindings>> /\ answer'.result = made.result /\ made.result # "done"
      \/ /\ ~WizardRefused(accounts, confirmTransfer)
         /\ answer'.result = made.result /\ made.result = "done"
         /\ persons' = Append(persons, Person(name)) /\ bindings' = made.rows
  BY DEF createPersonFromWizard, Answer, Committed
<1>4. /\ GoodRows(freed)
      /\ \A a \in Account : Owner(freed, a) = IF a \in accounts THEN NoPerson ELSE Owner(bindings, a)
  BY <1>1, DeactivateKeeps
<1>5. BoundSome(made, accounts, freed, person)
  <2> HIDE DEF freed, person
  <2>1. QED
    BY <1>1, <1>4, BindAllKeeps
<1> HIDE DEF made, freed
<1>6. CASE UNCHANGED <<persons, bindings>> /\ answer'.result # "done"
  <2>1. PeopleOK'
    BY <1>6 DEF PeopleOK, GoodRows
  <2>2. QED
    BY <1>2, <1>6, <2>1 DEF GoodStep
<1>7. CASE /\ ~WizardRefused(accounts, confirmTransfer)
           /\ answer'.result = made.result /\ made.result = "done"
           /\ persons' = Append(persons, Person(name)) /\ bindings' = made.rows
  <2>1. name \in UserName
    BY PeopleAssumption DEF Name, UserName
  <2>2. Person(name) \in PersonRow
    BY <2>1 DEF Person, PersonRow
  <2>3. persons' \in Seq(PersonRow) /\ Len(persons') = person
    BY <1>1, <1>7, <2>2
  <2>4. GoodRows(bindings')
    BY <1>5, <1>7 DEF BoundSome, GoodMade
  <2>5. \A a \in Account : Owner(bindings', a) = IF a \in accounts THEN person ELSE Owner(bindings, a)
    <3> HIDE DEF person
    <3>1. QED
      BY <1>4, <1>5, <1>7 DEF BoundSome
  <2>6. ~confirmTransfer => \A a \in accounts : Owner(bindings, a) = NoPerson
    BY <1>1, <1>7, OwnerIs DEF WizardRefused, ActiveBinding
  <2>7. PeopleOK'
    BY <2>3, <2>4 DEF PeopleOK
  <2>8. \A a \in Account :
            Owner(bindings, a) # NoPerson /\ Owner(bindings', a) # NoPerson
              /\ Owner(bindings', a) # Owner(bindings, a) => answer'.op = "transfer"
    BY <1>2, <2>5, <2>6
  <2>9. answer'.op # "auto-add"
    BY <1>2
  <2>10. QED
    BY <1>2, <1>7, <2>3, <2>5, <2>7, <2>8, <2>9 DEF GoodStep
<1>8. QED
  BY <1>3, <1>6, <1>7

LEMMA AutoAddIsGood ==
  ASSUME PeopleOK, NEW candidates \in SUBSET Account, AutoAdd(candidates)
  PROVE  GoodStep
<1> DEFINE made == AutoAddAll(candidates)
<1>1. /\ answer'.op = "auto-add" /\ answer'.accounts = candidates /\ answer'.result = made.result
      /\ \/ made.result = "done" /\ persons' = made.persons /\ bindings' = made.rows
         \/ made.result # "done" /\ UNCHANGED <<persons, bindings>>
  BY DEF AutoAdd, Answer, Committed
<1>2. AddedSome(made, candidates)
  BY AutoAddAllKeeps
<1> HIDE DEF made
<1>3. CASE made.result # "done" /\ UNCHANGED <<persons, bindings>>
  <2>1. PeopleOK'
    BY <1>3 DEF PeopleOK, GoodRows
  <2>2. QED
    BY <1>1, <1>3, <2>1 DEF GoodStep
<1>4. CASE made.result = "done" /\ persons' = made.persons /\ bindings' = made.rows
  <2>1. PeopleOK'
    BY <1>2, <1>4 DEF AddedSome, Adding, PeopleOK
  <2>2. \A a \in Account : Owner(bindings', a) # Owner(bindings, a) =>
            /\ Owner(bindings, a) = NoPerson /\ UserOf(a) # Root
            /\ persons'[Owner(bindings', a)] = Person(UserOf(a))
    BY <1>2, <1>4 DEF AddedSome, OwnersKept
  <2>3. ASSUME NEW a \in Account, Cardinality(Named(persons', UserOf(a))) > 1
        PROVE  Cardinality(Named(persons', UserOf(a))) = Cardinality(Named(persons, UserOf(a)))
    <3> DEFINE n == UserOf(a)
    <3>1. n \in UserName
      BY DEF UserName
    <3> HIDE DEF n
    <3>2. \/ Named(persons', n) = Named(persons, n)
          \/ \E p \in DOMAIN persons' : Named(persons', n) = {p}
      BY <1>2, <1>4, <3>1 DEF AddedSome, NamesKept
    <3>3. ASSUME NEW p, Named(persons', n) = {p} PROVE FALSE
      <4>1. Cardinality({p}) = 1
        BY FS_Singleton
      <4>2. Cardinality(Named(persons', n)) = 1
        BY <3>3, <4>1
      <4>3. QED
        BY <2>3, <4>2 DEF n
    <3>4. QED
      BY <3>2, <3>3 DEF n
  <2>4. \A a \in candidates : \/ UserOf(a) = Root
                              \/ Cardinality(Named(persons', UserOf(a))) > 1
                              \/ Owner(bindings', a) # NoPerson
    BY <1>2, <1>4 DEF AddedSome, OwnersFound
  <2>5. QED
    BY <1>1, <2>1, <2>2, <2>3, <2>4 DEF GoodStep
<1>5. QED
  BY <1>1, <1>3, <1>4

LEMMA PeopleStepIsGood == PeopleOK /\ [PeopleNext]_peopleVars => PeopleOK' /\ (PeopleNext => GoodStep)
<1>1. ASSUME PeopleOK, PeopleNext PROVE GoodStep
  <2>1. ASSUME NEW b \in bindings, NEW window \in Window, Pass(b, window) PROVE GoodStep
    BY <1>1, <2>1, PassIsGood
  <2>2. ASSUME NEW name \in Name, CreatePerson(name) PROVE GoodStep
    BY <1>1, <2>2, PersonStepsAreGood
  <2>3. ASSUME NEW p \in DOMAIN persons, NEW name \in Name, NEW status \in {"active", "archived"},
               UpdatePerson(p, name, status)
        PROVE  GoodStep
    BY <1>1, <2>3, PersonStepsAreGood
  <2>4. ASSUME NEW p \in DOMAIN persons, NEW enabled \in BOOLEAN, NEW window \in Window,
               NEW a \in Chosen, PostBinding(p, a, enabled, window)
        PROVE  GoodStep
    BY <1>1, <2>4, PostIsGood
  <2>5. ASSUME NEW p \in DOMAIN persons, NEW enabled \in BOOLEAN, NEW window \in Window,
               NEW b \in bindings, PutBinding(b, p, enabled, window)
        PROVE  GoodStep
    BY <1>1, <2>5, PutIsGood
  <2>6. ASSUME NEW name \in Name, NEW accounts \in SUBSET Chosen, NEW confirmTransfer \in BOOLEAN,
               createPersonFromWizard(name, accounts, confirmTransfer)
        PROVE  GoodStep
    BY <1>1, <2>6, WizardIsGood
  <2>7. ASSUME NEW candidates \in SUBSET Account, AutoAdd(candidates) PROVE GoodStep
    BY <1>1, <2>7, AutoAddIsGood
  <2>8. QED
    BY <1>1, <2>1, <2>2, <2>3, <2>4, <2>5, <2>6, <2>7 DEF PeopleNext
<1>2. ASSUME PeopleOK, UNCHANGED peopleVars PROVE PeopleOK'
  BY <1>2 DEF PeopleOK, GoodRows, peopleVars
<1>3. QED
  BY <1>1, <1>2 DEF GoodStep

\* BindingsAreChosen: an account passes from one person to another only by a confirmed
\* wizard or an edit of the binding, the wizard binds all or nothing, and auto-add
\* takes no account from anybody (person/service.ts, routes/person-routes.ts).
THEOREM BindingsAlwaysChosen == PeopleSpec => BindingsAreChosen
<1>1. PeopleInit => PeopleOK
  BY DEF PeopleInit, PeopleOK, GoodRows
<1>2. PeopleOK /\ [PeopleNext]_peopleVars => PeopleOK'
  BY PeopleStepIsGood
<1>3. PeopleOK /\ [PeopleNext]_peopleVars =>
        [\A a \in Account :
           LET before == Owner(bindings, a)
               after == Owner(bindings, a)'
           IN before # NoPerson /\ after # NoPerson /\ after # before
              => answer'.op \in {"transfer", "put"}]_peopleVars
  BY PeopleStepIsGood DEF GoodStep
<1>4. PeopleOK /\ [PeopleNext]_peopleVars =>
        [answer'.op \in {"wizard", "transfer"} =>
           IF answer'.result = "done"
           THEN /\ Len(persons') = Len(persons) + 1
                /\ \A a \in Account : Owner(bindings, a)' = IF a \in answer'.accounts
                                                             THEN Len(persons')
                                                             ELSE Owner(bindings, a)
           ELSE UNCHANGED <<persons, bindings>>]_peopleVars
  BY PeopleStepIsGood DEF GoodStep
<1>5. PeopleOK /\ [PeopleNext]_peopleVars =>
        [answer'.op = "auto-add" =>
           \A a \in Account :
               LET before == Owner(bindings, a)
                   after == Owner(bindings, a)'
                   namesakes == Cardinality(Named(persons', UserOf(a)))
               IN /\ after # before => /\ before = NoPerson /\ UserOf(a) # Root
                                       /\ persons'[after] = Person(UserOf(a))
                  /\ namesakes > 1 => namesakes = Cardinality(Named(persons, UserOf(a)))
                  /\ answer'.result = "done" /\ a \in answer'.accounts =>
                         \/ UserOf(a) = Root \/ namesakes > 1
                         \/ after # NoPerson]_peopleVars
  BY PeopleStepIsGood DEF GoodStep
<1>6. PeopleSpec => [](PeopleOK)
  BY <1>1, <1>2, PTL DEF PeopleSpec
<1>7. PeopleSpec => HandedOverOnPurpose
  BY <1>3, <1>6, PTL DEF PeopleSpec, HandedOverOnPurpose
<1>8. PeopleSpec => WizardIsWhole
  BY <1>4, <1>6, PTL DEF PeopleSpec, WizardIsWhole
<1>9. PeopleSpec => AutoAddIsRight
  BY <1>5, <1>6, PTL DEF PeopleSpec, AutoAddIsRight
<1>10. QED
  BY <1>7, <1>8, <1>9 DEF BindingsAreChosen


-----------------------------------------------------------------------------
(* What a person is shown. *)

\* A task is in a person's list if the binding of its account that is in effect
\* is the person's.
LEMMA ListedIsBound ==
  ASSUME PeopleOK, NEW p \in DOMAIN persons, NEW t \in TaskRow
  PROVE  /\ t.account \in Account
         /\ t \in tasksOf(p) <=>
              \E b \in getActiveBinding(bindings, t.account) : b.person = p
         /\ t \in tasksOf(p) <=> Owner(bindings, t.account) = p
<1>1. t.account \in Account
  BY ViewAssumption
<1>2. /\ GoodRows(bindings) /\ p \in Nat \ {0}
      /\ \A b \in bindings : b \in BindingRow /\ b.window \in Window
  BY DEF PeopleOK, GoodRows, BindingRow
<1>3. t \in tasksOf(p) <=> \E b \in getActiveBinding(bindings, t.account) : b.person = p
  BY <1>2 DEF tasksOf, BelongsTo, getActiveBinding, InWindow, Window
<1>4. /\ Owner(bindings, t.account) = NoPerson <=> getActiveBinding(bindings, t.account) = {}
      /\ \A b \in getActiveBinding(bindings, t.account) : b.person = Owner(bindings, t.account)
  BY <1>1, <1>2, OwnerIs
<1>5. t \in tasksOf(p) <=> Owner(bindings, t.account) = p
  <2>1. CASE getActiveBinding(bindings, t.account) = {}
    BY <1>2, <1>3, <1>4, <2>1 DEF NoPerson
  <2>2. CASE getActiveBinding(bindings, t.account) # {}
    BY <1>3, <1>4, <2>2
  <2>3. QED
    BY <2>1, <2>2
<1>6. QED
  BY <1>1, <1>3, <1>5

\* The list is one's own.
LEMMA ListsAreOwn == PeopleOK => ListIsOnesOwn
<1> SUFFICES ASSUME PeopleOK, NEW p \in DOMAIN persons, NEW t \in TaskRow
             PROVE  /\ t \in tasksOf(p) => /\ mayOpenAndCancel(p, t)
                                           /\ canAccessServer(p, ServerOf(t.account))
                    /\ t \in tasksOf(p) <=> Owner(bindings, t.account) = p
                    /\ t \in tasksOf(p) <=> activePerson(t.account) = p
  BY DEF ListIsOnesOwn
<1>1. t \in tasksOf(p) => mayOpenAndCancel(p, t) /\ canAccessServer(p, ServerOf(t.account))
  <2> SUFFICES ASSUME t \in tasksOf(p)
               PROVE  mayOpenAndCancel(p, t) /\ canAccessServer(p, ServerOf(t.account))
    OBVIOUS
  <2>1. PICK b \in bindings : b.person = p /\ b.account = t.account /\ b.enabled
    BY DEF tasksOf, BelongsTo
  <2>2. QED
    BY <2>1 DEF mayOpenAndCancel, canAccessTask, canAccessServer, getBindingsByPersonId
<1>2. activePerson(t.account) = Owner(bindings, t.account)
  BY DEF activePerson, Owner
<1>3. QED
  BY <1>1, <1>2, ListedIsBound

\* The directory counts the tasks of the list.
LEMMA DirectoryCounts == PeopleOK => DirectoryTellsTheList
<1> SUFFICES ASSUME PeopleOK, NEW p \in DOMAIN persons
             PROVE  LET shown == DirectoryItem(p)
                        OfStatus(status) == Cardinality({t \in tasksOf(p) : t.status = status})
                    IN /\ shown.running = OfStatus("running")
                       /\ shown.queued = OfStatus("queued")
                       /\ shown.servers <= Cardinality(getAccessibleServerIds(p))
  BY DEF DirectoryTellsTheList
<1> DEFINE accounts == {b.account : b \in dedupeActiveBindings(p)}
           With(status) == {t \in TaskRow : t.account \in accounts /\ t.status = status}
           busy == {a \in accounts : \/ a \in Using
                                     \/ \E t \in With("running") \cup With("queued") : t.account = a}
           servers == {ServerOf(a) : a \in busy}
<1>1. GoodRows(bindings) /\ p \in Nat \ {0} /\ \A b \in bindings : b \in BindingRow
  BY DEF PeopleOK, GoodRows
<1>2. \A a \in Account : a \in accounts <=> \E b \in getActiveBinding(bindings, a) : b.person = p
  <2> DEFINE mine == {b \in getBindingsByPersonId(p) : isBindingActiveNow(b)}
             known == {b.account : b \in mine}
  <2>1. dedupeActiveBindings(p) = {CHOOSE b \in mine : b.account = a : a \in known}
    BY DEF dedupeActiveBindings
  <2>2. \A a \in known : \E b \in mine : b.account = a
    OBVIOUS
  <2> HIDE DEF mine, known
  <2>3. \A a \in known : (CHOOSE b \in mine : b.account = a).account = a
    BY <2>2
  <2>4. accounts = known
    BY <2>1, <2>3
  <2>5. \A a \in Account : a \in known <=> \E b \in getActiveBinding(bindings, a) : b.person = p
    BY DEF known, mine, getBindingsByPersonId, isBindingActiveNow, getActiveBinding, InWindow
  <2>6. QED
    BY <2>4, <2>5
<1>3. accounts \subseteq {b.account : b \in {c \in getBindingsByPersonId(p) : c.enabled}}
  <2> DEFINE mine == {b \in getBindingsByPersonId(p) : isBindingActiveNow(b)}
  <2>1. dedupeActiveBindings(p) \subseteq mine
    BY DEF dedupeActiveBindings
  <2>2. mine \subseteq {c \in getBindingsByPersonId(p) : c.enabled}
    BY DEF isBindingActiveNow
  <2>3. QED
    BY <2>1, <2>2
<1>4. /\ DirectoryItem(p).running = Cardinality(With("running"))
      /\ DirectoryItem(p).queued = Cardinality(With("queued"))
      /\ DirectoryItem(p).servers = Cardinality(servers)
  BY DEF DirectoryItem
<1> HIDE DEF accounts
<1>5. ASSUME NEW status PROVE With(status) = {t \in tasksOf(p) : t.status = status}
  <2>1. \A t \in TaskRow : t \in tasksOf(p) <=> t.account \in accounts
    BY <1>2, ListedIsBound
  <2>2. \A t \in tasksOf(p) : t \in TaskRow
    BY DEF tasksOf
  <2>3. QED
    BY <2>1, <2>2
<1>6. servers \subseteq getAccessibleServerIds(p)
  BY <1>3 DEF getAccessibleServerIds
<1>7. IsFiniteSet(getAccessibleServerIds(p))
  <2> DEFINE ids == {ServerOf(a) : a \in Account}
             f == [a \in Account |-> ServerOf(a)]
  <2>1. f \in Surjection(Account, ids)
    BY DEF Surjection
  <2>2. IsFiniteSet(ids)
    BY <2>1, PeopleAssumption, FS_Surjection
  <2>3. getAccessibleServerIds(p) \subseteq ids
    BY <1>1 DEF getAccessibleServerIds, getBindingsByPersonId, BindingRow
  <2>4. QED
    BY <2>2, <2>3, FS_Subset
<1>8. Cardinality(servers) <= Cardinality(getAccessibleServerIds(p))
  BY <1>6, <1>7, FS_Subset
<1> HIDE DEF With, servers
<1>9. QED
  BY <1>4, <1>5, <1>8

-----------------------------------------------------------------------------
(* The pages of a list. *)

\* The pages of n rows: all but the last are full, the last has one row at least,
\* and every row is on one.
LEMMA PagesAre ==
  ASSUME NEW n \in Nat, NEW size \in Nat, size > 0,
         NEW pages, pages = (n + size - 1) \div size
  PROVE  /\ pages \in Nat
         /\ n <= pages * size
         /\ \A m \in 1..pages : (m - 1) * size < n
         /\ \A m \in 1..(pages - 1) : (m - 1) * size + size <= n
         /\ \A q \in 1..n : \E m \in 1..pages :
              (m - 1) * size < q /\ q <= (m - 1) * size + size
<1> DEFINE a == n + size - 1
           rest == a % size
<1>1. a \in Nat
  OBVIOUS
<1>2. pages \in Nat /\ rest \in Nat /\ rest < size /\ a = size * pages + rest
  BY <1>1, DivisionIs
<1> HIDE DEF rest
<1>3. \A x, y \in Int : x * size = size * x /\ size * x \in Int
                        /\ size * (x - 1) = size * x - size
  OBVIOUS
<1>4. \A x, y \in Int : /\ (size * x < size * y => x < y)
                        /\ (x <= y => size * x <= size * y)
  BY FactorLess
<1>5. n <= pages * size
  <2>1. n <= size * pages
    BY <1>2, <1>3
  <2>2. QED
    BY <1>2, <1>3, <2>1
<1>6. ASSUME NEW m \in 1..pages PROVE (m - 1) * size < n
  <2>1. size * m <= size * pages
    BY <1>2, <1>4
  <2>2. size * (m - 1) < n
    BY <1>2, <1>3, <2>1
  <2>3. QED
    BY <1>3, <2>2
<1>7. ASSUME NEW m \in 1..(pages - 1) PROVE (m - 1) * size + size <= n
  <2>1. size * (m + 1) <= size * pages
    BY <1>2, <1>4
  <2>2. size * (m + 1) = size * m + size /\ size * (m - 1) = size * m - size
    BY <1>2
  <2>3. size * m <= n
    BY <1>2, <1>3, <2>1, <2>2
  <2>4. QED
    BY <1>3, <2>2, <2>3
<1>8. ASSUME NEW q \in 1..n
      PROVE  \E m \in 1..pages : (m - 1) * size < q /\ q <= (m - 1) * size + size
  <2> DEFINE k == (q - 1) \div size
             r == (q - 1) % size
  <2>1. q - 1 \in Nat
    OBVIOUS
  <2>2. k \in Nat /\ r \in Nat /\ r < size /\ q - 1 = size * k + r
    BY <2>1, DivisionIs
  <2> HIDE DEF k, r
  <2>3. size * (pages + 1) = size * pages + size
    BY <1>2
  <2>4. size * k < size * pages
    BY <1>2, <1>3, <2>2, <2>3
  <2>5. k < pages
    BY <1>2, <1>4, <2>2, <2>4
  <2>6. k + 1 \in 1..pages /\ (k + 1) - 1 = k /\ k * size = size * k
    BY <1>2, <1>3, <2>2, <2>5
  <2> DEFINE m == k + 1
  <2>7. m \in 1..pages /\ (m - 1) * size < q /\ q <= (m - 1) * size + size
    BY <1>3, <2>2, <2>6
  <2> HIDE DEF m
  <2>8. QED
    BY <2>7
<1>9. QED
  BY <1>2, <1>5, <1>6, <1>7, <1>8

\* The order of a list.
Newer(p) == {s \in tasksOf(p) \X tasksOf(p) : s[1].id > s[2].id}

\* The list has every task once, and newer tasks before older ones.
LEMMA ListIsSorted ==
  ASSUME NEW p
  PROVE  /\ countTasks(p) \in Nat
         /\ getTasks(p) \in Seq(tasksOf(p)) /\ Len(getTasks(p)) = countTasks(p)
         /\ \A t \in tasksOf(p) : \E i \in 1..countTasks(p) : getTasks(p)[i] = t
         /\ \A i, j \in 1..countTasks(p) : i < j => getTasks(p)[i].id > getTasks(p)[j].id
<1> DEFINE T == tasksOf(p)
           R == Newer(p)
           n == countTasks(p)
           list == getTasks(p)
<1>1. IsFiniteSet(T) /\ T \subseteq TaskRow /\ \A t \in T : t.id \in Nat
  <2>1. T \subseteq TaskRow
    BY DEF tasksOf
  <2>2. QED
    BY <2>1, ViewAssumption, FS_Subset
<1>2. \A t, u \in T : t.id = u.id => t = u
  BY <1>1, ViewAssumption
<1>3. \A t, u \in T : <<t, u>> \in R <=> t.id > u.id
  BY DEF Newer
<1>4. OrderedBy(T, R)
  BY <1>1, <1>2, <1>3 DEF OrderedBy
<1>5. n = Cardinality(T)
  BY DEF countTasks
<1>6. \A t \in T : Cardinality(newerTasks(p, t)) = Rank(T, R, t)
  <2> TAKE t \in T
  <2>1. newerTasks(p, t) = {u \in T : <<u, t>> \in R}
    BY <1>3 DEF newerTasks
  <2>2. QED
    BY <2>1 DEF Rank
<1>7. list = [i \in 1..n |-> CHOOSE t \in T : Cardinality(newerTasks(p, t)) = i - 1]
  BY DEF getTasks
<1> HIDE DEF T, R, n, list
<1>8. /\ n \in Nat
      /\ \A t \in T : Rank(T, R, t) \in 0..n - 1
      /\ \A t, u \in T : <<t, u>> \in R => Rank(T, R, t) < Rank(T, R, u)
      /\ \A t, u \in T : Rank(T, R, t) = Rank(T, R, u) => t = u
  BY <1>1, <1>4, <1>5, RanksDiffer
<1>9. \A m \in 0..n - 1 : \E t \in T : Rank(T, R, t) = m
  BY <1>1, <1>4, <1>5, RanksAreTaken
<1>10. ASSUME NEW i \in 1..n PROVE list[i] \in T /\ Rank(T, R, list[i]) = i - 1
  <2>1. i - 1 \in 0..n - 1
    BY <1>8
  <2>2. \E t \in T : Rank(T, R, t) = i - 1
    BY <1>9, <2>1
  <2>3. \E t \in T : Cardinality(newerTasks(p, t)) = i - 1
    BY <1>6, <2>2
  <2>4. list[i] = CHOOSE t \in T : Cardinality(newerTasks(p, t)) = i - 1
    BY <1>7
  <2>5. list[i] \in T /\ Cardinality(newerTasks(p, list[i])) = i - 1
    BY <2>3, <2>4
  <2>6. QED
    BY <1>6, <2>5
<1>11. list \in Seq(T) /\ Len(list) = n
  BY <1>7, <1>8, <1>10
<1>12. ASSUME NEW t \in T PROVE \E i \in 1..n : list[i] = t
  <2>1. Rank(T, R, t) + 1 \in 1..n
    BY <1>8
  <2>2. Rank(T, R, list[Rank(T, R, t) + 1]) = Rank(T, R, t)
        /\ list[Rank(T, R, t) + 1] \in T
    BY <1>8, <1>10, <2>1
  <2>3. list[Rank(T, R, t) + 1] = t
    BY <1>8, <2>2
  <2>4. QED
    BY <2>1, <2>3
<1>13. ASSUME NEW i \in 1..n, NEW j \in 1..n, i < j PROVE list[i].id > list[j].id
  <2>1. /\ list[i] \in T /\ Rank(T, R, list[i]) = i - 1
        /\ list[j] \in T /\ Rank(T, R, list[j]) = j - 1
    BY <1>10
  <2>2. list[i] # list[j] /\ <<list[j], list[i]>> \notin R
    BY <1>8, <1>13, <2>1
  <2>3. list[i].id # list[j].id /\ ~(list[j].id > list[i].id)
    BY <1>2, <1>3, <2>1, <2>2
  <2>4. QED
    BY <1>1, <2>1, <2>3
<1>14. QED
  BY <1>8, <1>11, <1>12, <1>13 DEF T, n, list

\* A page is a piece of the list.
LEMMA PageIs ==
  ASSUME NEW p, NEW limit \in Nat, NEW m \in Nat, m > 0
  PROVE  LET size == parsePagination(1, limit).limit
             skipped == (m - 1) * size
         IN /\ size \in Nat /\ size > 0 /\ skipped \in Nat
            /\ PageOf(p, m, limit) \in Seq(tasksOf(p))
            /\ DOMAIN PageOf(p, m, limit) = 1..Len(PageOf(p, m, limit))
            /\ Len(PageOf(p, m, limit)) =
                 IF countTasks(p) <= skipped THEN 0
                 ELSE IF skipped + size <= countTasks(p) THEN size
                 ELSE countTasks(p) - skipped
            /\ \A i \in 1..Len(PageOf(p, m, limit)) :
                 /\ skipped + i \in 1..countTasks(p)
                 /\ PageOf(p, m, limit)[i] = getTasks(p)[skipped + i]
<1> DEFINE size == parsePagination(1, limit).limit
           skipped == (m - 1) * size
           list == getTasks(p)
           n == countTasks(p)
           T == tasksOf(p)
           last == IF skipped + size < n THEN skipped + size ELSE n
           page == PageOf(p, m, limit)
<1>1. /\ size = IF (IF limit > 0 THEN limit ELSE DefaultPageSize) < MaxPageSize
                THEN IF limit > 0 THEN limit ELSE DefaultPageSize ELSE MaxPageSize
      /\ parsePagination(m, limit) = [limit |-> size, offset |-> skipped]
  BY DEF parsePagination
<1>2. size \in Nat /\ size > 0
  BY <1>1, ViewAssumption
<1>3. n \in Nat /\ list \in Seq(T) /\ Len(list) = n
  BY ListIsSorted
<1>4. page = SubSeq(list, skipped + 1, last)
  <2> DEFINE asked == [limit |-> size, offset |-> skipped]
  <2>1. page = getPersonTasks(p, asked)
    BY <1>1 DEF PageOf
  <2> HIDE DEF size, skipped, page, n
  <2>2. asked.limit = size /\ asked.offset = skipped
    OBVIOUS
  <2> HIDE DEF asked
  <2>3. QED
    BY <1>3, <2>1, <2>2 DEF getPersonTasks
<1> HIDE DEF size, list, n, T, page
<1>5. skipped \in Nat
  BY <1>2
<1> HIDE DEF skipped
<1>6. last \in Nat /\ last <= n /\ last <= skipped + size
  BY <1>2, <1>3, <1>5
<1>7. \A i \in skipped + 1..last : list[i] \in T
  BY <1>3, <1>5, <1>6
<1>8. /\ page \in Seq(T)
      /\ Len(page) = IF skipped + 1 <= last THEN last - (skipped + 1) + 1 ELSE 0
      /\ \A i \in 1..last - (skipped + 1) + 1 : page[i] = list[skipped + 1 + i - 1]
  <2> HIDE DEF last
  <2>1. skipped + 1 \in Int /\ last \in Int
    BY <1>5, <1>6
  <2>2. QED
    BY <1>4, <1>7, <2>1, SubSeqProperties
<1>9. Len(page) = IF n <= skipped THEN 0 ELSE IF skipped + size <= n THEN size ELSE n - skipped
  BY <1>2, <1>3, <1>5, <1>8
<1>10. DOMAIN page = 1..Len(page)
  BY <1>8
<1>11. ASSUME NEW i \in 1..Len(page)
       PROVE  skipped + i \in 1..n /\ page[i] = list[skipped + i]
  <2> HIDE DEF last
  <2>1. i \in 1..last - (skipped + 1) + 1 /\ skipped + 1 + i - 1 = skipped + i
    BY <1>5, <1>6, <1>8
  <2>2. page[i] = list[skipped + i]
    BY <1>8, <2>1
  <2>3. skipped + i \in 1..n
    BY <1>3, <1>5, <1>6, <2>1
  <2>4. QED
    BY <2>2, <2>3
<1>12. QED
  BY <1>2, <1>5, <1>8, <1>9, <1>10, <1>11 DEF size, skipped, list, n, T, page

\* The pages show the list, whatever the tables are.
LEMMA PagesShowTheList == PagesAreWhole
<1> SUFFICES ASSUME NEW p, NEW limit \in 0..(MaxPageSize + 1)
             PROVE  LET size == parsePagination(1, limit).limit
                        pages == (countTasks(p) + size - 1) \div size
                        page == [m \in 1..(pages + 1) |-> PageOf(p, m, limit)]
                        shown == UNION {{<<m, i>> : i \in DOMAIN page[m]} : m \in 1..pages}
                    IN /\ {page[s[1]][s[2]] : s \in shown} = tasksOf(p)
                       /\ \A s, r \in shown : s[1] < r[1] \/ (s[1] = r[1] /\ s[2] < r[2])
                                       => page[s[1]][s[2]].id > page[r[1]][r[2]].id
                       /\ \A m \in 1..(pages - 1) : Len(page[m]) = size
                       /\ page[pages + 1] = <<>>
  BY DEF PagesAreWhole
<1> DEFINE size == parsePagination(1, limit).limit
           n == countTasks(p)
           pages == (n + size - 1) \div size
           page == [m \in 1..(pages + 1) |-> PageOf(p, m, limit)]
           shown == UNION {{<<m, i>> : i \in DOMAIN page[m]} : m \in 1..pages}
           list == getTasks(p)
           T == tasksOf(p)
           off(m) == (m - 1) * size
<1>1. limit \in Nat
  BY ViewAssumption
<1>2. /\ n \in Nat /\ list \in Seq(T) /\ Len(list) = n
      /\ \A t \in T : \E i \in 1..n : list[i] = t
      /\ \A i, j \in 1..n : i < j => list[i].id > list[j].id
  BY ListIsSorted
<1>3. size \in Nat /\ size > 0
  <2>1. 1 \in Nat /\ 1 > 0
    OBVIOUS
  <2>2. QED
    BY <1>1, <2>1, PageIs
<1> HIDE DEF n, list, T
<1>4. /\ pages \in Nat /\ n <= pages * size
      /\ \A m \in 1..pages : off(m) < n
      /\ \A m \in 1..(pages - 1) : off(m) + size <= n
      /\ \A q \in 1..n : \E m \in 1..pages : off(m) < q /\ q <= off(m) + size
  <2> HIDE DEF size
  <2>1. QED
    BY <1>2, <1>3, PagesAre
<1>5. ASSUME NEW m \in 1..(pages + 1)
      PROVE  /\ off(m) \in Nat
             /\ page[m] \in Seq(T) /\ DOMAIN page[m] = 1..Len(page[m])
             /\ Len(page[m]) = IF n <= off(m) THEN 0
                               ELSE IF off(m) + size <= n THEN size ELSE n - off(m)
             /\ Len(page[m]) <= size
             /\ \A i \in 1..Len(page[m]) :
                  off(m) + i \in 1..n /\ page[m][i] = list[off(m) + i]
  <2> HIDE DEF pages
  <2>1. m \in Nat /\ m > 0
    BY <1>4
  <2>2. page[m] = PageOf(p, m, limit)
    OBVIOUS
  <2> HIDE DEF page
  <2> DEFINE it == PageOf(p, m, limit)
             skipped == (m - 1) * size
  <2>3. /\ skipped \in Nat
        /\ it \in Seq(T) /\ DOMAIN it = 1..Len(it)
        /\ Len(it) = IF n <= skipped THEN 0
                     ELSE IF skipped + size <= n THEN size ELSE n - skipped
        /\ \A i \in 1..Len(it) : skipped + i \in 1..n /\ it[i] = list[skipped + i]
    BY <1>1, <2>1, PageIs DEF size, n, list, T
  <2>4. off(m) = skipped
    OBVIOUS
  <2> HIDE DEF it, skipped, off
  <2>5. Len(it) <= size
    BY <1>2, <1>3, <2>3
  <2>6. it = page[m]
    BY <2>2 DEF it
  <2>7. QED
    BY <2>3, <2>4, <2>5, <2>6
<1>6. \A m, k \in 1..pages : m < k => off(m) + size <= off(k)
  <2> TAKE m, k \in 1..pages
  <2> HAVE m < k
  <2> HIDE DEF size, pages
  <2>1. m \in Int /\ k - 1 \in Int /\ m <= k - 1
    BY <1>4
  <2>2. size * m <= size * (k - 1)
    BY <1>3, <2>1, FactorLess
  <2>3. size * (m - 1) = size * m - size /\ size * m \in Int /\ size * (m - 1) \in Int
    BY <1>3, <2>1
  <2>4. off(m) = size * (m - 1) /\ off(k) = size * (k - 1)
    BY <1>3, <2>1
  <2>5. QED
    BY <1>3, <2>2, <2>3, <2>4
<1> HIDE DEF size, pages, page, off
<1>7. \A m \in 1..pages : \A i \in 1..Len(page[m]) : <<m, i>> \in shown
  BY <1>4, <1>5
<1>8. \A s \in shown : /\ s[1] \in 1..pages /\ s[1] \in 1..(pages + 1)
                       /\ s[2] \in 1..Len(page[s[1]])
  <2> TAKE s \in shown
  <2>1. PICK m \in 1..pages : \E i \in DOMAIN page[m] : s = <<m, i>>
    OBVIOUS
  <2>2. m \in 1..(pages + 1)
    BY <1>4
  <2>3. s[1] = m /\ s[2] \in DOMAIN page[m]
    BY <2>1
  <2>4. QED
    BY <1>5, <2>2, <2>3
<1> HIDE DEF shown
<1>9. {page[s[1]][s[2]] : s \in shown} = T
  <2>1. ASSUME NEW s \in shown PROVE page[s[1]][s[2]] \in T
    <3>1. page[s[1]] \in Seq(T) /\ s[2] \in 1..Len(page[s[1]])
      BY <1>5, <1>8
    <3>2. QED
      BY <3>1
  <2>2. ASSUME NEW t \in T PROVE \E s \in shown : page[s[1]][s[2]] = t
    <3>1. PICK q \in 1..n : list[q] = t
      BY <1>2
    <3>2. PICK m \in 1..pages : off(m) < q /\ q <= off(m) + size
      BY <1>4
    <3>3. m \in 1..(pages + 1)
      BY <1>4
    <3>4. /\ off(m) \in Nat
          /\ Len(page[m]) = IF n <= off(m) THEN 0
                            ELSE IF off(m) + size <= n THEN size ELSE n - off(m)
      BY <1>5, <3>3
    <3>5. q - off(m) \in 1..Len(page[m]) /\ off(m) + (q - off(m)) = q
      BY <1>2, <1>3, <3>2, <3>4
    <3>6. page[m][q - off(m)] = t
      BY <1>5, <3>1, <3>3, <3>5
    <3>7. <<m, q - off(m)>> \in shown
      BY <1>7, <3>5
    <3>8. QED
      BY <3>6, <3>7
  <2>3. QED
    BY <2>1, <2>2
<1>10. ASSUME NEW s \in shown, NEW r \in shown,
              s[1] < r[1] \/ (s[1] = r[1] /\ s[2] < r[2])
       PROVE  page[s[1]][s[2]].id > page[r[1]][r[2]].id
  <2> DEFINE i == off(s[1]) + s[2]
             j == off(r[1]) + r[2]
  <2>1. /\ s[1] \in 1..pages /\ s[1] \in 1..(pages + 1) /\ s[2] \in 1..Len(page[s[1]])
        /\ r[1] \in 1..pages /\ r[1] \in 1..(pages + 1) /\ r[2] \in 1..Len(page[r[1]])
    BY <1>8
  <2>2. /\ i \in 1..n /\ page[s[1]][s[2]] = list[i]
        /\ j \in 1..n /\ page[r[1]][r[2]] = list[j]
        /\ off(s[1]) \in Nat /\ off(r[1]) \in Nat
    BY <1>5, <2>1
  <2>3. s[2] <= size /\ s[2] \in Nat /\ r[2] \in Nat /\ r[2] > 0
    <3>1. Len(page[s[1]]) <= size /\ page[s[1]] \in Seq(T)
      BY <1>5, <2>1
    <3>2. Len(page[s[1]]) \in Nat
      BY <3>1
    <3>3. s[2] \in Int /\ r[2] \in Int /\ r[2] >= 1 /\ s[2] >= 1 /\ s[2] <= Len(page[s[1]])
      BY <2>1
    <3>4. QED
      BY <1>3, <3>1, <3>2, <3>3
  <2>4. i < j
    <3>1. CASE s[1] < r[1]
      <4>1. off(s[1]) + size <= off(r[1])
        BY <1>6, <2>1, <3>1
      <4>2. QED
        BY <1>3, <2>2, <2>3, <4>1
    <3>2. CASE s[1] = r[1] /\ s[2] < r[2]
      BY <2>2, <2>3, <3>2
    <3>3. QED
      BY <1>10, <3>1, <3>2
  <2> HIDE DEF i, j
  <2>5. list[i].id > list[j].id
    BY <1>2, <2>2, <2>4
  <2>6. QED
    BY <2>2, <2>5
<1>11. ASSUME NEW m \in 1..(pages - 1) PROVE Len(page[m]) = size
  <2>1. m \in 1..(pages + 1) /\ off(m) + size <= n
    BY <1>4
  <2>2. off(m) \in Nat
    BY <1>5, <2>1
  <2>3. Len(page[m]) = IF n <= off(m) THEN 0
                       ELSE IF off(m) + size <= n THEN size ELSE n - off(m)
    BY <1>5, <2>1
  <2>4. QED
    BY <1>2, <1>3, <2>1, <2>2, <2>3
<1>12. page[pages + 1] = <<>>
  <2> DEFINE m == pages + 1
  <2>1. m \in 1..(pages + 1) /\ off(m) = pages * size
    <3>1. (pages + 1) - 1 = pages
      BY <1>4
    <3>2. QED
      BY <1>4, <3>1 DEF off
  <2> HIDE DEF m
  <2>2. /\ page[m] \in Seq(T)
        /\ Len(page[m]) = IF n <= off(m) THEN 0
                          ELSE IF off(m) + size <= n THEN size ELSE n - off(m)
    BY <1>5, <2>1
  <2>3. Len(page[m]) = 0
    BY <1>4, <2>1, <2>2
  <2>4. page[m] = <<>>
    BY <2>2, <2>3
  <2>5. QED
    BY <2>4 DEF m
<1>13. QED
  BY <1>9, <1>10, <1>11, <1>12 DEF size, pages, page, shown, n, T

\* Whatever is bound, edited or taken over: a task is listed for the person who
\* owns its account, who may open and cancel it, and for nobody else; the directory
\* counts the tasks of the list; and the pages show each of them once.
THEOREM ViewsAlwaysAgree == PeopleSpec => []ViewsAgree
<1>1. PeopleInit => PeopleOK
  BY DEF PeopleInit, PeopleOK, GoodRows
<1>2. PeopleOK /\ [PeopleNext]_peopleVars => PeopleOK'
  BY PeopleStepIsGood
<1>3. PeopleOK => ViewsAgree
  BY DirectoryCounts, ListsAreOwn, PagesShowTheList DEF ViewsAgree
<1>4. QED
  BY <1>1, <1>2, <1>3, PTL DEF PeopleSpec

-----------------------------------------------------------------------------
(***************************************************************************)
(* The nodes, their agents and the sockets that agents speak through.      *)
(***************************************************************************)

Session == [agent : Agent, nr : Socket, server : Nat, taken : BOOLEAN]
Wire == [agent : Agent, nr : Socket, alive : BOOLEAN, registered : BOOLEAN]

FleetTypeOK ==
  /\ rows \in Seq(Agent \cup {gone})
  /\ wires \in SUBSET Wire
  /\ sessions \in Seq(Session)
  /\ filed \in [Job -> Nat]
  /\ obeyed \in SUBSET [by : Agent, job : Job, excused : BOOLEAN]
  /\ handed \in SUBSET Nat

\* An agent has one row, and one session.
OneEach ==
  /\ \A id, other \in DOMAIN rows : rows[id] = rows[other] /\ rows[id] # gone => id = other
  /\ \A i, k \in DOMAIN sessions : sessions[i].agent = sessions[k].agent => i = k
  /\ \A w, v \in wires : w.agent = v.agent /\ w.nr = v.nr => w = v

\* A row that was never given away bears its agent's id, or none any more: of
\* the sessions on it and of the tasks filed under it.
FiledWhereTheyRun ==
  /\ \A id \in handed : id \in DOMAIN rows
  /\ \A i \in DOMAIN sessions :
       /\ sessions[i].server \in DOMAIN rows
       /\ sessions[i].server \in handed \/ rows[sessions[i].server] \in {sessions[i].agent, gone}
  /\ \A i, k \in DOMAIN sessions :
       sessions[i].server = sessions[k].server /\ sessions[i].server \notin handed => i = k
  /\ \A j \in Job : filed[j] # None =>
       /\ filed[j] \in DOMAIN rows
       /\ filed[j] \notin handed =>
            /\ rows[filed[j]] \in {NodeOf(j), gone}
            /\ \A i \in DOMAIN sessions :
                 sessions[i].server = filed[j] => sessions[i].agent = NodeOf(j)

\* A session has its socket, and its row unless that was taken away.
SessionsAreBacked ==
  \A i \in DOMAIN sessions :
    /\ \E w \in wires : w.agent = sessions[i].agent /\ w.nr = sessions[i].nr /\ w.registered
    /\ ~sessions[i].taken => rows[sessions[i].server] = sessions[i].agent

CommandsWereRight == \A c \in obeyed : c.by = NodeOf(c.job) \/ c.excused

FleetInv == FleetTypeOK /\ OneEach /\ FiledWhereTheyRun /\ SessionsAreBacked /\ CommandsWereRight

-----------------------------------------------------------------------------
\* Sessions, one by one.
LEMMA SessionsAreTyped ==
  ASSUME FleetTypeOK, NEW i \in DOMAIN sessions
  PROVE  /\ sessions[i] \in Session /\ sessions[i].agent \in Agent /\ sessions[i].nr \in Socket
         /\ sessions[i].server \in Nat /\ sessions[i].taken \in BOOLEAN
<1>1. sessions \in Seq(Session)
  BY DEF FleetTypeOK
<1>2. sessions[i] \in Session
  BY <1>1
<1>3. QED
  BY <1>2 DEF Session

\* The place of an agent's session.
LEMMA PlaceOfSession ==
  ASSUME FleetTypeOK, NEW a
  PROVE  /\ SessionOf(a) \in Nat
         /\ SessionOf(a) = 0 => \A i \in DOMAIN sessions : sessions[i].agent # a
         /\ SessionOf(a) # 0 => SessionOf(a) \in DOMAIN sessions /\ sessions[SessionOf(a)].agent = a
<1> DEFINE I == {i \in 1..Len(sessions) : sessions[i].agent = a}
<1>1. SessionOf(a) = IF I # {} THEN Min(I) ELSE 0
  BY DEF SessionOf, SelectInSeq
<1>2. Len(sessions) \in Nat /\ DOMAIN sessions = 1..Len(sessions)
  BY DEF FleetTypeOK
<1>3. I \in SUBSET Nat
  BY <1>2
<1>4. CASE I = {}
  BY <1>1, <1>2, <1>4
<1>5. CASE I # {}
  <2>1. Min(I) \in I
    BY <1>3, <1>5, MinIsSmallest
  <2>2. QED
    BY <1>1, <1>2, <1>5, <2>1
<1>6. QED
  BY <1>4, <1>5

\* The place of the first session on a server.
LEMMA PlaceOnServer ==
  ASSUME FleetTypeOK, NEW id
  PROVE  SessionOn(id) # 0 => SessionOn(id) \in DOMAIN sessions /\ sessions[SessionOn(id)].server = id
<1> DEFINE I == {i \in 1..Len(sessions) : sessions[i].server = id}
<1>1. SessionOn(id) = IF I # {} THEN Min(I) ELSE 0
  BY DEF SessionOn, SelectInSeq
<1>2. Len(sessions) \in Nat /\ DOMAIN sessions = 1..Len(sessions)
  BY DEF FleetTypeOK
<1>3. I \in SUBSET Nat
  BY <1>2
<1>4. CASE I = {}
  BY <1>1, <1>4
<1>5. CASE I # {}
  <2>1. Min(I) \in I
    BY <1>3, <1>5, MinIsSmallest
  <2>2. QED
    BY <1>1, <1>2, <1>5, <2>1
<1>6. QED
  BY <1>4, <1>5


\* The row of an agent.
LEMMA RowOfAgent ==
  ASSUME FleetTypeOK, OneEach, NEW a \in Agent
  PROVE  /\ getServerByAgentId(a) \in Nat
         /\ getServerByAgentId(a) = None => \A id \in DOMAIN rows : rows[id] # a
         /\ getServerByAgentId(a) # None =>
              getServerByAgentId(a) \in DOMAIN rows /\ rows[getServerByAgentId(a)] = a
<1>1. DOMAIN rows = 1..Len(rows) /\ Len(rows) \in Nat
  BY DEF FleetTypeOK
<1>2. a \in ToSet(rows) <=> \E id \in DOMAIN rows : rows[id] = a
  BY DEF ToSet
<1>3. CASE a \in ToSet(rows)
  <2>1. getServerByAgentId(a) = CHOOSE id \in DOMAIN rows : rows[id] = a
    BY <1>3 DEF getServerByAgentId
  <2>2. getServerByAgentId(a) \in DOMAIN rows /\ rows[getServerByAgentId(a)] = a
    BY <1>2, <1>3, <2>1
  <2>3. QED
    BY <1>1, <2>2 DEF None
<1>4. CASE a \notin ToSet(rows)
  BY <1>2, <1>4 DEF getServerByAgentId, None
<1>5. QED
  BY <1>3, <1>4

-----------------------------------------------------------------------------
(* The nodes. *)

\* A new connection has a number of its own.
LEMMA ConnectKeeps ==
  ASSUME FleetInv, NEW a \in Agent, Connect(a)
  PROVE  FleetInv'
<1>1. PICK nr \in Socket \ {w.nr : w \in {x \in wires : x.agent = a}} :
        wires' = wires \cup {[agent |-> a, nr |-> nr, alive |-> TRUE, registered |-> FALSE]}
  BY DEF Connect
<1>2. UNCHANGED <<rows, sessions, filed, obeyed, handed>>
  BY DEF Connect
<1> DEFINE wire == [agent |-> a, nr |-> nr, alive |-> TRUE, registered |-> FALSE]
<1>3. wires' = wires \cup {wire} /\ wire \in Wire /\ wire.agent = a /\ wire.nr = nr
  BY <1>1 DEF Wire
<1> HIDE DEF wire
<1>4. FleetTypeOK'
  BY <1>2, <1>3 DEF FleetInv, FleetTypeOK
<1>41. \A w \in wires : w.agent = a => w.nr # nr
  BY <1>1
<1>5. OneEach'
  BY <1>2, <1>3, <1>41 DEF FleetInv, OneEach
<1>6. SessionsAreBacked'
  BY <1>2, <1>3 DEF FleetInv, SessionsAreBacked
<1>7. FiledWhereTheyRun' /\ CommandsWereRight'
  BY <1>2 DEF FleetInv, FiledWhereTheyRun, CommandsWereRight
<1>8. QED
  BY <1>4, <1>5, <1>6, <1>7 DEF FleetInv

\* The session outlives its socket until the server notices.
LEMMA BreakKeeps ==
  ASSUME FleetInv, NEW w \in wires, ConnectionBreaks(w)
  PROVE  FleetInv'
<1>1. /\ wires' = (wires \ {w}) \cup (IF w.registered THEN {[w EXCEPT !.alive = FALSE]} ELSE {})
      /\ UNCHANGED <<rows, sessions, filed, obeyed, handed>>
  BY DEF ConnectionBreaks
<1>2. w \in Wire
  BY DEF FleetInv, FleetTypeOK
<1>3. FleetTypeOK'
  BY <1>1, <1>2 DEF FleetInv, FleetTypeOK, Wire
<1> DEFINE broken == [w EXCEPT !.alive = FALSE]
<1>4. /\ broken.agent = w.agent /\ broken.nr = w.nr /\ broken.registered = w.registered
      /\ wires' = (wires \ {w}) \cup (IF w.registered THEN {broken} ELSE {})
  BY <1>1, <1>2 DEF Wire
<1> HIDE DEF broken
<1>5. OneEach'
  <2>1. ASSUME NEW u \in wires', NEW v \in wires', u.agent = v.agent, u.nr = v.nr
        PROVE  u = v
    BY <1>4, <2>1 DEF FleetInv, OneEach
  <2>2. QED
    BY <1>1, <2>1 DEF FleetInv, OneEach
<1>6. SessionsAreBacked'
  <2>1. ASSUME NEW v \in wires, v.registered
        PROVE  \E u \in wires' : u.agent = v.agent /\ u.nr = v.nr /\ u.registered
    BY <1>4, <2>1
  <2>2. QED
    BY <1>1, <2>1 DEF FleetInv, SessionsAreBacked
<1>7. FiledWhereTheyRun' /\ CommandsWereRight'
  BY <1>1 DEF FleetInv, FiledWhereTheyRun, CommandsWereRight
<1>8. QED
  BY <1>3, <1>5, <1>6, <1>7 DEF FleetInv

\* The rows and sessions after a registration.
RegisteredAs(w, id) ==
  LET x == [agent |-> w.agent, nr |-> w.nr, taken |-> FALSE, server |-> id]
  IN  /\ id \in DOMAIN rows' /\ rows'[id] = w.agent
      /\ \/ rows' = rows
         \/ rows' = Append(rows, w.agent) /\ id = Len(rows) + 1
            /\ (\A other \in DOMAIN rows : rows[other] # w.agent)
      /\ \/ /\ \A i \in DOMAIN sessions : sessions[i].agent # w.agent
            /\ sessions' = Append(sessions, x)
         \/ \E k \in DOMAIN sessions : /\ sessions[k].agent = w.agent
                                       /\ sessions' = [sessions EXCEPT ![k] = x]

LEMMA RegisterMeans ==
  ASSUME FleetInv, NEW w \in wires, register(w)
  PROVE  /\ \E id : RegisteredAs(w, id)
         /\ w \in Wire /\ wires' = (wires \ {w}) \cup {[w EXCEPT !.registered = TRUE]}
         /\ UNCHANGED <<filed, obeyed, handed>>
<1>1. w \in Wire /\ w.agent \in Agent
  BY DEF FleetInv, FleetTypeOK, Wire
<1>2. FleetTypeOK /\ OneEach
  BY DEF FleetInv
<1>3. /\ Len(rows) \in Nat /\ DOMAIN rows = 1..Len(rows)
      /\ Append(rows, w.agent) \in Seq(Agent \cup {gone})
      /\ Len(Append(rows, w.agent)) = Len(rows) + 1
      /\ Append(rows, w.agent)[Len(rows) + 1] = w.agent
      /\ Append(rows, w.agent) # rows
      /\ Len(rows) + 1 \in DOMAIN Append(rows, w.agent)
  BY <1>1, <1>2 DEF FleetTypeOK
<1> DEFINE known == getServerByAgentId(w.agent)
           id == IF rows' = rows THEN known ELSE Len(rows')
           x == [agent |-> w.agent, nr |-> w.nr, taken |-> FALSE, server |-> id]
<1>4. /\ known = None => \A other \in DOMAIN rows : rows[other] # w.agent
      /\ known # None => known \in DOMAIN rows /\ rows[known] = w.agent
  BY <1>1, <1>2, RowOfAgent
<1>5. IF known = None THEN rows' = Append(rows, w.agent) ELSE rows' = rows
  BY DEF register
<1>6. attachSession(x)
  BY DEF register
<1>7. /\ SessionOf(w.agent) = 0 => \A i \in DOMAIN sessions : sessions[i].agent # w.agent
      /\ SessionOf(w.agent) # 0 => /\ SessionOf(w.agent) \in DOMAIN sessions
                                   /\ sessions[SessionOf(w.agent)].agent = w.agent
  BY <1>2, PlaceOfSession
<1>8. /\ id \in DOMAIN rows' /\ rows'[id] = w.agent
      /\ \/ rows' = rows
         \/ rows' = Append(rows, w.agent) /\ id = Len(rows) + 1
            /\ (\A other \in DOMAIN rows : rows[other] # w.agent)
  BY <1>3, <1>4, <1>5
<1>9. \/ /\ \A i \in DOMAIN sessions : sessions[i].agent # w.agent
         /\ sessions' = Append(sessions, x)
      \/ \E k \in DOMAIN sessions : /\ sessions[k].agent = w.agent
                                    /\ sessions' = [sessions EXCEPT ![k] = x]
  <2>1. x.agent = w.agent
    OBVIOUS
  <2> HIDE DEF x
  <2>2. sessions' = IF SessionOf(w.agent) = 0 THEN Append(sessions, x)
                    ELSE [sessions EXCEPT ![SessionOf(w.agent)] = x]
    BY <1>6, <2>1 DEF attachSession
  <2>3. QED
    BY <1>7, <2>2
<1>10. RegisteredAs(w, id)
  <2> HIDE DEF id
  <2>1. QED
    BY <1>8, <1>9 DEF RegisteredAs
<1>11. QED
  BY <1>1, <1>10 DEF register


\* A registration files the session of its agent, and no other, under the row
\* that bears the agent's id.
LEMMA RegisterKeeps ==
  ASSUME FleetInv, NEW w \in wires, register(w)
  PROVE  FleetInv'
<1>1. PICK id : RegisteredAs(w, id)
  BY RegisterMeans
<1>2. /\ w \in Wire /\ wires' = (wires \ {w}) \cup {[w EXCEPT !.registered = TRUE]}
      /\ UNCHANGED <<filed, obeyed, handed>>
  BY RegisterMeans
<1> DEFINE wire == [w EXCEPT !.registered = TRUE]
           x == [agent |-> w.agent, nr |-> w.nr, taken |-> FALSE, server |-> id]
<1>3. /\ wires' = (wires \ {w}) \cup {wire} /\ wire \in Wire
      /\ wire.agent = w.agent /\ wire.nr = w.nr /\ wire.registered
  BY <1>2 DEF Wire
<1>4. FleetTypeOK /\ OneEach /\ FiledWhereTheyRun /\ SessionsAreBacked /\ CommandsWereRight
  BY DEF FleetInv
<1>5. /\ Len(rows) \in Nat /\ DOMAIN rows = 1..Len(rows) /\ rows \in Seq(Agent \cup {gone})
      /\ Len(sessions) \in Nat /\ DOMAIN sessions = 1..Len(sessions) /\ sessions \in Seq(Session)
      /\ w.agent \in Agent /\ w.nr \in Socket /\ w.agent # gone
  BY <1>2, <1>4, FleetAssumption DEF FleetTypeOK, Wire
<1>6. /\ rows' \in Seq(Agent \cup {gone}) /\ id \in DOMAIN rows' /\ id \in Nat /\ rows'[id] = w.agent
      /\ \A other \in DOMAIN rows : other \in DOMAIN rows' /\ rows'[other] = rows[other]
      /\ \A other \in DOMAIN rows' : other \in DOMAIN rows \/ other = id
      /\ id \in DOMAIN rows \/ \A other \in DOMAIN rows : rows[other] # w.agent
  <2>1. CASE rows' = rows
    BY <1>1, <1>5, <2>1 DEF RegisteredAs
  <2>2. CASE rows' = Append(rows, w.agent) /\ id = Len(rows) + 1
             /\ (\A other \in DOMAIN rows : rows[other] # w.agent)
    <3>1. /\ rows' \in Seq(Agent \cup {gone}) /\ DOMAIN rows' = 1..Len(rows) + 1
          /\ rows'[id] = w.agent
          /\ \A other \in 1..Len(rows) : rows'[other] = rows[other]
      BY <1>5, <2>2
    <3>2. QED
      BY <1>5, <2>2, <3>1
  <2>3. QED
    BY <1>1, <2>1, <2>2 DEF RegisteredAs
<1>7. /\ x \in Session /\ x.agent = w.agent /\ x.nr = w.nr /\ x.server = id /\ x.taken = FALSE
  BY <1>5, <1>6 DEF Session
<1>8. /\ \/ /\ \A i \in DOMAIN sessions : sessions[i].agent # w.agent
            /\ sessions' = Append(sessions, x)
         \/ \E k \in DOMAIN sessions : /\ sessions[k].agent = w.agent
                                       /\ sessions' = [sessions EXCEPT ![k] = x]
  BY <1>1 DEF RegisteredAs
<1> HIDE DEF wire, x
<1> DEFINE Filed ==
             /\ sessions' \in Seq(Session)
             /\ \A i \in DOMAIN sessions' :
                  sessions'[i] = x \/ (i \in DOMAIN sessions /\ sessions'[i] = sessions[i]
                                       /\ sessions[i].agent # w.agent)
             /\ \A i, k \in DOMAIN sessions' : sessions'[i] = x /\ sessions'[k] = x => i = k
<1>9. Filed
  <2>1. CASE /\ \A i \in DOMAIN sessions : sessions[i].agent # w.agent
             /\ sessions' = Append(sessions, x)
    <3>1. /\ sessions' \in Seq(Session) /\ DOMAIN sessions' = 1..Len(sessions) + 1
          /\ sessions'[Len(sessions) + 1] = x
          /\ \A i \in 1..Len(sessions) : sessions'[i] = sessions[i]
      BY <1>5, <1>7, <2>1
    <3>2. QED
      BY <1>5, <1>7, <2>1, <3>1
  <2>2. ASSUME NEW k \in DOMAIN sessions, sessions[k].agent = w.agent,
               sessions' = [sessions EXCEPT ![k] = x]
        PROVE  Filed
    <3>1. /\ sessions' \in Seq(Session) /\ DOMAIN sessions' = DOMAIN sessions
          /\ sessions'[k] = x
          /\ \A i \in DOMAIN sessions \ {k} : sessions'[i] = sessions[i]
      BY <1>5, <1>7, <2>2
    <3>2. \A i \in DOMAIN sessions \ {k} : sessions[i].agent # w.agent
      BY <1>4, <2>2 DEF OneEach
    <3>3. QED
      BY <1>7, <3>1, <3>2
  <2>3. QED
    BY <1>8, <2>1, <2>2
<1>10. FleetTypeOK'
  BY <1>2, <1>3, <1>4, <1>6, <1>9 DEF FleetTypeOK
<1>11. OneEach'
  <2>1. \A o, p \in DOMAIN rows' : rows'[o] = rows'[p] /\ rows'[o] # gone => o = p
    BY <1>4, <1>6 DEF OneEach
  <2>2. \A i, k \in DOMAIN sessions' : sessions'[i].agent = sessions'[k].agent => i = k
    BY <1>4, <1>7, <1>9 DEF OneEach
  <2>3. \A u, v \in wires' : u.agent = v.agent /\ u.nr = v.nr => u = v
    BY <1>3, <1>4 DEF OneEach
  <2>4. QED
    BY <2>1, <2>2, <2>3 DEF OneEach
<1>12. FiledWhereTheyRun'
  <2>1. \A o \in handed' : o \in DOMAIN rows'
    BY <1>2, <1>4, <1>6 DEF FiledWhereTheyRun
  <2>2. ASSUME NEW i \in DOMAIN sessions'
        PROVE  /\ sessions'[i].server \in DOMAIN rows'
               /\ sessions'[i].server \in handed' \/ rows'[sessions'[i].server] \in {sessions'[i].agent, gone}
    BY <1>2, <1>4, <1>6, <1>7, <1>9 DEF FiledWhereTheyRun
  <2>3. ASSUME NEW i \in DOMAIN sessions, sessions[i].server = id, id \notin handed
        PROVE  sessions[i].agent = w.agent
    <3>1. id \in DOMAIN rows /\ rows[id] \in {sessions[i].agent, gone}
      BY <1>4, <2>3 DEF FiledWhereTheyRun
    <3>2. QED
      BY <1>5, <1>6, <3>1
  <2>4. ASSUME NEW i \in DOMAIN sessions', NEW k \in DOMAIN sessions',
               sessions'[i].server = sessions'[k].server, sessions'[i].server \notin handed'
        PROVE  i = k
    BY <1>2, <1>4, <1>7, <1>9, <2>3, <2>4 DEF FiledWhereTheyRun
  <2>5. ASSUME NEW j \in Job, filed'[j] # None
        PROVE  /\ filed'[j] \in DOMAIN rows'
               /\ filed'[j] \notin handed' =>
                    /\ rows'[filed'[j]] \in {NodeOf(j), gone}
                    /\ \A i \in DOMAIN sessions' :
                         sessions'[i].server = filed'[j] => sessions'[i].agent = NodeOf(j)
    <3>1. /\ filed[j] \in DOMAIN rows
          /\ filed[j] \notin handed =>
               /\ rows[filed[j]] \in {NodeOf(j), gone}
               /\ \A i \in DOMAIN sessions :
                    sessions[i].server = filed[j] => sessions[i].agent = NodeOf(j)
      BY <1>2, <1>4, <2>5 DEF FiledWhereTheyRun
    <3>2. filed'[j] = filed[j] /\ handed' = handed /\ rows'[filed[j]] = rows[filed[j]]
      BY <1>2, <1>6, <3>1
    <3>3. ASSUME filed[j] \notin handed, NEW i \in DOMAIN sessions', sessions'[i].server = filed[j]
          PROVE  sessions'[i].agent = NodeOf(j)
      <4>1. CASE sessions'[i] = x
        BY <1>5, <1>6, <1>7, <3>1, <3>2, <3>3, <4>1
      <4>2. CASE i \in DOMAIN sessions /\ sessions'[i] = sessions[i]
        BY <3>1, <3>3, <4>2
      <4>3. QED
        BY <1>9, <4>1, <4>2
    <3>4. QED
      BY <1>6, <3>1, <3>2, <3>3
  <2>6. QED
    BY <2>1, <2>2, <2>4, <2>5 DEF FiledWhereTheyRun
<1>13. SessionsAreBacked'
  <2> SUFFICES ASSUME NEW i \in DOMAIN sessions'
               PROVE  /\ \E u \in wires' : u.agent = sessions'[i].agent /\ u.nr = sessions'[i].nr
                                           /\ u.registered
                      /\ ~sessions'[i].taken => rows'[sessions'[i].server] = sessions'[i].agent
    BY DEF SessionsAreBacked
  <2>1. CASE sessions'[i] = x
    BY <1>3, <1>6, <1>7, <2>1
  <2>2. CASE i \in DOMAIN sessions /\ sessions'[i] = sessions[i] /\ sessions[i].agent # w.agent
    <3>1. PICK u \in wires : u.agent = sessions[i].agent /\ u.nr = sessions[i].nr /\ u.registered
      BY <1>4, <2>2 DEF SessionsAreBacked
    <3>2. u \in wires'
      BY <1>3, <2>2, <3>1
    <3>3. ~sessions[i].taken => rows[sessions[i].server] = sessions[i].agent
      BY <1>4, <2>2 DEF SessionsAreBacked
    <3>4. sessions[i].server \in DOMAIN rows
      BY <1>4, <2>2 DEF FiledWhereTheyRun
    <3>5. QED
      BY <1>6, <2>2, <3>1, <3>2, <3>3, <3>4
  <2>3. QED
    BY <1>9, <2>1, <2>2
<1>14. CommandsWereRight'
  BY <1>2, <1>4 DEF CommandsWereRight
<1>15. QED
  BY <1>10, <1>11, <1>12, <1>13, <1>14 DEF FleetInv


\* A report files the task under the row of the session of its node.
LEMMA ReportKeeps ==
  ASSUME FleetInv, NEW w \in wires, NEW j \in Job, report(w, j)
  PROVE  FleetInv'
<1>1. /\ NodeOf(j) = w.agent /\ SessionOf(w.agent) # 0
      /\ filed' = [filed EXCEPT ![j] = sessions[SessionOf(w.agent)].server]
      /\ UNCHANGED <<rows, wires, sessions, obeyed, handed>>
  BY DEF report, getSession
<1>2. FleetTypeOK /\ OneEach /\ FiledWhereTheyRun /\ SessionsAreBacked /\ CommandsWereRight
  BY DEF FleetInv
<1>3. PICK i \in DOMAIN sessions : /\ i = SessionOf(w.agent) /\ sessions[i].agent = w.agent
  BY <1>1, <1>2, PlaceOfSession
<1>4. sessions[i] \in Session /\ sessions[i].server \in Nat
  BY <1>2, SessionsAreTyped
<1> DEFINE id == sessions[i].server
<1>5. /\ filed' \in [Job -> Nat] /\ filed'[j] = id
      /\ \A other \in Job \ {j} : filed'[other] = filed[other]
  BY <1>1, <1>2, <1>3, <1>4 DEF FleetTypeOK
<1>6. /\ id \in DOMAIN rows
      /\ id \notin handed => /\ rows[id] \in {NodeOf(j), gone}
                             /\ \A k \in DOMAIN sessions :
                                  sessions[k].server = id => sessions[k].agent = NodeOf(j)
  BY <1>1, <1>2, <1>3 DEF FiledWhereTheyRun
<1> HIDE DEF id
<1>7. FiledWhereTheyRun'
  <2>1. ASSUME NEW o \in Job, filed'[o] # None
        PROVE  /\ filed'[o] \in DOMAIN rows
               /\ filed'[o] \notin handed =>
                    /\ rows[filed'[o]] \in {NodeOf(o), gone}
                    /\ \A k \in DOMAIN sessions :
                         sessions[k].server = filed'[o] => sessions[k].agent = NodeOf(o)
    <3>1. CASE o = j
      BY <1>5, <1>6, <3>1
    <3>2. CASE o # j
      BY <1>2, <1>5, <2>1, <3>2 DEF FiledWhereTheyRun
    <3>3. QED
      BY <3>1, <3>2
  <2>2. QED
    BY <1>1, <1>2, <2>1 DEF FiledWhereTheyRun
<1>8. FleetTypeOK'
  BY <1>1, <1>2, <1>5 DEF FleetTypeOK
<1>9. OneEach' /\ SessionsAreBacked' /\ CommandsWereRight'
  BY <1>1, <1>2 DEF OneEach, SessionsAreBacked, CommandsWereRight
<1>10. QED
  BY <1>7, <1>8, <1>9 DEF FleetInv

\* The end of a socket takes the session of its agent away, and no other.
LEMMA DisconnectedKeeps ==
  ASSUME FleetInv, NEW w \in wires, disconnected(w)
  PROVE  FleetInv'
<1>1. /\ wires' = wires \ {w} /\ UNCHANGED <<rows, filed, obeyed, handed>>
      /\ sessions' = IF SessionOf(w.agent) = 0 THEN sessions
                     ELSE RemoveAt(sessions, SessionOf(w.agent))
  BY DEF disconnected, detachSession
<1>2. FleetTypeOK /\ OneEach /\ FiledWhereTheyRun /\ SessionsAreBacked /\ CommandsWereRight
  BY DEF FleetInv
<1>3. /\ SessionOf(w.agent) \in Nat
      /\ SessionOf(w.agent) = 0 => \A i \in DOMAIN sessions : sessions[i].agent # w.agent
      /\ SessionOf(w.agent) # 0 => /\ SessionOf(w.agent) \in DOMAIN sessions
                                   /\ sessions[SessionOf(w.agent)].agent = w.agent
  BY <1>2, PlaceOfSession
<1>4. sessions \in Seq(Session) /\ Len(sessions) \in Nat /\ DOMAIN sessions = 1..Len(sessions)
  BY <1>2 DEF FleetTypeOK
<1> DEFINE n == SessionOf(w.agent)
           old(i) == IF n = 0 \/ i < n THEN i ELSE i + 1
<1>5. /\ sessions' \in Seq(Session)
      /\ \A i \in DOMAIN sessions' : /\ old(i) \in DOMAIN sessions /\ sessions'[i] = sessions[old(i)]
                                     /\ sessions[old(i)].agent # w.agent
      /\ \A i, k \in DOMAIN sessions' : old(i) = old(k) => i = k
  <2> HIDE DEF n
  <2>1. CASE n = 0
    BY <1>1, <1>3, <1>4, <2>1 DEF n
  <2>2. CASE n # 0
    <3>1. n \in 1..Len(sessions) /\ sessions[n].agent = w.agent /\ sessions' = RemoveAt(sessions, n)
      BY <1>1, <1>3, <1>4, <2>2 DEF n
    <3>2. /\ RemoveAt(sessions, n) \in Seq(Session)
          /\ Len(RemoveAt(sessions, n)) = Len(sessions) - 1
          /\ \A k \in 1..Len(sessions) - 1 :
               RemoveAt(sessions, n)[k] = IF k < n THEN sessions[k] ELSE sessions[k + 1]
      BY <1>4, <3>1, WithoutOne
    <3>3. sessions' \in Seq(Session) /\ DOMAIN sessions' = 1..Len(sessions) - 1
      BY <3>1, <3>2
    <3>4. ASSUME NEW i \in DOMAIN sessions'
          PROVE  /\ old(i) \in DOMAIN sessions /\ sessions'[i] = sessions[old(i)] /\ old(i) # n
                 /\ i \in Int
      BY <1>4, <2>2, <3>1, <3>2, <3>3
    <3>5. \A i \in DOMAIN sessions' : sessions[old(i)].agent # w.agent
      BY <1>2, <1>4, <3>1, <3>4 DEF OneEach
    <3>6. \A i, k \in DOMAIN sessions' : old(i) = old(k) => i = k
      BY <1>4, <3>1, <3>4
    <3>7. QED
      BY <3>3, <3>4, <3>5, <3>6
  <2>3. QED
    BY <2>1, <2>2
<1> HIDE DEF old
<1>6. FleetTypeOK'
  BY <1>1, <1>2, <1>5 DEF FleetTypeOK
<1>7. OneEach'
  <2>1. \A i, k \in DOMAIN sessions' : sessions'[i].agent = sessions'[k].agent => i = k
    BY <1>2, <1>5 DEF OneEach
  <2>2. QED
    BY <1>1, <1>2, <2>1 DEF OneEach
<1>8. FiledWhereTheyRun'
  <2>1. \A i \in DOMAIN sessions' :
          /\ sessions'[i].server \in DOMAIN rows
          /\ sessions'[i].server \in handed \/ rows[sessions'[i].server] \in {sessions'[i].agent, gone}
    BY <1>2, <1>5 DEF FiledWhereTheyRun
  <2>2. \A i, k \in DOMAIN sessions' :
          sessions'[i].server = sessions'[k].server /\ sessions'[i].server \notin handed => i = k
    BY <1>2, <1>5 DEF FiledWhereTheyRun
  <2>3. ASSUME NEW j \in Job, filed[j] # None
        PROVE  /\ filed[j] \in DOMAIN rows
               /\ filed[j] \notin handed =>
                    /\ rows[filed[j]] \in {NodeOf(j), gone}
                    /\ \A i \in DOMAIN sessions' :
                         sessions'[i].server = filed[j] => sessions'[i].agent = NodeOf(j)
    BY <1>2, <1>5, <2>3 DEF FiledWhereTheyRun
  <2>4. QED
    BY <1>1, <1>2, <2>1, <2>2, <2>3 DEF FiledWhereTheyRun
<1>9. SessionsAreBacked'
  <2> SUFFICES ASSUME NEW i \in DOMAIN sessions'
               PROVE  /\ \E u \in wires' : u.agent = sessions'[i].agent /\ u.nr = sessions'[i].nr
                                           /\ u.registered
                      /\ ~sessions'[i].taken => rows'[sessions'[i].server] = sessions'[i].agent
    BY DEF SessionsAreBacked
  <2>1. PICK u \in wires : /\ u.agent = sessions[old(i)].agent /\ u.nr = sessions[old(i)].nr
                           /\ u.registered
    BY <1>2, <1>5 DEF SessionsAreBacked
  <2>2. u # w
    BY <1>5, <2>1
  <2>3. ~sessions[old(i)].taken => rows[sessions[old(i)].server] = sessions[old(i)].agent
    BY <1>2, <1>5 DEF SessionsAreBacked
  <2>4. QED
    BY <1>1, <1>5, <2>1, <2>2, <2>3
<1>10. CommandsWereRight'
  BY <1>1, <1>2 DEF CommandsWereRight
<1>11. QED
  BY <1>6, <1>7, <1>8, <1>9, <1>10 DEF FleetInv

-----------------------------------------------------------------------------
(* The administrator. *)

\* A new row is nobody's yet.
LEMMA CreateServerKeeps ==
  ASSUME FleetInv, NEW a \in Agent, createServer(a)
  PROVE  FleetInv'
<1>1. /\ rows' = Append(rows, a) /\ a \notin ToSet(rows)
      /\ UNCHANGED <<wires, sessions, filed, obeyed, handed>>
  BY DEF createServer
<1>2. FleetTypeOK /\ OneEach /\ FiledWhereTheyRun /\ SessionsAreBacked /\ CommandsWereRight
  BY DEF FleetInv
<1>3. /\ Len(rows) \in Nat /\ DOMAIN rows = 1..Len(rows) /\ rows \in Seq(Agent \cup {gone})
      /\ \A id \in DOMAIN rows : rows[id] # a
  BY <1>1, <1>2 DEF FleetTypeOK, ToSet
<1>4. /\ rows' \in Seq(Agent \cup {gone})
      /\ \A id \in DOMAIN rows : id \in DOMAIN rows' /\ rows'[id] = rows[id]
      /\ \A id \in DOMAIN rows' : id \in DOMAIN rows \/ (id = Len(rows) + 1 /\ rows'[id] = a)
  BY <1>1, <1>3
<1>5. FleetTypeOK'
  BY <1>1, <1>2, <1>4 DEF FleetTypeOK
<1>6. OneEach'
  <2>1. \A o, p \in DOMAIN rows' : rows'[o] = rows'[p] /\ rows'[o] # gone => o = p
    BY <1>2, <1>3, <1>4 DEF OneEach
  <2>2. QED
    BY <1>1, <1>2, <2>1 DEF OneEach
<1>7. FiledWhereTheyRun'
  BY <1>1, <1>2, <1>4 DEF FiledWhereTheyRun
<1>8. SessionsAreBacked'
  BY <1>1, <1>2, <1>4 DEF SessionsAreBacked, FiledWhereTheyRun
<1>9. CommandsWereRight'
  BY <1>1, <1>2 DEF CommandsWereRight
<1>10. QED
  BY <1>5, <1>6, <1>7, <1>8, <1>9 DEF FleetInv

\* A row that is given away, or deleted, is taken from the sessions on it.
LEMMA RowChanges ==
  ASSUME FleetInv, NEW id \in DOMAIN rows, rows[id] # gone, NEW a \in Agent \cup {gone},
         a # gone => \A other \in DOMAIN rows : rows[other] # a,
         rows' = [rows EXCEPT ![id] = a], sessions' = Taken(id),
         handed' = handed \cup (IF a = gone THEN {} ELSE {id}),
         UNCHANGED <<wires, filed, obeyed>>
  PROVE  FleetInv'
<1>1. FleetTypeOK /\ OneEach /\ FiledWhereTheyRun /\ SessionsAreBacked /\ CommandsWereRight
  BY DEF FleetInv
<1>2. /\ Len(rows) \in Nat /\ DOMAIN rows = 1..Len(rows) /\ rows \in Seq(Agent \cup {gone})
      /\ id \in Nat /\ Len(sessions) \in Nat /\ DOMAIN sessions = 1..Len(sessions)
  BY <1>1 DEF FleetTypeOK
<1>3. /\ rows' \in Seq(Agent \cup {gone}) /\ DOMAIN rows' = DOMAIN rows /\ rows'[id] = a
      /\ \A other \in DOMAIN rows \ {id} : rows'[other] = rows[other]
  BY <1>2
<1>4. /\ DOMAIN sessions' = DOMAIN sessions /\ sessions' \in Seq(Session)
      /\ \A i \in DOMAIN sessions :
           /\ sessions'[i].agent = sessions[i].agent /\ sessions'[i].nr = sessions[i].nr
           /\ sessions'[i].server = sessions[i].server
           /\ sessions'[i].taken = (sessions[i].taken \/ sessions[i].server = id)
  <2>1. \A i \in 1..Len(sessions) : sessions[i] \in Session
    BY <1>1, <1>2, SessionsAreTyped
  <2>2. sessions' = [i \in 1..Len(sessions) |->
                       [sessions[i] EXCEPT !.taken = sessions[i].taken \/ sessions[i].server = id]]
    BY <1>2 DEF Taken
  <2>3. ASSUME NEW i \in 1..Len(sessions)
        PROVE  /\ sessions'[i] \in Session
               /\ sessions'[i].agent = sessions[i].agent /\ sessions'[i].nr = sessions[i].nr
               /\ sessions'[i].server = sessions[i].server
               /\ sessions'[i].taken = (sessions[i].taken \/ sessions[i].server = id)
    <3>1. sessions'[i] = [sessions[i] EXCEPT !.taken = sessions[i].taken \/ sessions[i].server = id]
      BY <2>2
    <3>2. sessions[i] \in [agent : Agent, nr : Socket, server : Nat, taken : BOOLEAN]
      BY <2>1 DEF Session
    <3>3. QED
      BY <3>1, <3>2 DEF Session
  <2>4. DOMAIN sessions' = 1..Len(sessions)
    BY <2>2
  <2>5. sessions' \in Seq(Session)
    <3>1. sessions' = [i \in 1..Len(sessions) |-> sessions'[i]]
      BY <2>2
    <3>2. \A i \in 1..Len(sessions) : sessions'[i] \in Session
      BY <2>3
    <3> HIDE DEF Taken
    <3>3. QED
      BY <1>2, <3>1, <3>2, IsASeq
  <2>6. QED
    BY <1>2, <2>3, <2>4, <2>5
<1>5. FleetTypeOK'
  BY <1>1, <1>2, <1>3, <1>4 DEF FleetTypeOK
<1>6. OneEach'
  <2>1. \A o, p \in DOMAIN rows' : rows'[o] = rows'[p] /\ rows'[o] # gone => o = p
    BY <1>1, <1>3 DEF OneEach
  <2>2. \A i, k \in DOMAIN sessions' : sessions'[i].agent = sessions'[k].agent => i = k
    BY <1>1, <1>4 DEF OneEach
  <2>3. QED
    BY <1>1, <2>1, <2>2 DEF OneEach
<1>7. FiledWhereTheyRun'
  <2>1. \A o \in handed' : o \in DOMAIN rows'
    BY <1>1, <1>3 DEF FiledWhereTheyRun
  <2>2. \A o \in DOMAIN rows : o \notin handed' =>
          o \notin handed /\ (rows'[o] = rows[o] \/ rows'[o] = gone)
    BY <1>3
  <2>3. \A i \in DOMAIN sessions' :
          /\ sessions'[i].server \in DOMAIN rows'
          /\ sessions'[i].server \in handed' \/ rows'[sessions'[i].server] \in {sessions'[i].agent, gone}
    BY <1>1, <1>3, <1>4, <2>2 DEF FiledWhereTheyRun
  <2>4. \A i, k \in DOMAIN sessions' :
          sessions'[i].server = sessions'[k].server /\ sessions'[i].server \notin handed' => i = k
    BY <1>1, <1>4 DEF FiledWhereTheyRun
  <2>5. ASSUME NEW j \in Job, filed[j] # None
        PROVE  /\ filed[j] \in DOMAIN rows'
               /\ filed[j] \notin handed' =>
                    /\ rows'[filed[j]] \in {NodeOf(j), gone}
                    /\ \A i \in DOMAIN sessions' :
                         sessions'[i].server = filed[j] => sessions'[i].agent = NodeOf(j)
    <3>1. /\ filed[j] \in DOMAIN rows
          /\ filed[j] \notin handed =>
               /\ rows[filed[j]] \in {NodeOf(j), gone}
               /\ \A i \in DOMAIN sessions :
                    sessions[i].server = filed[j] => sessions[i].agent = NodeOf(j)
      BY <1>1, <2>5 DEF FiledWhereTheyRun
    <3>2. filed[j] \notin handed' =>
            filed[j] \notin handed /\ (rows'[filed[j]] = rows[filed[j]] \/ rows'[filed[j]] = gone)
      BY <2>2, <3>1
    <3>3. filed[j] \notin handed' =>
            \A i \in DOMAIN sessions' :
              sessions'[i].server = filed[j] => sessions'[i].agent = NodeOf(j)
      BY <1>4, <3>1, <3>2
    <3>4. QED
      BY <1>3, <3>1, <3>2, <3>3
  <2>6. QED
    BY <1>1, <2>1, <2>3, <2>4, <2>5 DEF FiledWhereTheyRun
<1>8. SessionsAreBacked'
  <2> SUFFICES ASSUME NEW i \in DOMAIN sessions'
               PROVE  /\ \E u \in wires : u.agent = sessions'[i].agent /\ u.nr = sessions'[i].nr
                                           /\ u.registered
                      /\ ~sessions'[i].taken => rows'[sessions'[i].server] = sessions'[i].agent
    BY DEF SessionsAreBacked
  <2>1. /\ i \in DOMAIN sessions
        /\ \E u \in wires : u.agent = sessions[i].agent /\ u.nr = sessions[i].nr /\ u.registered
        /\ ~sessions[i].taken => rows[sessions[i].server] = sessions[i].agent
    BY <1>1, <1>4 DEF SessionsAreBacked
  <2>2. sessions[i].server \in DOMAIN rows
    BY <1>1, <2>1 DEF FiledWhereTheyRun
  <2>3. ~sessions'[i].taken => ~sessions[i].taken /\ sessions[i].server # id
    BY <1>4, <2>1
  <2>4. ~sessions'[i].taken => rows'[sessions'[i].server] = sessions'[i].agent
    BY <1>3, <1>4, <2>1, <2>2, <2>3
  <2>5. QED
    BY <1>4, <2>1, <2>4
<1>9. CommandsWereRight'
  BY <1>1 DEF CommandsWereRight
<1>10. QED
  BY <1>5, <1>6, <1>7, <1>8, <1>9 DEF FleetInv

\* A command goes to the one session on the server its task is filed under.
LEMMA CommandKeeps ==
  ASSUME FleetInv, NEW j \in Job, Command(j)
  PROVE  FleetInv'
<1> DEFINE x == sessions[SessionOn(filed[j])]
<1>1. /\ filed[j] # None /\ SessionOn(filed[j]) # 0
      /\ obeyed' = {[by |-> x.agent, job |-> j, excused |-> filed[j] \in handed]}
      /\ UNCHANGED <<rows, wires, sessions, filed, handed>>
  BY DEF Command, Addressee, getSessionByServerId
<1>2. FleetTypeOK /\ OneEach /\ FiledWhereTheyRun /\ SessionsAreBacked /\ CommandsWereRight
  BY DEF FleetInv
<1>3. SessionOn(filed[j]) \in DOMAIN sessions /\ x.server = filed[j]
  BY <1>1, <1>2, PlaceOnServer
<1>4. x \in Session /\ x.agent \in Agent
  BY <1>2, <1>3, SessionsAreTyped
<1>5. filed[j] \notin handed => x.agent = NodeOf(j)
  BY <1>1, <1>2, <1>3 DEF FiledWhereTheyRun
<1> HIDE DEF x
<1>6. FleetTypeOK'
  BY <1>1, <1>2, <1>4 DEF FleetTypeOK
<1>7. CommandsWereRight'
  <2> SUFFICES ASSUME NEW c \in obeyed' PROVE c.by = NodeOf(c.job) \/ c.excused
    BY DEF CommandsWereRight
  <2>1. c = [by |-> x.agent, job |-> j, excused |-> filed[j] \in handed]
    BY <1>1
  <2>2. c.by = x.agent /\ c.job = j /\ (c.excused <=> filed[j] \in handed)
    BY <2>1
  <2>3. QED
    BY <1>5, <2>2
<1>8. OneEach' /\ FiledWhereTheyRun' /\ SessionsAreBacked'
  BY <1>1, <1>2 DEF OneEach, FiledWhereTheyRun, SessionsAreBacked
<1>9. QED
  BY <1>6, <1>7, <1>8 DEF FleetInv

\* A restart forgets the sessions together with the sockets.
LEMMA RestartAppKeeps ==
  ASSUME FleetInv, RestartApp
  PROVE  FleetInv'
<1>1. wires' = {} /\ sessions' = <<>> /\ UNCHANGED <<rows, filed, obeyed, handed>>
  BY DEF RestartApp
<1>2. sessions' \in Seq(Session) /\ DOMAIN sessions' = {}
  BY <1>1
<1>3. FleetTypeOK /\ OneEach /\ FiledWhereTheyRun /\ SessionsAreBacked /\ CommandsWereRight
  BY DEF FleetInv
<1>4. FleetTypeOK'
  BY <1>1, <1>2, <1>3 DEF FleetTypeOK
<1>5. OneEach' /\ FiledWhereTheyRun' /\ SessionsAreBacked' /\ CommandsWereRight'
  BY <1>1, <1>2, <1>3 DEF OneEach, FiledWhereTheyRun, SessionsAreBacked, CommandsWereRight
<1>6. QED
  BY <1>4, <1>5 DEF FleetInv


-----------------------------------------------------------------------------
(* The theorem. *)

\* No step breaks the invariant.
LEMMA FleetStep ==
  ASSUME FleetInv, [FleetNext]_fleetVars
  PROVE  FleetInv'
<1>1. CASE UNCHANGED fleetVars
  BY <1>1 DEF fleetVars, FleetInv, FleetTypeOK, OneEach, FiledWhereTheyRun, SessionsAreBacked,
              CommandsWereRight
<1>2. CASE \E a \in Agent : Connect(a) \/ createServer(a)
  BY <1>2, ConnectKeeps, CreateServerKeeps
<1>3. CASE \E w \in wires : ConnectionBreaks(w) \/ register(w) \/ disconnected(w)
                            \/ (\E j \in Job : report(w, j))
  BY <1>3, BreakKeeps, RegisterKeeps, DisconnectedKeeps, ReportKeeps
<1>4. ASSUME NEW id \in DOMAIN rows, deleteServer(id) PROVE FleetInv'
  <2>1. /\ rows[id] # gone /\ rows' = [rows EXCEPT ![id] = gone] /\ sessions' = Taken(id)
        /\ UNCHANGED <<wires, filed, obeyed>> /\ handed' = handed \cup {}
    BY <1>4 DEF deleteServer
  <2>2. QED
    BY <2>1, RowChanges
<1>5. ASSUME NEW id \in DOMAIN rows, NEW a \in Agent, updateServer(id, a) PROVE FleetInv'
  <2>1. /\ rows[id] # gone /\ rows' = [rows EXCEPT ![id] = a] /\ sessions' = Taken(id)
        /\ UNCHANGED <<wires, filed, obeyed>> /\ handed' = handed \cup {id} /\ a \notin ToSet(rows)
    BY <1>5 DEF updateServer
  <2>2. a # gone /\ \A other \in DOMAIN rows : rows[other] # a
    BY <2>1, FleetAssumption DEF ToSet
  <2>3. QED
    BY <2>1, <2>2, RowChanges
<1>6. CASE \E j \in Job : Command(j)
  BY <1>6, CommandKeeps
<1>7. CASE RestartApp
  BY <1>7, RestartAppKeeps
<1>8. QED
  BY <1>1, <1>2, <1>3, <1>4, <1>5, <1>6, <1>7 DEF FleetNext

\* At the start there are no rows and no sessions.
LEMMA FleetInitInv == FleetInit => FleetInv
<1> SUFFICES ASSUME FleetInit PROVE FleetInv
  OBVIOUS
<1>1. /\ rows \in Seq(Agent \cup {gone}) /\ DOMAIN rows = {}
      /\ sessions \in Seq(Session) /\ DOMAIN sessions = {}
      /\ filed \in [Job -> Nat] /\ (\A j \in Job : filed[j] = None)
      /\ wires = {} /\ obeyed = {} /\ handed = {}
  BY DEF FleetInit, None
<1>2. QED
  BY <1>1 DEF FleetInv, FleetTypeOK, OneEach, FiledWhereTheyRun, SessionsAreBacked,
              CommandsWereRight

\* What the invariant says of sessions and commands is what is promised of them.
LEMMA FleetInvSuffices == FleetInv => CommandsReachTheirNode
<1> SUFFICES ASSUME FleetInv PROVE CommandsReachTheirNode
  OBVIOUS
<1>1. FleetTypeOK /\ OneEach /\ FiledWhereTheyRun /\ SessionsAreBacked /\ CommandsWereRight
  BY DEF FleetInv
<1>2. ASSUME NEW i \in DOMAIN sessions, ~sessions[i].taken
      PROVE  /\ rows[sessions[i].server] = sessions[i].agent /\ online(sessions[i].server)
             /\ \A k \in DOMAIN sessions \ {i} :
                  sessions[k].server = sessions[i].server => sessions[k].taken
  <2>1. rows[sessions[i].server] = sessions[i].agent
    BY <1>1, <1>2 DEF SessionsAreBacked
  <2>2. sessions[i].agent \in Agent /\ sessions[i].agent # gone
    BY <1>1, SessionsAreTyped, FleetAssumption
  <2>3. SessionOf(sessions[i].agent) # 0
    BY <1>1, PlaceOfSession
  <2>4. online(sessions[i].server)
    BY <2>1, <2>2, <2>3 DEF online
  <2>5. ASSUME NEW k \in DOMAIN sessions \ {i}, sessions[k].server = sessions[i].server,
               ~sessions[k].taken
        PROVE  FALSE
    <3>1. rows[sessions[k].server] = sessions[k].agent
      BY <1>1, <2>5 DEF SessionsAreBacked
    <3>2. QED
      BY <1>1, <2>1, <2>5, <3>1 DEF OneEach
  <2>6. QED
    BY <2>1, <2>4, <2>5
<1>3. \A i \in DOMAIN sessions :
        \E w \in wires : w.agent = sessions[i].agent /\ w.nr = sessions[i].nr /\ w.registered
  BY <1>1 DEF SessionsAreBacked
<1>4. \A c \in obeyed : c.by = NodeOf(c.job) \/ c.excused
  BY <1>1 DEF CommandsWereRight
<1>5. QED
  BY <1>2, <1>3, <1>4 DEF CommandsReachTheirNode

\* For any nodes and tasks, whatever connections break and are noticed late,
\* whatever rows the administrator makes, gives away and deletes, and however
\* often the server restarts: a command for a task reaches the node that has
\* the task unless its server was given to another agent, and a server that is
\* shown online is one whose commands have somewhere to go (Command, register).
THEOREM CommandsAlwaysReachTheirNode == FleetSpec => []CommandsReachTheirNode
<1>1. FleetInv /\ [FleetNext]_fleetVars => FleetInv'
  BY FleetStep
<1>2. QED
  BY <1>1, FleetInitInv, FleetInvSuffices, PTL DEF FleetSpec
=============================================================================
