------------------------------- MODULE PersonViews -------------------------------
(***************************************************************************)
(* What the server answers about persons and their tasks while the tables  *)
(* of People change (person/service.ts, person/scope.ts, task/service.ts,  *)
(* the queries of db/tasks.ts, routes/person-routes.ts, task-routes.ts and *)
(* pagination.ts).  Whether a binding is in effect is decided in four      *)
(* places, each in its own way: by getActiveBinding, by a condition of the *)
(* query for tasks, by the directory, and by the scope of a person.        *)
(*                                                                         *)
(* The tasks and the latest snapshots do not change here: a task is an     *)
(* account with a status, numbered by its creation, and of a snapshot it   *)
(* is kept whether an account uses anything.  Every answer is a function   *)
(* of the tables at one moment.                                            *)
(***************************************************************************)
EXTENDS People

CONSTANTS
    TaskRow,        \* the table of tasks: [id, account, status]
    Using,          \* the accounts that use a resource in the latest snapshot
    ServerOf(_),    \* the server of an account
    DefaultPageSize,
    MaxPageSize

ASSUME ViewAssumption ==
    /\ TaskRow \subseteq [id : Nat, account : Account, status : {"queued", "running", "ended"}]
    /\ IsFiniteSet(TaskRow) /\ \A t, u \in TaskRow : t.id = u.id => t = u
    /\ Using \subseteq Account
    /\ DefaultPageSize \in Nat \ {0} /\ MaxPageSize \in Nat \ {0}

-----------------------------------------------------------------------------
(* Tasks. *)

\* Mutant: the window is not looked at.
EnabledIsEnough(p, account) ==
    \E b \in bindings : b.person = p /\ b.account = account /\ b.enabled

\* The EXISTS condition of buildTaskQuery.
BelongsTo(p, account) ==
    \E b \in bindings : /\ b.person = p /\ b.account = account /\ b.enabled
                        /\ b.window # "future" /\ b.window # "past"

\* getTasks without a limit, the newest first, and countTasks
tasksOf(p) == {t \in TaskRow : BelongsTo(p, t.account)}
newerTasks(p, t) == {u \in tasksOf(p) : u.id > t.id}
countTasks(p) == Cardinality(tasksOf(p))
getTasks(p) ==
    [i \in 1..countTasks(p) |->
        CHOOSE t \in tasksOf(p) : Cardinality(newerTasks(p, t)) = i - 1]

\* A limit or a page that is no positive number is replaced by the default.
parsePagination(page, limit) ==
    LET asked == IF limit > 0 THEN limit ELSE DefaultPageSize
        size == IF asked < MaxPageSize THEN asked ELSE MaxPageSize
    IN [limit |-> size, offset |-> ((IF page > 0 THEN page ELSE 1) - 1) * size]

\* LIMIT and OFFSET
getPersonTasks(p, asked) ==
    LET list == getTasks(p)
        last == asked.offset + asked.limit
    IN SubSeq(list, asked.offset + 1, IF last < Len(list) THEN last ELSE Len(list))

\* GET /persons/:id/tasks
PageOf(p, page, limit) == getPersonTasks(p, parsePagination(page, limit))

-----------------------------------------------------------------------------
(* What a person may see and do. *)

getBindingsByPersonId(p) == {b \in bindings : b.person = p}

canAccessServer(p, server) ==
    \E b \in getBindingsByPersonId(p) : ServerOf(b.account) = server /\ b.enabled

canAccessTask(p, t) == \E b \in getBindingsByPersonId(p) : b.account = t.account /\ b.enabled

getAccessibleServerIds(p) ==
    {ServerOf(b.account) : b \in {c \in getBindingsByPersonId(p) : c.enabled}}

\* GET /tasks/:taskId and POST /servers/:serverId/tasks/:taskId/cancel
mayOpenAndCancel(p, t) == t \in TaskRow /\ canAccessTask(p, t)

-----------------------------------------------------------------------------
(* The directory and the candidates of the wizard. *)

isBindingActiveNow(b) == b.enabled /\ b.window \in {"current", "endless"}

\* One binding of each account.
dedupeActiveBindings(p) ==
    LET active == {b \in getBindingsByPersonId(p) : isBindingActiveNow(b)}
    IN {CHOOSE b \in active : b.account = a : a \in {b.account : b \in active}}

\* A person's row: what runs and waits, and where something of theirs goes on.
DirectoryItem(p) ==
    LET accounts == {b.account : b \in dedupeActiveBindings(p)}
        With(status) == {t \in TaskRow : t.account \in accounts /\ t.status = status}
        busy == {a \in accounts : \/ a \in Using
                                  \/ \E t \in With("running") \cup With("queued") : t.account = a}
    IN [running |-> Cardinality(With("running")),
        queued |-> Cardinality(With("queued")),
        servers |-> Cardinality({ServerOf(a) : a \in busy})]

\* listBindingCandidates: the owner that the wizard shows beside an account
activePerson(account) ==
    LET active == getActiveBinding(bindings, account)
    IN IF active = {} THEN NoPerson ELSE (CHOOSE b \in active : TRUE).person

-----------------------------------------------------------------------------
(* Properties. *)

\* The numbers of the directory are those of the list that a click on it opens.
DirectoryTellsTheList ==
    \A p \in DOMAIN persons :
        LET row == DirectoryItem(p)
            Listed(status) == Cardinality({t \in tasksOf(p) : t.status = status})
        IN /\ row.running = Listed("running") /\ row.queued = Listed("queued")
           /\ row.servers <= Cardinality(getAccessibleServerIds(p))

\* A person may open and cancel every task of their list, at a server they may
\* see, and nobody else has the task in a list: it is listed for the person whom
\* alerts and the wizard name as the owner of its account, and for no other.
ListIsOnesOwn ==
    \A p \in DOMAIN persons, t \in TaskRow :
        /\ t \in tasksOf(p) => /\ mayOpenAndCancel(p, t)
                               /\ canAccessServer(p, ServerOf(t.account))
        /\ t \in tasksOf(p) <=> Owner(bindings, t.account) = p
        /\ t \in tasksOf(p) <=> activePerson(t.account) = p

\* As many pages as the total asks for show every task of the list once and the
\* newest first, none but the last is short, and there is nothing behind it.
PagesAreWhole ==
    \A p \in DOMAIN persons, limit \in 0..(MaxPageSize + 1) :
        LET size == parsePagination(1, limit).limit
            pages == (countTasks(p) + size - 1) \div size
            page == [m \in 1..(pages + 1) |-> PageOf(p, m, limit)]
            shown == UNION {{<<m, i>> : i \in DOMAIN page[m]} : m \in 1..pages}
        IN /\ {page[s[1]][s[2]] : s \in shown} = tasksOf(p)
           /\ \A s, r \in shown : s[1] < r[1] \/ (s[1] = r[1] /\ s[2] < r[2])
                                     => page[s[1]][s[2]].id > page[r[1]][r[2]].id
           /\ \A m \in 1..(pages - 1) : Len(page[m]) = size
           /\ page[pages + 1] = <<>>

\* The four ways to decide what is somebody's agree on what a person is shown.
ViewsAgree == DirectoryTellsTheList /\ ListIsOnesOwn /\ PagesAreWhole

=============================================================================
