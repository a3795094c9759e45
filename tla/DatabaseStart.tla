--------------------------- MODULE DatabaseStart ---------------------------
(***************************************************************************)
(* The server's database file, and the settings as what is kept in it.     *)
(* getDatabase opens monitor.db when the server starts: a file that an     *)
(* older version made, or that cannot be read, is set aside with the files *)
(* SQLite keeps beside it, and a new one is made.  The server may be       *)
(* killed at any point.                                                    *)
(*                                                                         *)
(* SQLite (external) writes a commit to the write-ahead log, which is      *)
(* copied to the main file now and then; a log without its main file is    *)
(* deleted when a main file is made anew.  The files -shm and -journal     *)
(* hold nothing that lasts and are left out.                               *)
(*                                                                         *)
(* The page of the settings loads all it shows at once and saves all it    *)
(* shows; Setting stands for its eight thresholds.                         *)
(***************************************************************************)
EXTENDS Integers, Sequences

CONSTANTS Setting, Value, Default,
          MaxSaves, MaxKills, MaxMoves      \* bounds

ASSUME DefaultIsAValue == Default \in Value

VARIABLES
  main, log,   \* files: sets with at most one content [tables, rows]
  aside,       \* what was set aside: a sequence of [main, log, had, why]
  server,      \* [at, statement], at is "down" or the step of the start, or "up"
  form,        \* the page of the settings, see NoForm
  saved,       \* history: what was saved last in this database
  dbPast        \* history: [saves, kills, spilt, cause]

dbVars == <<main, log, aside, server, form, saved, dbPast>>

NoRows == [s \in Setting |-> Default]

\* answer: of the request under way; put: the save under way, [fields, own].
\* own: what the user has set, or what has changed since the page was loaded.
NoForm == [at |-> "closed", fields |-> NoRows, answer |-> {}, own |-> {}, put |-> {}]

\* The settings of S are not what the page was given.
Stale(f, S) ==
  [f EXCEPT !.own = IF f.at = "closed" THEN {} ELSE @ \cup S,
            !.put = {[p EXCEPT !.own = @ \cup S] : p \in @}]

(***************************************************************************)
(* Contents.                                                               *)
(***************************************************************************)
\* What initSchema makes, in order.
Statements == <<"snapshots", "bindings", "bindingsIndex", "settings">>

Made(i) == [tables |-> {Statements[j] : j \in 1 .. i}, rows |-> NoRows]

\* What a reader sees.
Content == IF main # {} /\ log # {} THEN log ELSE main

With(rows, updates) == [s \in Setting |-> IF s \in DOMAIN updates THEN updates[s] ELSE rows[s]]

\* Unique among disabled bindings too, or the index of the enabled is missing.
hasLegacyPersonBindingsSchema(c) ==
  \/ "uniqueBindings" \in c.tables
  \/ "bindings" \in c.tables /\ "bindingsIndex" \notin c.tables

\* fails: the file cannot be read at this moment.
needsDatabaseReset(fails) ==
  \E c \in Content : \/ fails
                     \/ "oldSnapshots" \in c.tables
                     \/ "snapshots" \in c.tables /\ hasLegacyPersonBindingsSchema(c)

getSettings == IF Content = {} THEN NoRows ELSE (CHOOSE c \in Content : TRUE).rows

(***************************************************************************)
(* The start of the server.                                                *)
(***************************************************************************)
Phase(at) == server' = [at |-> at, statement |-> 0]

getDatabase(fails) ==
  /\ server.at = "down"
  /\ IF ~needsDatabaseReset(fails) THEN Phase("open") /\ UNCHANGED aside
     ELSE /\ fails => Len(aside) < MaxMoves
          /\ Phase("moveMain")
          /\ aside' = Append(aside, [main |-> {}, log |-> {}, had |-> saved,
                                     why |-> IF fails THEN "unreadable" ELSE "obsolete"])
  /\ UNCHANGED <<main, log, form, saved, dbPast>>

\* moveInvalidDatabaseFiles, one file after the other.
MoveMain ==
  /\ server.at = "moveMain" /\ Phase("moveLog")
  /\ aside' = [aside EXCEPT ![Len(aside)].main = main]
  /\ main' = {}
  /\ UNCHANGED <<log, form, saved, dbPast>>

\* Mutant: the files beside the main one stay.
LeaveLog ==
  /\ server.at = "moveLog" /\ Phase("open")
  /\ UNCHANGED <<main, log, aside, form, saved, dbPast>>

MoveLog ==
  /\ server.at = "moveLog" /\ Phase("open")
  /\ aside' = [aside EXCEPT ![Len(aside)].log = log]
  /\ log' = {}
  /\ UNCHANGED <<main, form, saved, dbPast>>

OpenDatabase ==
  /\ server.at = "open" /\ server' = [at |-> "schema", statement |-> 1]
  /\ IF main # {} THEN UNCHANGED <<main, log, form, saved>>
     ELSE /\ main' = {Made(0)} /\ log' = {}
          /\ saved' = NoRows
          /\ form' = Stale(form, Setting)
  /\ UNCHANGED <<aside, dbPast>>

\* Every statement is a transaction.
initSchema ==
  /\ server.at = "schema"
  /\ \E c \in Content : log' = {[c EXCEPT !.tables = @ \cup {Statements[server.statement]}]}
  /\ IF server.statement = Len(Statements) THEN Phase("up")
     ELSE server' = [server EXCEPT !.statement = @ + 1]
  /\ UNCHANGED <<main, aside, form, saved, dbPast>>

Checkpoint ==
  /\ server.at = "up" /\ log # {}
  /\ main' = log /\ log' = {}
  /\ UNCHANGED <<aside, server, form, saved, dbPast>>

\* Also a stop, which does not close the database.
Kill ==
  /\ server.at # "down" /\ dbPast.kills < MaxKills
  /\ Phase("down")
  /\ dbPast' = [dbPast EXCEPT
       !.kills = @ + 1,
       !.spilt = @ \/ (server.at = "moveLog" /\ log # {}),
       !.cause = @ \/ (server.at = "schema" /\ Statements[server.statement] = "bindingsIndex")]
  /\ UNCHANGED <<main, log, aside, form, saved>>

(***************************************************************************)
(* The settings.                                                           *)
(***************************************************************************)
saveSettings(updates) ==
  /\ server.at = "up" /\ dbPast.saves < MaxSaves
  /\ \E c \in Content : log' = {[c EXCEPT !.rows = With(@, updates)]}
  /\ saved' = With(saved, updates)
  /\ dbPast' = [dbPast EXCEPT !.saves = @ + 1]
  /\ UNCHANGED <<main, aside, server>>

\* Another administrator.
SaveElsewhere(s, v) ==
  /\ saveSettings([x \in {s} |-> v])
  /\ form' = Stale(form, {s})

\* Another page reads them.
ReadElsewhere == server.at = "up" /\ UNCHANGED dbVars

FormOnly(f) == form' = f /\ UNCHANGED <<main, log, aside, server, saved, dbPast>>

OpenPage  == form.at = "closed" /\ server.at = "up" /\ FormOnly([NoForm EXCEPT !.at = "loading", !.put = form.put])
ClosePage == form.at # "closed" /\ FormOnly([NoForm EXCEPT !.put = form.put])

GetServed ==
  /\ form.at = "loading" /\ form.answer = {} /\ server.at = "up"
  /\ FormOnly([form EXCEPT !.answer = {getSettings}, !.own = {}])

\* Mutant: the page does not take a setting from the answer.
SomeArrive ==
  /\ form.answer # {}
  /\ \E a \in form.answer, s \in Setting :
       FormOnly([form EXCEPT !.at = "shown", !.answer = {}, !.fields = [a EXCEPT ![s] = Default]])

SettingsArrive ==
  /\ form.answer # {}
  /\ \E a \in form.answer : FormOnly([form EXCEPT !.at = "shown", !.answer = {}, !.fields = a])

\* The page shows the defaults as if they were what is set.
LoadFails ==
  /\ form.at = "loading"
  /\ FormOnly([form EXCEPT !.at = "shown", !.answer = {}, !.own = Setting])

Edit(s, v) ==
  /\ form.at = "shown" /\ form.fields[s] # v
  /\ FormOnly([form EXCEPT !.fields[s] = v, !.own = @ \cup {s}])

\* The button is disabled while a save of this page is under way.
handleSave ==
  /\ form.at = "shown" /\ form.put = {}
  /\ FormOnly([form EXCEPT !.put = {[fields |-> form.fields, own |-> form.own]}])

PutServed ==
  /\ \E p \in form.put : saveSettings(p.fields)
  /\ form' = Stale([form EXCEPT !.put = {}], {s \in Setting : saved'[s] # saved[s]})
SaveFails == form.put # {} /\ FormOnly([form EXCEPT !.put = {}])

(***************************************************************************)
(* The specification.                                                      *)
(***************************************************************************)
AllTables == {Statements[i] : i \in DOMAIN Statements}

\* Files of this version, of the one before persons, and of two that are
\* replaced.
Versions ==
  {AllTables, {"snapshots", "settings"},
   {"snapshots", "uniqueBindings", "settings"},
   (AllTables \ {"snapshots"}) \cup {"oldSnapshots"}}

DatabaseInit ==
  /\ \/ main = {} /\ log = {}
     \/ \E v \in Versions, s \in Setting, x \in Value \ {Default} :
          /\ main = {[tables |-> v, rows |-> NoRows]}
          /\ log \in {{}, {[tables |-> v, rows |-> [NoRows EXCEPT ![s] = x]]}}
  /\ saved = getSettings
  /\ aside = <<>> /\ server = [at |-> "down", statement |-> 0] /\ form = NoForm
  /\ dbPast = [saves |-> 0, kills |-> 0, spilt |-> FALSE, cause |-> needsDatabaseReset(FALSE)]

FileNext ==
  \/ \E fails \in BOOLEAN : getDatabase(fails)
  \/ MoveMain \/ MoveLog \/ OpenDatabase \/ initSchema \/ Checkpoint \/ Kill \/ ReadElsewhere
  \/ \E s \in Setting, v \in Value : SaveElsewhere(s, v)

FormNext ==
  \/ OpenPage \/ ClosePage \/ GetServed \/ SettingsArrive \/ LoadFails
  \/ handleSave \/ PutServed \/ SaveFails
  \/ \E s \in Setting, v \in Value : Edit(s, v)

DatabaseNext == FileNext \/ FormNext

DatabaseSpec == DatabaseInit /\ [][DatabaseNext]_dbVars

(***************************************************************************)
(* Properties.                                                             *)
(***************************************************************************)
Whole(a) == (IF a.log # {} THEN a.log ELSE a.main)

\* What was saved is read after every kill and restart, or is whole in what was
\* set aside; a kill between two renames may tear it.  A readable database is
\* set aside only if an older version made it, or if a kill has left its table
\* of bindings without the index.
DatabaseIsKept ==
  /\ server.at = "up" => getSettings = saved
  /\ server.at \notin {"moveMain", "moveLog"} /\ ~dbPast.spilt =>
       \A i \in DOMAIN aside : \A c \in Whole(aside[i]) : c.rows = aside[i].had
  /\ \A i \in DOMAIN aside : aside[i].why = "obsolete" => dbPast.cause

\* A save of the page changes what the user has set, and otherwise only what
\* has changed since the page was loaded or all of it, if it was not loaded.
SaveKeepsTheRest ==
  [][form'.put = {} =>
       \A p \in form.put, s \in Setting : saved'[s] # saved[s] => s \in p.own]_dbVars
=============================================================================
