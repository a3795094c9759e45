--------------------------- MODULE ServerProofs ---------------------------
(***************************************************************************)
(* Proofs about the server: what it keeps in its files, whatever is killed *)
(* while it starts; the alerts of a node, for every set of settings,       *)
(* metrics, cards and processes; and the table it makes of an agent's      *)
(* reports, for every set of tasks and every number of connections, of     *)
(* messages under way and of restarts of either side.                      *)
(***************************************************************************)
EXTENDS AlertLoop, DatabaseStart, TaskReporting, SequenceTheorems, TLAPS

-----------------------------------------------------------------------------
(***************************************************************************)
(* What the settings and the database of the server keep, for any settings *)
(* and values and any number of saves, kills and unreadable files.  The    *)
(* invariant has a part for the files, which says where the rows that were *)
(* saved last are at every step of a start, and a part for the page, which *)
(* says that whatever it would overwrite counts as the user's own.         *)
(***************************************************************************)

\* A file, an answer or a request: there is one or there is none.
OneOf(S) == {{}} \cup {{x} : x \in S}

Row == [Setting -> Value]

Tables == {"snapshots", "bindings", "bindingsIndex", "settings", "uniqueBindings", "oldSnapshots"}
Contents == [tables : SUBSET Tables, rows : Row]

SetAside == [main : OneOf(Contents), log : OneOf(Contents), had : Row,
             why : {"unreadable", "obsolete"}]
Put  == [fields : Row, own : SUBSET Setting]
Form == [at : {"closed", "loading", "shown"}, fields : Row, answer : OneOf(Row),
         own : SUBSET Setting, put : OneOf(Put)]
Step == [at : {"down", "moveMain", "moveLog", "open", "schema", "up"}, statement : 0 .. 4]
Past == [saves : Nat, kills : Nat, spilt : BOOLEAN, cause : BOOLEAN]

DatabaseTypeOK ==
    /\ main \in OneOf(Contents) /\ log \in OneOf(Contents)
    /\ aside \in Seq(SetAside)
    /\ server \in Step /\ (server.at = "schema" => server.statement \in 1 .. 4)
    /\ form \in Form
    /\ saved \in Row
    /\ dbPast \in Past

-----------------------------------------------------------------------------
(* The files. *)

\* Where there is a main file, a reader sees what was saved.
ReadsSaved == main # {} => \A c \in Content : c.rows = saved

MainIsThere == server.at \in {"moveMain", "schema", "up"} => main # {}

Moving == server.at \in {"moveMain", "moveLog"}

\* The set that is being moved: what is moved and what is still to be moved are
\* together what was saved.
MovesWhatWasSaved ==
    Moving =>
        /\ Len(aside) > 0
        /\ aside[Len(aside)].log = {} /\ aside[Len(aside)].had = saved
        /\ server.at = "moveMain" => aside[Len(aside)].main = {}
        /\ server.at = "moveLog" =>
             /\ main = {}
             /\ \A c \in (IF log # {} THEN log ELSE aside[Len(aside)].main) : c.rows = saved

\* Sets that are no longer being moved are whole, unless a kill has torn one.
MovedIsWhole ==
    ~dbPast.spilt =>
        \A i \in 1 .. Len(aside) :
            ~(Moving /\ i = Len(aside)) => \A c \in Whole(aside[i]) : c.rows = aside[i].had

\* Without a cause no content looks like that of an older version, but for the
\* moment before the index of the bindings is made.
ObsoleteForACause ==
    /\ \A i \in 1 .. Len(aside) : aside[i].why = "obsolete" => dbPast.cause
    /\ ~dbPast.cause => \A c \in Content :
         /\ "oldSnapshots" \notin c.tables /\ "uniqueBindings" \notin c.tables
         /\ "bindings" \in c.tables =>
              "bindingsIndex" \in c.tables \/ (server.at = "schema" /\ server.statement = 3)

FilesInv == ReadsSaved /\ MainIsThere /\ MovesWhatWasSaved /\ MovedIsWhole /\ ObsoleteForACause

-----------------------------------------------------------------------------
(* The page. *)

\* Where fields differ from what is saved, the difference is in own.
Accounted(fields, own) == \A s \in Setting : fields[s] # saved[s] => s \in own

Fits(f) ==
    /\ f.at = "closed" => f.answer = {}
    /\ f.at = "shown" => Accounted(f.fields, f.own)
    /\ \A a \in f.answer : Accounted(a, f.own)
    /\ \A p \in f.put : Accounted(p.fields, p.own)

FormInv == Fits(form)

DatabaseInv == DatabaseTypeOK /\ FilesInv /\ FormInv


-----------------------------------------------------------------------------
(* Operators. *)

\* What there is one of at most has no two members, and none or one will do.
LEMMA OneOfFacts ==
    ASSUME NEW S
    PROVE  /\ \A F \in OneOf(S) : F \subseteq S /\ (\A x, y \in F : x = y)
           /\ \A F \in OneOf(S) : F # {} => \E x \in S : F = {x}
           /\ {} \in OneOf(S) /\ \A x \in S : {x} \in OneOf(S)
BY DEF OneOf

\* A reader sees one content if there is a main file, and none otherwise.
LEMMA ContentFacts ==
    ASSUME DatabaseTypeOK
    PROVE  /\ Content \in OneOf(Contents) /\ Content \subseteq Contents
           /\ main = {} => Content = {}
           /\ main # {} => \E c \in Contents : Content = {c}
<1>1. Content \in OneOf(Contents) /\ (main = {} => Content = {}) /\ (main # {} => Content # {})
  BY DEF DatabaseTypeOK, Content
<1>2. QED
  BY <1>1, OneOfFacts

\* The defaults are rows, and an update of rows gives rows.
LEMMA RowFacts ==
    /\ NoRows \in Row
    /\ \A rows \in Row, s \in Setting, v \in Value :
         /\ With(rows, [x \in {s} |-> v]) \in Row
         /\ \A x \in Setting \ {s} : With(rows, [y \in {s} |-> v])[x] = rows[x]
    /\ \A rows, all \in Row : With(rows, all) = all
BY DefaultIsAValue DEF NoRows, Row, With

\* What is read where there is a main file is what was saved.
LEMMA SettingsAreSaved ==
    ASSUME DatabaseTypeOK, FilesInv, server.at = "up"
    PROVE  getSettings = saved
<1>1. PICK c \in Contents : Content = {c}
  BY ContentFacts DEF FilesInv, MainIsThere
<1>2. c.rows = saved /\ main # {}
  BY <1>1 DEF FilesInv, ReadsSaved, MainIsThere
<1>3. QED
  BY <1>1, <1>2 DEF getSettings

\* A page whose settings in S may differ from what it was given.
LEMMA StaleFacts ==
    ASSUME NEW f \in Form, NEW S \in SUBSET Setting
    PROVE  /\ Stale(f, S) \in Form
           /\ Stale(f, S).at = f.at /\ Stale(f, S).fields = f.fields
           /\ Stale(f, S).answer = f.answer
           /\ f.at # "closed" => Stale(f, S).own = f.own \cup S
           /\ Stale(f, S).put = {[p EXCEPT !.own = @ \cup S] : p \in f.put}
           /\ Stale(f, S).put = {} => f.put = {}
<1>1. f.put \in OneOf(Put)
  BY DEF Form
<1>2. {[p EXCEPT !.own = @ \cup S] : p \in f.put} \in OneOf(Put)
  <2>1. CASE f.put = {}
    BY <2>1 DEF OneOf
  <2>2. CASE f.put # {}
    <3>1. PICK p \in Put : f.put = {p}
      BY <1>1, <2>2, OneOfFacts
    <3>2. [p EXCEPT !.own = @ \cup S] \in Put
      BY DEF Put
    <3>3. {[q EXCEPT !.own = @ \cup S] : q \in f.put} = {[p EXCEPT !.own = @ \cup S]}
      BY <3>1
    <3>4. QED
      BY <3>2, <3>3 DEF OneOf
  <2>3. QED
    BY <2>1, <2>2
<1>3. (IF f.at = "closed" THEN {} ELSE f.own \cup S) \in SUBSET Setting
  BY DEF Form
<1>4. DOMAIN f = {"at", "fields", "answer", "own", "put"}
  BY DEF Form
<1> DEFINE put == {[p EXCEPT !.own = @ \cup S] : p \in f.put}
<1> DEFINE own == IF f.at = "closed" THEN {} ELSE f.own \cup S
<1>5. Stale(f, S) = [f EXCEPT !.own = own, !.put = put]
  BY DEF Stale
<1>6. put \in OneOf(Put) /\ own \in SUBSET Setting /\ (f.at # "closed" => own = f.own \cup S)
      /\ (put = {} => f.put = {})
  BY <1>2, <1>3
<1> HIDE DEF put, own
<1>7. /\ Stale(f, S) \in Form
      /\ Stale(f, S).at = f.at /\ Stale(f, S).fields = f.fields
      /\ Stale(f, S).answer = f.answer /\ Stale(f, S).own = own /\ Stale(f, S).put = put
  BY <1>5, <1>6 DEF Form
<1>8. QED
  BY <1>6, <1>7 DEF put

\* What initSchema makes, by number.
LEMMA StatementFacts ==
    /\ Len(Statements) = 4
    /\ \A k \in 1 .. 4 : Statements[k] \in Tables \ {"oldSnapshots", "uniqueBindings"}
    /\ \A k \in 1 .. 4 : (Statements[k] = "bindings") <=> k = 2
    /\ \A k \in 1 .. 4 : (Statements[k] = "bindingsIndex") <=> k = 3
<1>1. /\ Len(Statements) = 4
      /\ Statements[1] = "snapshots" /\ Statements[2] = "bindings"
      /\ Statements[3] = "bindingsIndex" /\ Statements[4] = "settings"
  BY DEF Statements
<1>2. \A k \in 1 .. 4 : k = 1 \/ k = 2 \/ k = 3 \/ k = 4
  OBVIOUS
<1>3. QED
  BY <1>1, <1>2 DEF Tables

-----------------------------------------------------------------------------
(* The steps of the files. *)

\* A start finds a database of this version, or sets about to move what it finds.
LEMMA GetDatabaseStep ==
    ASSUME DatabaseTypeOK, FilesInv, NEW fails \in BOOLEAN, getDatabase(fails)
    PROVE  DatabaseTypeOK' /\ FilesInv'
<1>1. Content' = Content
  BY DEF getDatabase, Content
<1>2. CASE ~needsDatabaseReset(fails)
  <2>1. UNCHANGED aside /\ server' = [at |-> "open", statement |-> 0]
    BY <1>2 DEF getDatabase, Phase
  <2>2. DatabaseTypeOK'
    BY <2>1 DEF getDatabase, DatabaseTypeOK, Step
  <2>3. ReadsSaved' /\ MainIsThere' /\ MovesWhatWasSaved' /\ MovedIsWhole'
    BY <1>1, <2>1 DEF getDatabase, FilesInv, ReadsSaved, MainIsThere, MovesWhatWasSaved, MovedIsWhole,
              Moving, Whole
  <2>4. ObsoleteForACause'
    BY <1>1, <2>1 DEF getDatabase, FilesInv, ObsoleteForACause
  <2>5. QED
    BY <2>2, <2>3, <2>4 DEF FilesInv
<1>3. CASE needsDatabaseReset(fails)
  <2> DEFINE moved == [main |-> {}, log |-> {}, had |-> saved,
                       why |-> IF fails THEN "unreadable" ELSE "obsolete"]
  <2>1. aside' = Append(aside, moved) /\ server' = [at |-> "moveMain", statement |-> 0]
    BY <1>3 DEF getDatabase, Phase
  <2>2. moved \in SetAside /\ moved.main = {} /\ moved.log = {} /\ moved.had = saved
        /\ (moved.why = "obsolete" => ~fails)
    BY OneOfFacts DEF SetAside, DatabaseTypeOK
  <2> HIDE DEF moved
  <2>3. /\ aside' \in Seq(SetAside) /\ Len(aside) \in Nat /\ Len(aside') = Len(aside) + 1
        /\ aside'[Len(aside')] = moved
        /\ \A i \in 1 .. Len(aside) : aside'[i] = aside[i]
    BY <2>1, <2>2, AppendProperties DEF DatabaseTypeOK
  <2>4. DatabaseTypeOK'
    BY <2>1, <2>3 DEF getDatabase, DatabaseTypeOK, Step
  <2>5. ReadsSaved'
    BY <1>1 DEF getDatabase, FilesInv, ReadsSaved
  <2>6. MainIsThere'
    BY <1>3, <2>1, ContentFacts DEF getDatabase, MainIsThere, needsDatabaseReset
  <2>7. MovesWhatWasSaved'
    BY <2>1, <2>2, <2>3 DEF getDatabase, MovesWhatWasSaved
  <2>8. MovedIsWhole'
    <3>1. ~dbPast.spilt => \A i \in 1 .. Len(aside) : \A c \in Whole(aside[i]) : c.rows = aside[i].had
      BY DEF FilesInv, MovedIsWhole, Moving, getDatabase
    <3>2. SUFFICES ASSUME ~dbPast.spilt, NEW i \in 1 .. Len(aside'), i # Len(aside')
                   PROVE  \A c \in Whole(aside'[i]) : c.rows = aside'[i].had
      BY <2>1 DEF MovedIsWhole, Moving, Whole, getDatabase
    <3>3. i \in 1 .. Len(aside) /\ aside'[i] = aside[i]
      BY <2>3, <3>2
    <3>4. QED
      BY <3>1, <3>2, <3>3
  <2>9. ObsoleteForACause'
    <3>1. moved.why = "obsolete" => dbPast.cause
      <4> SUFFICES ASSUME ~fails, ~dbPast.cause PROVE FALSE
        BY <2>2
      <4>1. PICK c \in Content : \/ "oldSnapshots" \in c.tables
                                 \/ hasLegacyPersonBindingsSchema(c)
        BY <1>3 DEF needsDatabaseReset
      <4>2. QED
        BY <4>1 DEF hasLegacyPersonBindingsSchema, FilesInv, ObsoleteForACause, getDatabase
    <3>2. \A i \in 1 .. Len(aside') : i = Len(aside') \/ i \in 1 .. Len(aside)
      BY <2>3
    <3>3. \A i \in 1 .. Len(aside') : aside'[i].why = "obsolete" => dbPast.cause
      BY <2>3, <3>1, <3>2 DEF FilesInv, ObsoleteForACause
    <3>4. QED
      BY <1>1, <2>1, <3>3 DEF getDatabase, FilesInv, ObsoleteForACause
  <2>10. QED
    BY <2>4, <2>5, <2>6, <2>7, <2>8, <2>9 DEF FilesInv
<1>4. QED
  BY <1>2, <1>3

\* The main file is moved: the rows are now where it went, or still in the log.
LEMMA MoveMainStep ==
    ASSUME DatabaseTypeOK, FilesInv, MoveMain
    PROVE  DatabaseTypeOK' /\ FilesInv'
<1>1. /\ Len(aside) \in Nat /\ Len(aside) > 0 /\ server.at = "moveMain" /\ main # {}
      /\ aside[Len(aside)] \in SetAside /\ aside[Len(aside)].log = {} /\ aside[Len(aside)].had = saved
  BY ElementOfSeq DEF MoveMain, DatabaseTypeOK, FilesInv, MovesWhatWasSaved, MainIsThere, Moving
<1> DEFINE moved == [aside[Len(aside)] EXCEPT !.main = main]
<1>2. moved \in SetAside /\ moved.main = main /\ moved.log = {} /\ moved.had = saved
      /\ moved.why = aside[Len(aside)].why
  BY <1>1 DEF SetAside, DatabaseTypeOK
<1>3. aside' = [aside EXCEPT ![Len(aside)] = moved]
  BY DEF MoveMain
<1> HIDE DEF moved
<1>4. /\ aside' \in Seq(SetAside) /\ Len(aside') = Len(aside)
      /\ aside'[Len(aside)] = moved
      /\ \A i \in 1 .. Len(aside) : i # Len(aside) => aside'[i] = aside[i]
  BY <1>1, <1>2, <1>3, ExceptSeq DEF DatabaseTypeOK
<1>5. server' = [at |-> "moveLog", statement |-> 0] /\ main' = {} /\ log' = log /\ saved' = saved
      /\ dbPast' = dbPast
  BY DEF MoveMain, Phase
<1>6. DatabaseTypeOK'
  BY <1>4, <1>5, OneOfFacts DEF MoveMain, DatabaseTypeOK, Step
<1>7. ReadsSaved' /\ MainIsThere'
  BY <1>5 DEF ReadsSaved, MainIsThere
<1>8. MovesWhatWasSaved'
  <2>1. \A c \in (IF log # {} THEN log ELSE main) : c.rows = saved
    BY <1>1 DEF FilesInv, ReadsSaved, Content
  <2>2. QED
    BY <1>1, <1>2, <1>4, <1>5, <2>1 DEF MovesWhatWasSaved
<1>9. MovedIsWhole'
  BY <1>1, <1>4, <1>5 DEF FilesInv, MovedIsWhole, Moving, Whole
<1>10. ObsoleteForACause'
  <2>1. Content' = {}
    BY <1>5 DEF Content
  <2>2. \A i \in 1 .. Len(aside) : aside'[i].why = aside[i].why
    BY <1>2, <1>4
  <2>3. QED
    BY <1>4, <1>5, <2>1, <2>2 DEF FilesInv, ObsoleteForACause
<1>11. QED
  BY <1>6, <1>7, <1>8, <1>9, <1>10 DEF FilesInv

\* The log is moved, and with it the set is whole.
LEMMA MoveLogStep ==
    ASSUME DatabaseTypeOK, FilesInv, MoveLog
    PROVE  DatabaseTypeOK' /\ FilesInv'
<1>1. /\ Len(aside) \in Nat /\ Len(aside) > 0 /\ server.at = "moveLog" /\ main = {}
      /\ aside[Len(aside)] \in SetAside /\ aside[Len(aside)].had = saved
      /\ \A c \in (IF log # {} THEN log ELSE aside[Len(aside)].main) : c.rows = saved
  BY ElementOfSeq DEF MoveLog, DatabaseTypeOK, FilesInv, MovesWhatWasSaved, Moving
<1> DEFINE moved == [aside[Len(aside)] EXCEPT !.log = log]
<1>2. moved \in SetAside /\ moved.main = aside[Len(aside)].main /\ moved.log = log
      /\ moved.had = saved /\ moved.why = aside[Len(aside)].why
  BY <1>1 DEF SetAside, DatabaseTypeOK
<1>3. aside' = [aside EXCEPT ![Len(aside)] = moved]
  BY DEF MoveLog
<1> HIDE DEF moved
<1>4. /\ aside' \in Seq(SetAside) /\ Len(aside') = Len(aside)
      /\ aside'[Len(aside)] = moved
      /\ \A i \in 1 .. Len(aside) : i # Len(aside) => aside'[i] = aside[i]
  BY <1>1, <1>2, <1>3, ExceptSeq DEF DatabaseTypeOK
<1>5. server' = [at |-> "open", statement |-> 0] /\ main' = {} /\ log' = {} /\ saved' = saved
      /\ dbPast' = dbPast
  BY <1>1 DEF MoveLog, Phase
<1>6. DatabaseTypeOK'
  BY <1>4, <1>5, OneOfFacts DEF MoveLog, DatabaseTypeOK, Step
<1>7. ReadsSaved' /\ MainIsThere' /\ MovesWhatWasSaved'
  BY <1>5 DEF ReadsSaved, MainIsThere, MovesWhatWasSaved, Moving
<1>8. MovedIsWhole'
  <2>1. \A c \in Whole(moved) : c.rows = moved.had
    BY <1>1, <1>2 DEF Whole
  <2>2. ~dbPast.spilt => \A i \in 1 .. Len(aside) :
           i # Len(aside) => \A c \in Whole(aside[i]) : c.rows = aside[i].had
    BY <1>1 DEF FilesInv, MovedIsWhole
  <2>3. ~dbPast.spilt => \A i \in 1 .. Len(aside) : \A c \in Whole(aside'[i]) : c.rows = aside'[i].had
    BY <1>4, <2>1, <2>2
  <2>4. QED
    BY <1>4, <1>5, <2>3 DEF MovedIsWhole, Whole
<1>9. ObsoleteForACause'
  <2>1. Content' = {}
    BY <1>5 DEF Content
  <2>2. \A i \in 1 .. Len(aside) : aside'[i].why = aside[i].why
    BY <1>2, <1>4
  <2>3. QED
    BY <1>4, <1>5, <2>1, <2>2 DEF FilesInv, ObsoleteForACause
<1>10. QED
  BY <1>6, <1>7, <1>8, <1>9 DEF FilesInv

\* Rows that were saved are not touched by a step that only moves a start forward.
LEMMA UntouchedSets ==
    ASSUME FilesInv, UNCHANGED <<aside, saved>>, ~Moving, ~Moving',
           dbPast'.spilt = dbPast.spilt, dbPast'.cause = dbPast.cause
    PROVE  /\ MovesWhatWasSaved' /\ MovedIsWhole'
           /\ \A i \in 1 .. Len(aside') : aside'[i].why = "obsolete" => dbPast'.cause
BY DEF FilesInv, MovesWhatWasSaved, MovedIsWhole, Moving, Whole, ObsoleteForACause

\* The first statement that is not carried out makes the file.
LEMMA OpenStep ==
    ASSUME DatabaseTypeOK, FilesInv, OpenDatabase
    PROVE  DatabaseTypeOK' /\ FilesInv'
<1>1. /\ server.at = "open" /\ server' = [at |-> "schema", statement |-> 1]
      /\ aside' = aside /\ dbPast' = dbPast
  BY DEF OpenDatabase
<1>2. CASE main # {}
  <2>1. UNCHANGED <<main, log, form, saved>>
    BY <1>2 DEF OpenDatabase
  <2>2. Content' = Content
    BY <2>1 DEF Content
  <2>3. DatabaseTypeOK'
    BY <1>1, <2>1 DEF DatabaseTypeOK, Step
  <2>4. MovesWhatWasSaved' /\ MovedIsWhole'
        /\ \A i \in 1 .. Len(aside') : aside'[i].why = "obsolete" => dbPast'.cause
    BY <1>1, <2>1, UntouchedSets DEF Moving
  <2>5. ReadsSaved' /\ MainIsThere' /\ ObsoleteForACause'
    BY <1>1, <1>2, <2>1, <2>2, <2>4 DEF FilesInv, ReadsSaved, MainIsThere, ObsoleteForACause
  <2>6. QED
    BY <2>3, <2>4, <2>5 DEF FilesInv
<1>3. CASE main = {}
  <2>1. main' = {Made(0)} /\ log' = {} /\ saved' = NoRows /\ form' = Stale(form, Setting)
    BY <1>3 DEF OpenDatabase
  <2>2. Made(0) \in Contents /\ Made(0).tables = {} /\ Made(0).rows = NoRows
    BY RowFacts DEF Made, Contents
  <2>3. Content' = {Made(0)}
    BY <2>1 DEF Content
  <2>4. DatabaseTypeOK'
    <3>1. form' \in Form
      BY <2>1, StaleFacts DEF DatabaseTypeOK
    <3>2. main' \in OneOf(Contents) /\ log' \in OneOf(Contents)
      BY <2>1, <2>2, OneOfFacts
    <3>3. QED
      BY <1>1, <2>1, <3>1, <3>2, RowFacts DEF DatabaseTypeOK, Step
  <2>5. MovesWhatWasSaved' /\ MovedIsWhole'
        /\ \A i \in 1 .. Len(aside') : aside'[i].why = "obsolete" => dbPast'.cause
    BY <1>1, <2>1 DEF FilesInv, MovesWhatWasSaved, MovedIsWhole, Moving, Whole, ObsoleteForACause
  <2>6. ReadsSaved' /\ MainIsThere' /\ ObsoleteForACause'
    BY <1>1, <2>1, <2>2, <2>3, <2>5 DEF ReadsSaved, MainIsThere, ObsoleteForACause
  <2>7. QED
    BY <2>4, <2>5, <2>6 DEF FilesInv
<1>4. QED
  BY <1>2, <1>3

\* A statement of the schema keeps the rows; only the one that makes the table of
\* bindings leaves it without its index.
LEMMA SchemaStep ==
    ASSUME DatabaseTypeOK, FilesInv, initSchema
    PROVE  DatabaseTypeOK' /\ FilesInv'
<1>1. /\ server.at = "schema" /\ server.statement \in 1 .. 4 /\ main # {}
      /\ UNCHANGED <<main, aside, form, saved, dbPast>>
  BY DEF initSchema, DatabaseTypeOK, FilesInv, MainIsThere
<1>2. /\ server.statement = 4 => server' = [at |-> "up", statement |-> 0]
      /\ server.statement # 4 => server' = [at |-> "schema", statement |-> server.statement + 1]
  BY <1>1, StatementFacts DEF initSchema, Phase, DatabaseTypeOK, Step
<1>3. PICK c \in Contents : Content = {c}
  BY <1>1, ContentFacts
<1> DEFINE d == [c EXCEPT !.tables = @ \cup {Statements[server.statement]}]
<1>4. log' = {d}
  BY <1>3 DEF initSchema
<1>5. /\ d \in Contents /\ d.rows = c.rows
      /\ d.tables = c.tables \cup {Statements[server.statement]}
  BY <1>1, StatementFacts DEF Contents
<1> HIDE DEF d
<1>6. Content' = {d}
  BY <1>1, <1>4 DEF Content
<1>7. DatabaseTypeOK'
  <2>1. log' \in OneOf(Contents)
    BY <1>4, <1>5, OneOfFacts
  <2>2. server' \in Step /\ (server'.at = "schema" => server'.statement \in 1 .. 4)
    BY <1>1, <1>2 DEF Step
  <2>3. QED
    BY <1>1, <2>1, <2>2 DEF DatabaseTypeOK
<1>8. ReadsSaved' /\ MainIsThere'
  BY <1>1, <1>3, <1>5, <1>6 DEF FilesInv, ReadsSaved, MainIsThere
<1>9. MovesWhatWasSaved' /\ MovedIsWhole'
      /\ \A i \in 1 .. Len(aside') : aside'[i].why = "obsolete" => dbPast'.cause
  BY <1>1, <1>2, UntouchedSets DEF Moving
<1>10. ObsoleteForACause'
  <2> SUFFICES ASSUME ~dbPast.cause
               PROVE  /\ "oldSnapshots" \notin d.tables /\ "uniqueBindings" \notin d.tables
                      /\ "bindings" \in d.tables =>
                           "bindingsIndex" \in d.tables \/ (server'.at = "schema" /\ server'.statement = 3)
    BY <1>1, <1>6, <1>9 DEF ObsoleteForACause
  <2>1. /\ "oldSnapshots" \notin c.tables /\ "uniqueBindings" \notin c.tables
        /\ "bindings" \in c.tables => "bindingsIndex" \in c.tables \/ server.statement = 3
    BY <1>3 DEF FilesInv, ObsoleteForACause
  <2>2. Statements[server.statement] \notin {"oldSnapshots", "uniqueBindings"}
        /\ (Statements[server.statement] = "bindings" <=> server.statement = 2)
        /\ (Statements[server.statement] = "bindingsIndex" <=> server.statement = 3)
    BY <1>1, StatementFacts
  <2>3. CASE server.statement = 2
    BY <1>2, <1>5, <2>1, <2>2, <2>3
  <2>4. CASE server.statement # 2
    BY <1>5, <2>1, <2>2, <2>4
  <2>5. QED
    BY <2>3, <2>4
<1>11. QED
  BY <1>7, <1>8, <1>9, <1>10 DEF FilesInv

\* SQLite copies the log to the main file: readers see what they saw.
LEMMA CheckpointStep ==
    ASSUME DatabaseTypeOK, FilesInv, Checkpoint
    PROVE  DatabaseTypeOK' /\ FilesInv'
<1>1. /\ server.at = "up" /\ main # {} /\ log # {} /\ main' = log /\ log' = {}
      /\ UNCHANGED <<aside, server, form, saved, dbPast>>
  BY DEF Checkpoint, FilesInv, MainIsThere
<1>2. Content' = Content
  BY <1>1 DEF Content
<1>3. DatabaseTypeOK'
  BY <1>1, OneOfFacts DEF DatabaseTypeOK
<1>4. MovesWhatWasSaved' /\ MovedIsWhole'
      /\ \A i \in 1 .. Len(aside') : aside'[i].why = "obsolete" => dbPast'.cause
  BY <1>1, UntouchedSets DEF Moving
<1>5. ReadsSaved' /\ MainIsThere' /\ ObsoleteForACause'
  BY <1>1, <1>2, <1>4 DEF FilesInv, ReadsSaved, MainIsThere, ObsoleteForACause
<1>6. QED
  BY <1>3, <1>4, <1>5 DEF FilesInv

\* A kill between the two moves tears the set unless there is no log; one while the
\* index is missing is a cause for the next start to replace the database.
LEMMA KillStep ==
    ASSUME DatabaseTypeOK, FilesInv, Kill
    PROVE  DatabaseTypeOK' /\ FilesInv'
<1>1. /\ server.at # "down" /\ server' = [at |-> "down", statement |-> 0]
      /\ UNCHANGED <<main, log, aside, form, saved>>
  BY DEF Kill, Phase
<1> DEFINE spilt == dbPast.spilt \/ (server.at = "moveLog" /\ log # {})
<1> DEFINE cause == dbPast.cause
             \/ (server.at = "schema" /\ Statements[server.statement] = "bindingsIndex")
<1>a. dbPast' = [dbPast EXCEPT !.kills = @ + 1, !.spilt = spilt, !.cause = cause]
  BY DEF Kill
<1>b. spilt \in BOOLEAN /\ cause \in BOOLEAN
  BY ZenonT(20) DEF DatabaseTypeOK, Past
<1>c. dbPast \in Past
  BY DEF DatabaseTypeOK
<1> HIDE DEF spilt, cause
<1>d. PICK x \in BOOLEAN, y \in BOOLEAN : x = spilt /\ y = cause
  BY <1>b
<1>e. PICK k \in Nat : k = dbPast.kills + 1
  BY <1>c DEF Past
<1>f. dbPast' = [dbPast EXCEPT !.kills = k, !.spilt = x, !.cause = y]
  BY <1>a, <1>d, <1>e
<1>g. dbPast' \in Past
  BY <1>c, <1>f, Zenon DEF Past
<1>h. dbPast'.spilt = x /\ dbPast'.cause = y
  BY <1>c, <1>f DEF Past
<1>2. /\ dbPast' \in Past
      /\ dbPast'.spilt = (dbPast.spilt \/ (server.at = "moveLog" /\ log # {}))
      /\ dbPast'.cause = (dbPast.cause
              \/ (server.at = "schema" /\ Statements[server.statement] = "bindingsIndex"))
  BY <1>d, <1>g, <1>h DEF spilt, cause
<1>3. Content' = Content
  BY <1>1 DEF Content
<1>4. DatabaseTypeOK'
  BY <1>1, <1>2 DEF DatabaseTypeOK, Step
<1>5. ReadsSaved' /\ MainIsThere' /\ MovesWhatWasSaved'
  BY <1>1, <1>3 DEF FilesInv, ReadsSaved, MainIsThere, MovesWhatWasSaved, Moving
<1>6. MovedIsWhole'
  <2> SUFFICES ASSUME ~dbPast'.spilt, NEW i \in 1 .. Len(aside)
               PROVE  \A c \in Whole(aside[i]) : c.rows = aside[i].had
    BY <1>1 DEF MovedIsWhole, Whole, Moving
  <2>1. CASE Moving /\ i = Len(aside)
    <3>1. aside[i].log = {} /\ aside[i].had = saved /\ aside[i] \in SetAside
      BY <2>1, ElementOfSeq DEF FilesInv, MovesWhatWasSaved, DatabaseTypeOK
    <3>2. CASE server.at = "moveMain"
      BY <3>1, <3>2, <2>1 DEF Whole, FilesInv, MovesWhatWasSaved
    <3>3. CASE server.at = "moveLog"
      BY <1>2, <2>1, <3>1, <3>3 DEF Whole, FilesInv, MovesWhatWasSaved
    <3>4. QED
      BY <2>1, <3>2, <3>3 DEF Moving
  <2>2. CASE ~(Moving /\ i = Len(aside))
    BY <1>2, <2>2 DEF FilesInv, MovedIsWhole
  <2>3. QED
    BY <2>1, <2>2
<1>7. ObsoleteForACause'
  <2>1. \A i \in 1 .. Len(aside') : aside'[i].why = "obsolete" => dbPast'.cause
    BY <1>1, <1>2 DEF FilesInv, ObsoleteForACause
  <2>2. ASSUME ~dbPast'.cause
        PROVE  \A c \in Content : /\ "oldSnapshots" \notin c.tables /\ "uniqueBindings" \notin c.tables
                                  /\ "bindings" \in c.tables => "bindingsIndex" \in c.tables
    BY <1>2, <2>2, StatementFacts DEF FilesInv, ObsoleteForACause, DatabaseTypeOK
  <2>3. QED
    BY <1>3, <2>1, <2>2 DEF ObsoleteForACause
<1>8. QED
  BY <1>4, <1>5, <1>6, <1>7 DEF FilesInv

\* A save writes what it gives and keeps the rest.
LEMMA SaveStep ==
    ASSUME DatabaseTypeOK, FilesInv, NEW updates, saveSettings(updates),
           \A rows \in Row : With(rows, updates) \in Row,
           form' \in Form
    PROVE  DatabaseTypeOK' /\ FilesInv'
<1>1. /\ server.at = "up" /\ main # {} /\ saved' = With(saved, updates)
      /\ UNCHANGED <<main, aside, server>>
  BY DEF saveSettings, FilesInv, MainIsThere
<1>2. /\ dbPast' \in Past /\ dbPast'.spilt = dbPast.spilt /\ dbPast'.cause = dbPast.cause
  BY DEF saveSettings, DatabaseTypeOK, Past
<1>3. PICK c \in Contents : Content = {c}
  BY <1>1, ContentFacts
<1> DEFINE d == [c EXCEPT !.rows = With(@, updates)]
<1>4. log' = {d}
  BY <1>3 DEF saveSettings
<1>5. c.rows = saved /\ c.rows \in Row
  BY <1>1, <1>3 DEF FilesInv, ReadsSaved, Contents
<1>6. d.rows = With(saved, updates) /\ d.tables = c.tables /\ d \in Contents
  BY <1>5 DEF Contents
<1> HIDE DEF d
<1>7. Content' = {d}
  BY <1>1, <1>4 DEF Content
<1>8. DatabaseTypeOK'
  <2>1. log' \in OneOf(Contents)
    BY <1>4, <1>6, OneOfFacts
  <2>2. saved' \in Row
    BY <1>1 DEF DatabaseTypeOK
  <2>3. QED
    BY <1>1, <1>2, <2>1, <2>2 DEF DatabaseTypeOK
<1>9. ReadsSaved' /\ MainIsThere' /\ MovesWhatWasSaved' /\ MovedIsWhole'
  BY <1>1, <1>2, <1>6, <1>7 DEF FilesInv, ReadsSaved, MainIsThere, MovesWhatWasSaved, MovedIsWhole,
        Moving, Whole
<1>10. ObsoleteForACause'
  BY <1>1, <1>2, <1>3, <1>6, <1>7 DEF FilesInv, ObsoleteForACause
<1>11. QED
  BY <1>8, <1>9, <1>10 DEF FilesInv

-----------------------------------------------------------------------------
(* The steps of the page. *)

\* A step of the page alone keeps the invariant if the page it makes fits.
LEMMA FormOnlyStep ==
    ASSUME DatabaseInv, NEW f \in Form, Fits(f), FormOnly(f)
    PROVE  DatabaseInv'
<1>1. form' = f /\ UNCHANGED <<main, log, aside, server, saved, dbPast>>
  BY DEF FormOnly
<1>2. DatabaseTypeOK'
  BY <1>1 DEF DatabaseInv, DatabaseTypeOK
<1>3. FilesInv'
  BY <1>1 DEF DatabaseInv, FilesInv, ReadsSaved, MainIsThere, MovesWhatWasSaved, MovedIsWhole,
              ObsoleteForACause, Moving, Content, Whole
<1>4. FormInv'
  BY <1>1 DEF FormInv, Fits, Accounted
<1>5. QED
  BY <1>2, <1>3, <1>4 DEF DatabaseInv

\* What has changed is the page's own from then on, so that it still fits.
LEMMA StaleFits ==
    ASSUME NEW f \in Form, Fits(f), NEW S \in SUBSET Setting, form' = Stale(f, S),
           \A s \in Setting : saved'[s] # saved[s] => s \in S
    PROVE  FormInv'
<1>1. /\ form'.at = f.at /\ form'.fields = f.fields /\ form'.answer = f.answer
      /\ f.at # "closed" => form'.own = f.own \cup S
      /\ form'.put = {[p EXCEPT !.own = @ \cup S] : p \in f.put}
  BY StaleFacts
<1>2. \A fields, own : Accounted(fields, own) =>
         \A s \in Setting : fields[s] # saved'[s] => s \in own \cup S
  BY DEF Accounted
<1>3. form'.at = "closed" => form'.answer = {}
  BY <1>1 DEF Fits
<1>4. form'.at = "shown" => \A s \in Setting : form'.fields[s] # saved'[s] => s \in form'.own
  BY <1>1, <1>2 DEF Fits
<1>5. \A a \in form'.answer : \A s \in Setting : a[s] # saved'[s] => s \in form'.own
  BY <1>1, <1>2 DEF Fits
<1>6. \A q \in form'.put : \A s \in Setting : q.fields[s] # saved'[s] => s \in q.own
  <2> SUFFICES ASSUME NEW q \in form'.put
               PROVE  \A s \in Setting : q.fields[s] # saved'[s] => s \in q.own
    OBVIOUS
  <2>1. PICK p \in f.put : q = [p EXCEPT !.own = @ \cup S]
    BY <1>1
  <2>2. p \in Put
    BY OneOfFacts DEF Form
  <2>3. q.fields = p.fields /\ q.own = p.own \cup S
    BY <2>1, <2>2 DEF Put
  <2>4. QED
    BY <1>2, <2>3 DEF Fits
<1>7. QED
  BY <1>3, <1>4, <1>5, <1>6 DEF FormInv, Fits, Accounted

\* The fields of an empty page.
LEMMA NoFormFacts ==
    /\ NoForm.at = "closed" /\ NoForm.fields = NoRows /\ NoForm.answer = {} /\ NoForm.own = {}
    /\ NoForm.put = {} /\ NoForm \in Form
BY RowFacts, OneOfFacts DEF NoForm, Form

\* The page is opened, loaded, closed, edited and saved.
LEMMA PageStep ==
    ASSUME DatabaseInv,
           \/ OpenPage \/ ClosePage \/ GetServed \/ SettingsArrive \/ LoadFails
           \/ handleSave \/ SaveFails
           \/ \E s \in Setting, v \in Value : Edit(s, v)
    PROVE  DatabaseInv' /\ UNCHANGED saved
<1>0. /\ form \in Form /\ Fits(form)
      /\ form.put \in OneOf(Put) /\ form.answer \in OneOf(Row) /\ form.own \in SUBSET Setting
      /\ form.fields \in Row
  BY DEF DatabaseInv, DatabaseTypeOK, FormInv, Form
<1> SUFFICES \E f \in Form : Fits(f) /\ FormOnly(f)
  BY FormOnlyStep DEF FormOnly
<1>1. CASE OpenPage
  <2> DEFINE f == [NoForm EXCEPT !.at = "loading", !.put = form.put]
  <2>1. f \in Form /\ f.at = "loading" /\ f.answer = {} /\ f.put = form.put
    BY <1>0, NoFormFacts DEF Form
  <2>2. FormOnly(f)
    BY <1>1 DEF OpenPage
  <2> HIDE DEF f
  <2>3. Fits(f)
    BY <1>0, <2>1 DEF Fits
  <2>4. QED
    BY <2>1, <2>2, <2>3
<1>2. CASE ClosePage
  <2> DEFINE f == [NoForm EXCEPT !.put = form.put]
  <2>1. f \in Form /\ f.at = "closed" /\ f.answer = {} /\ f.put = form.put
    BY <1>0, NoFormFacts DEF Form
  <2>2. FormOnly(f)
    BY <1>2 DEF ClosePage
  <2> HIDE DEF f
  <2>3. Fits(f)
    BY <1>0, <2>1 DEF Fits
  <2>4. QED
    BY <2>1, <2>2, <2>3
<1>3. CASE GetServed
  <2>1. getSettings = saved /\ saved \in Row /\ form.at = "loading"
    BY <1>3, SettingsAreSaved DEF GetServed, DatabaseInv, DatabaseTypeOK
  <2> DEFINE f == [form EXCEPT !.answer = {saved}, !.own = {}]
  <2>2. {saved} \in OneOf(Row)
    BY <2>1, OneOfFacts
  <2>3. f \in Form /\ f.at = "loading" /\ f.answer = {saved} /\ f.own = {} /\ f.put = form.put
    BY <1>0, <2>1, <2>2 DEF Form
  <2>4. FormOnly(f)
    BY <1>3, <2>1 DEF GetServed
  <2> HIDE DEF f
  <2>5. Fits(f)
    BY <1>0, <2>3 DEF Fits, Accounted
  <2>6. QED
    BY <2>3, <2>4, <2>5
<1>4. CASE SettingsArrive
  <2>1. PICK a \in form.answer :
          FormOnly([form EXCEPT !.at = "shown", !.answer = {}, !.fields = a])
    BY <1>4 DEF SettingsArrive
  <2>2. a \in Row /\ {} \in OneOf(Row)
    BY <1>0, OneOfFacts
  <2> DEFINE f == [form EXCEPT !.at = "shown", !.answer = {}, !.fields = a]
  <2>3. f \in Form /\ f.at = "shown" /\ f.answer = {} /\ f.fields = a /\ f.own = form.own
        /\ f.put = form.put
    BY <1>0, <2>2 DEF Form
  <2> HIDE DEF f
  <2>4. Fits(f)
    BY <1>0, <2>3 DEF Fits
  <2>5. QED
    BY <2>1, <2>3, <2>4 DEF f
<1>5. CASE LoadFails
  <2> DEFINE f == [form EXCEPT !.at = "shown", !.answer = {}, !.own = Setting]
  <2>1. f \in Form /\ f.at = "shown" /\ f.answer = {} /\ f.own = Setting /\ f.put = form.put
    BY <1>0, OneOfFacts DEF Form
  <2>2. FormOnly(f)
    BY <1>5 DEF LoadFails
  <2> HIDE DEF f
  <2>3. Fits(f)
    BY <1>0, <2>1 DEF Fits, Accounted
  <2>4. QED
    BY <2>1, <2>2, <2>3
<1>6. CASE handleSave
  <2>1. form.at = "shown"
    BY <1>6 DEF handleSave
  <2> DEFINE p == [fields |-> form.fields, own |-> form.own]
  <2>2. p \in Put /\ p.fields = form.fields /\ p.own = form.own
    BY <1>0 DEF Put
  <2>3. {p} \in OneOf(Put)
    BY <2>2, OneOfFacts
  <2>4. FormOnly([form EXCEPT !.put = {p}])
    BY <1>6 DEF handleSave
  <2> HIDE DEF p
  <2> DEFINE f == [form EXCEPT !.put = {p}]
  <2>5. f \in Form /\ f.at = form.at /\ f.answer = form.answer /\ f.own = form.own
        /\ f.fields = form.fields /\ f.put = {p}
    BY <1>0, <2>3 DEF Form
  <2> HIDE DEF f
  <2>6. Fits(f)
    BY <1>0, <2>1, <2>2, <2>5 DEF Fits
  <2>7. QED
    BY <2>4, <2>5, <2>6 DEF f
<1>7. CASE SaveFails
  <2> DEFINE f == [form EXCEPT !.put = {}]
  <2>1. f \in Form /\ f.at = form.at /\ f.answer = form.answer /\ f.own = form.own
        /\ f.fields = form.fields /\ f.put = {}
    BY <1>0, OneOfFacts DEF Form
  <2>2. FormOnly(f)
    BY <1>7 DEF SaveFails
  <2> HIDE DEF f
  <2>3. Fits(f)
    BY <1>0, <2>1 DEF Fits
  <2>4. QED
    BY <2>1, <2>2, <2>3
<1>8. CASE \E s \in Setting, v \in Value : Edit(s, v)
  <2>1. PICK s \in Setting, v \in Value : Edit(s, v)
    BY <1>8
  <2> DEFINE fields == [form.fields EXCEPT ![s] = v]
  <2> DEFINE own == form.own \cup {s}
  <2>2. fields \in Row /\ own \in SUBSET Setting
    BY <1>0 DEF Row
  <2>3. form.at = "shown" /\ FormOnly([form EXCEPT !.fields = fields, !.own = own])
    BY <2>1 DEF Edit
  <2>4. Accounted(fields, own) /\ \A a : Accounted(a, form.own) => Accounted(a, own)
    BY <1>0, <2>3 DEF Fits, Accounted, Row
  <2> HIDE DEF fields, own
  <2> DEFINE f == [form EXCEPT !.fields = fields, !.own = own]
  <2>5. f \in Form /\ f.at = "shown" /\ f.answer = form.answer /\ f.own = own
        /\ f.fields = fields /\ f.put = form.put
    BY <1>0, <2>2, <2>3 DEF Form
  <2> HIDE DEF f
  <2>6. Fits(f)
    BY <1>0, <2>4, <2>5 DEF Fits
  <2>7. QED
    BY <2>3, <2>5, <2>6 DEF f
<1>9. QED
  BY <1>1, <1>2, <1>3, <1>4, <1>5, <1>6, <1>7, <1>8

\* Somebody else saves a setting: it no longer is what the page was given.
LEMMA SaveElsewhereStep ==
    ASSUME DatabaseInv, NEW s \in Setting, NEW v \in Value, SaveElsewhere(s, v)
    PROVE  DatabaseInv' /\ (form'.put = {} => form.put = {})
<1>1. /\ form \in Form /\ Fits(form) /\ saved \in Row
      /\ form' = Stale(form, {s}) /\ saveSettings([x \in {s} |-> v])
  BY DEF DatabaseInv, DatabaseTypeOK, FormInv, SaveElsewhere
<1>2. form' \in Form /\ (form'.put = {} => form.put = {})
  BY <1>1, StaleFacts
<1>3. \A rows \in Row : With(rows, [x \in {s} |-> v]) \in Row
  BY RowFacts
<1>4. DatabaseTypeOK' /\ FilesInv'
  BY <1>1, <1>2, <1>3, SaveStep DEF DatabaseInv
<1>5. \A t \in Setting : saved'[t] # saved[t] => t \in {s}
  <2> DEFINE updates == [x \in {s} |-> v]
  <2>1. saved' = With(saved, updates)
    BY <1>1 DEF saveSettings
  <2>2. \A t \in Setting \ {s} : With(saved, updates)[t] = saved[t]
    BY <1>1, RowFacts
  <2> HIDE DEF updates
  <2>3. QED
    BY <2>1, <2>2
<1>6. FormInv'
  BY <1>1, <1>5, StaleFits
<1>7. QED
  BY <1>2, <1>4, <1>6 DEF DatabaseInv

\* The save of the page is carried out: it changes what is accounted for.
LEMMA PutServedStep ==
    ASSUME DatabaseInv, PutServed
    PROVE  /\ DatabaseInv'
           /\ \A p \in form.put, s \in Setting : saved'[s] # saved[s] => s \in p.own
<1>1. /\ form \in Form /\ Fits(form) /\ saved \in Row /\ form.put \in OneOf(Put)
  BY DEF DatabaseInv, DatabaseTypeOK, FormInv, Form
<1>2. PICK p \in form.put : saveSettings(p.fields)
  BY DEF PutServed
<1>3. p \in Put /\ p.fields \in Row /\ form.put = {p}
  <2>1. p \in Put /\ form.put = {p}
    BY <1>1, OneOfFacts
  <2>2. QED
    BY <2>1 DEF Put
<1>4. saved' = p.fields
  BY <1>1, <1>2, <1>3, RowFacts DEF saveSettings
<1> DEFINE f == [form EXCEPT !.put = {}]
<1> DEFINE S == {s \in Setting : saved'[s] # saved[s]}
<1>5. f \in Form /\ f.at = form.at /\ f.answer = form.answer /\ f.own = form.own
      /\ f.fields = form.fields /\ f.put = {}
  BY <1>1, OneOfFacts DEF Form
<1>6. form' = Stale(f, S) /\ S \in SUBSET Setting
  BY DEF PutServed
<1> HIDE DEF f, S
<1>7. Fits(f)
  BY <1>1, <1>5 DEF Fits
<1>8. form' \in Form
  BY <1>5, <1>6, StaleFacts
<1>9. FormInv'
  <2>1. \A s \in Setting : saved'[s] # saved[s] => s \in S
    BY DEF S
  <2>2. QED
    BY <1>5, <1>6, <1>7, <2>1, StaleFits
<1>10. DatabaseTypeOK' /\ FilesInv'
  <2>1. \A rows \in Row : With(rows, p.fields) \in Row
    BY <1>3, RowFacts
  <2>2. QED
    BY <1>2, <1>8, <2>1, SaveStep DEF DatabaseInv
<1>11. \A s \in Setting : saved'[s] # saved[s] => s \in p.own
  BY <1>1, <1>4 DEF Fits, Accounted
<1>12. QED
  BY <1>3, <1>9, <1>10, <1>11 DEF DatabaseInv

-----------------------------------------------------------------------------
(* The theorems. *)

\* The server starts on no database, or on one that some version has made.
LEMMA DatabaseInitInv == DatabaseInit => DatabaseInv
<1> SUFFICES ASSUME DatabaseInit PROVE DatabaseInv
  OBVIOUS
<1>1. /\ aside = <<>> /\ server = [at |-> "down", statement |-> 0] /\ form = NoForm
      /\ saved = getSettings /\ dbPast.cause = needsDatabaseReset(FALSE)
  BY DEF DatabaseInit
<1>2. dbPast \in Past
  <2>1. needsDatabaseReset(FALSE) \in BOOLEAN
    BY DEF needsDatabaseReset
  <2>2. PICK b \in BOOLEAN : b = needsDatabaseReset(FALSE)
    BY <2>1
  <2>3. dbPast = [saves |-> 0, kills |-> 0, spilt |-> FALSE, cause |-> b]
    BY <2>2 DEF DatabaseInit
  <2>4. QED
    BY <2>3 DEF Past
<1>3. /\ main \in OneOf(Contents) /\ log \in OneOf(Contents)
      /\ \A c \in Content : c.tables \in Versions
      /\ saved \in Row
      /\ main # {} => \A c \in Content : c.rows = saved
  <2>1. CASE main = {} /\ log = {}
    BY <1>1, <2>1, RowFacts, OneOfFacts DEF Content, getSettings
  <2>2. CASE ~(main = {} /\ log = {})
    <3>1. PICK v \in Versions, s \in Setting, x \in Value \ {Default} :
            /\ main = {[tables |-> v, rows |-> NoRows]}
            /\ log \in {{}, {[tables |-> v, rows |-> [NoRows EXCEPT ![s] = x]]}}
      BY <2>2 DEF DatabaseInit
    <3>2. v \in SUBSET Tables
      <4>1. AllTables \subseteq Tables
        BY StatementFacts DEF AllTables, Statements, Tables
      <4>2. QED
        BY <4>1 DEF Versions, Tables
    <3>3. NoRows \in Row /\ [NoRows EXCEPT ![s] = x] \in Row
      BY RowFacts DEF Row
    <3> DEFINE old == [tables |-> v, rows |-> NoRows]
    <3> DEFINE new == [tables |-> v, rows |-> [NoRows EXCEPT ![s] = x]]
    <3>4. old \in Contents /\ new \in Contents /\ old.tables = v /\ new.tables = v
          /\ old.rows \in Row /\ new.rows \in Row
      BY <3>2, <3>3 DEF Contents
    <3>5. main = {old} /\ (log = {} \/ log = {new})
      BY <3>1
    <3> HIDE DEF old, new
    <3>6. Content = {old} \/ Content = {new}
      BY <3>5 DEF Content
    <3>7. saved \in {old.rows, new.rows} /\ \A c \in Content : c.rows = saved
      BY <1>1, <3>6 DEF getSettings
    <3>8. /\ main \in OneOf(Contents) /\ log \in OneOf(Contents)
      <4>1. {} \in OneOf(Contents) /\ {old} \in OneOf(Contents) /\ {new} \in OneOf(Contents)
        BY <3>4, OneOfFacts
      <4>2. QED
        BY <3>5, <4>1
    <3>9. \A c \in Content : c.tables \in Versions
      BY <3>4, <3>6
    <3>10. saved \in Row
      BY <3>4, <3>7
    <3>11. QED
      BY <3>7, <3>8, <3>9, <3>10
  <2>3. QED
    BY <2>1, <2>2
<1>4. DatabaseTypeOK
  <2>1. aside \in Seq(SetAside)
    BY <1>1
  <2>2. QED
    BY <1>1, <1>2, <1>3, <2>1, NoFormFacts DEF DatabaseTypeOK, Step
<1>5. ReadsSaved /\ MainIsThere /\ MovesWhatWasSaved /\ MovedIsWhole
  BY <1>1, <1>3 DEF ReadsSaved, MainIsThere, MovesWhatWasSaved, MovedIsWhole, Moving
<1>6. ObsoleteForACause
  <2> SUFFICES ASSUME ~needsDatabaseReset(FALSE), NEW c \in Content
               PROVE  /\ "oldSnapshots" \notin c.tables /\ "uniqueBindings" \notin c.tables
                      /\ "bindings" \in c.tables => "bindingsIndex" \in c.tables
    <3>1. \A i \in 1 .. Len(aside) : FALSE
      BY <1>1
    <3>2. ~dbPast.cause => ~needsDatabaseReset(FALSE)
      BY <1>1, Zenon
    <3>3. QED
      BY <3>1, <3>2, Zenon DEF ObsoleteForACause
  <2>1. /\ "oldSnapshots" \notin c.tables
        /\ "snapshots" \in c.tables => ~hasLegacyPersonBindingsSchema(c)
    BY DEF needsDatabaseReset
  <2>2. "snapshots" \in c.tables \/ "oldSnapshots" \in c.tables
    <3>1. "snapshots" \in AllTables
      BY StatementFacts DEF AllTables, Statements
    <3>2. QED
      BY <1>3, <3>1 DEF Versions
  <2>3. QED
    BY <2>1, <2>2 DEF hasLegacyPersonBindingsSchema
<1>7. FormInv
  BY <1>1, NoFormFacts DEF FormInv, Fits
<1>8. QED
  BY <1>4, <1>5, <1>6, <1>7 DEF DatabaseInv, FilesInv

\* What a step of the page overwrites when its save is done is its own.
SavesItsOwn ==
    form'.put = {} =>
       \A p \in form.put, s \in Setting : saved'[s] # saved[s] => s \in p.own

\* The files move under a page that stays as it is, unless a new file is made.
LEMMA FileStep ==
    ASSUME DatabaseInv,
           \/ \E fails \in BOOLEAN : getDatabase(fails)
           \/ MoveMain \/ MoveLog \/ OpenDatabase \/ initSchema \/ Checkpoint \/ Kill
    PROVE  DatabaseInv' /\ SavesItsOwn
<1>1. DatabaseTypeOK' /\ FilesInv'
  BY GetDatabaseStep, MoveMainStep, MoveLogStep, OpenStep, SchemaStep, CheckpointStep, KillStep
     DEF DatabaseInv
<1>2. \/ UNCHANGED <<form, saved>>
      \/ form' = Stale(form, Setting)
  BY DEF getDatabase, MoveMain, MoveLog, OpenDatabase, initSchema, Checkpoint, Kill
<1>3. form \in Form /\ Fits(form)
  BY DEF DatabaseInv, DatabaseTypeOK, FormInv
<1>4. FormInv'
  <2>1. CASE UNCHANGED <<form, saved>>
    BY <1>3, <2>1 DEF FormInv, Fits, Accounted
  <2>2. CASE form' = Stale(form, Setting)
    BY <1>3, <2>2, StaleFits
  <2>3. QED
    BY <1>2, <2>1, <2>2
<1>5. SavesItsOwn
  <2>1. CASE UNCHANGED <<form, saved>>
    BY <2>1 DEF SavesItsOwn
  <2>2. CASE form' = Stale(form, Setting)
    <3>1. form'.put = {} => form.put = {}
      BY <1>3, <2>2, StaleFacts
    <3>2. QED
      BY <3>1 DEF SavesItsOwn
  <2>3. QED
    BY <1>2, <2>1, <2>2
<1>6. QED
  BY <1>1, <1>4, <1>5 DEF DatabaseInv

\* Every step keeps the invariant, and saves what is its own.
LEMMA DatabaseStep ==
    ASSUME DatabaseInv, [DatabaseNext]_dbVars
    PROVE  DatabaseInv' /\ SavesItsOwn
<1>1. CASE UNCHANGED dbVars \/ ReadElsewhere
  <2>1. UNCHANGED dbVars
    BY <1>1 DEF ReadElsewhere
  <2>2. DatabaseInv'
    BY <2>1 DEF dbVars, DatabaseInv, DatabaseTypeOK, FilesInv, ReadsSaved, MainIsThere,
              MovesWhatWasSaved, MovedIsWhole, ObsoleteForACause, Moving, Content, Whole,
              FormInv, Fits, Accounted
  <2>3. QED
    BY <2>1, <2>2 DEF dbVars, SavesItsOwn
<1>2. CASE \/ \E fails \in BOOLEAN : getDatabase(fails)
           \/ MoveMain \/ MoveLog \/ OpenDatabase \/ initSchema \/ Checkpoint \/ Kill
  BY <1>2, FileStep
<1>3. CASE \E s \in Setting, v \in Value : SaveElsewhere(s, v)
  BY <1>3, SaveElsewhereStep DEF SavesItsOwn
<1>4. CASE PutServed
  BY <1>4, PutServedStep DEF SavesItsOwn
<1>5. CASE \/ OpenPage \/ ClosePage \/ GetServed \/ SettingsArrive \/ LoadFails
           \/ handleSave \/ SaveFails
           \/ \E s \in Setting, v \in Value : Edit(s, v)
  <2>1. DatabaseInv' /\ saved' = saved
    BY <1>5, PageStep
  <2>2. QED
    BY <2>1 DEF SavesItsOwn
<1>6. QED
  BY <1>1, <1>2, <1>3, <1>4, <1>5 DEF DatabaseNext, FileNext, FormNext

\* What was saved is read whenever the server is up, or is whole in what was set
\* aside, however starts, kills and unreadable files follow each other; and a
\* readable database is set aside for a cause only.
THEOREM DatabaseAlwaysKept == DatabaseSpec => []DatabaseIsKept
<1>1. DatabaseInv => DatabaseIsKept
  <2> SUFFICES ASSUME DatabaseInv PROVE DatabaseIsKept
    OBVIOUS
  <2>1. server.at = "up" => getSettings = saved
    BY SettingsAreSaved DEF DatabaseInv
  <2>2. DOMAIN aside = 1 .. Len(aside)
    BY LenProperties DEF DatabaseInv, DatabaseTypeOK
  <2>3. server.at \notin {"moveMain", "moveLog"} /\ ~dbPast.spilt =>
          \A i \in DOMAIN aside : \A c \in Whole(aside[i]) : c.rows = aside[i].had
    BY <2>2 DEF DatabaseInv, FilesInv, MovedIsWhole, Moving
  <2>4. \A i \in DOMAIN aside : aside[i].why = "obsolete" => dbPast.cause
    BY <2>2 DEF DatabaseInv, FilesInv, ObsoleteForACause
  <2>5. QED
    BY <2>1, <2>3, <2>4 DEF DatabaseIsKept
<1>2. DatabaseInv /\ [DatabaseNext]_dbVars => DatabaseInv'
  BY DatabaseStep
<1>3. QED
  BY <1>1, <1>2, DatabaseInitInv, PTL DEF DatabaseSpec

\* A save of the page changes only what the user has set, or what was changed by
\* others since the page was loaded, in whatever order loads, saves and restarts
\* are answered.
THEOREM SavesAlwaysKeepTheRest == DatabaseSpec => SaveKeepsTheRest
<1>1. DatabaseInv /\ [DatabaseNext]_dbVars => DatabaseInv' /\ SavesItsOwn
  BY DatabaseStep
<1>2. QED
  BY <1>1, DatabaseInitInv, PTL DEF DatabaseSpec, SaveKeepsTheRest, SavesItsOwn

-----------------------------------------------------------------------------
(***************************************************************************)
(* The alerts of a node.                                                   *)
(***************************************************************************)

USE DEF None, Older

\* The keys of different alerts differ, and ages are compared in the numbers.
LEMMA Keys ==
    /\ Metric \cap Process = {}
    /\ Agent \notin Metric \cup Process
    /\ Longest \in Nat /\ Longest >= Duration /\ Longest >= IdleDuration
    /\ Touched \subseteq Key /\ Metric \subseteq Key /\ Process \subseteq Key
    /\ Agent \in Key
<1>1. Agent \notin Process
  BY DEF Agent, Process
<1>2. Agent \notin Metric /\ Metric \cap Process = {}
  BY AlertLoopAssumption DEF Agent, Process, Metric
<1>3. QED
  BY <1>1, <1>2, AlertLoopAssumption DEF Longest, Key, Metric

-----------------------------------------------------------------------------
(* The lifecycle of an alert. *)

\* What the reconciliation of a report or a sweep does to the tables.
LEMMA ReconcileStep ==
    ASSUME alert \in [Key -> Status], NEW A, ReconcileAlerts(A)
    PROVE  Lifecycle!Detect
<1>1. /\ alert' \in [Key -> Status]
      /\ \A k \in Key : alert'[k] =
            IF k \in A THEN IF alert[k] = "silenced" THEN "silenced" ELSE "active"
            ELSE IF alert[k] = "active" THEN "resolved" ELSE alert[k]
  BY DEF ReconcileAlerts, Reconciled, Status
<1>2. \A k \in Key : alert[k] \in Status
  OBVIOUS
<1>3. ASSUME NEW k \in Key
      PROVE  \/ <<alert[k], alert'[k]>> = <<"none", "active">>
             \/ <<alert[k], alert'[k]>> = <<"resolved", "active">>
             \/ <<alert[k], alert'[k]>> = <<"active", "resolved">>
             \/ <<alert[k], alert'[k]>> = <<alert[k], alert[k]>>
  BY <1>1, <1>2 DEF Status
<1>4. QED
  BY <1>1, <1>3 DEF Lifecycle!Detect, Lifecycle!Raise, Lifecycle!Recover, Status

AlertsOK == alert \in [Key -> Status]

\* Every action is a step of the lifecycle or leaves the alerts alone.
LEMMA LifecycleStep ==
    AlertsOK /\ [Next]_vars => AlertsOK' /\ [Lifecycle!Next]_alert
<1> SUFFICES ASSUME AlertsOK, [Next]_vars
             PROVE  AlertsOK' /\ [Lifecycle!Next]_alert
  OBVIOUS
<1> USE DEF AlertsOK
<1>1. ASSUME NEW A, ReconcileAlerts(A) PROVE AlertsOK' /\ [Lifecycle!Next]_alert
  BY <1>1, ReconcileStep DEF Lifecycle!Next, Lifecycle!Detect, Status
<1>2. ASSUME NEW k \in Touched, SetStatus(k, {"active", "resolved"}, "silenced")
      PROVE  AlertsOK' /\ [Lifecycle!Next]_alert
  <2>1. k \in Key /\ Lifecycle!Silence(k)
    BY <1>2, Keys DEF SetStatus, Lifecycle!Silence
  <2>2. QED
    BY <2>1 DEF Lifecycle!Next, Lifecycle!Silence, Status
<1>3. ASSUME NEW k \in Touched, SetStatus(k, {"silenced"}, "resolved")
      PROVE  AlertsOK' /\ [Lifecycle!Next]_alert
  <2>1. k \in Key /\ Lifecycle!Unsilence(k)
    BY <1>3, Keys DEF SetStatus, Lifecycle!Unsilence
  <2>2. QED
    BY <2>1 DEF Lifecycle!Next, Lifecycle!Unsilence, Status
<1>4. ASSUME UNCHANGED alert PROVE AlertsOK' /\ [Lifecycle!Next]_alert
  BY <1>4
<1>5. CASE Report
  BY <1>1, <1>5 DEF Report, ProcessReport
<1>6. CASE SweepOffline
  BY <1>1, <1>6 DEF SweepOffline
<1>7. ASSUME NEW k \in Touched,
             SilenceAlert(k) \/ UnsilenceAlert(k) \/ CrashWhileSetting(k)
      PROVE  AlertsOK' /\ [Lifecycle!Next]_alert
  BY <1>2, <1>3, <1>7 DEF SilenceAlert, UnsilenceAlert, CrashWhileSetting
<1>8. CASE Attach \/ Detach \/ Restart \/ TimePasses \/ UNCHANGED vars
  BY <1>4, <1>8 DEF Attach, Detach, Restart, TimePasses, tables, vars
<1>9. QED
  BY <1>5, <1>6, <1>7, <1>8 DEF Next

\* The alert loop implements the abstract lifecycle: no report, sweep, silencing,
\* crash or restart moves an alert along an edge the lifecycle does not have, and
\* detection alone never leaves a silenced alert anything but silenced.
THEOREM ImplementsLifecycle == Spec => LifecycleSpec
<1>1. Init => AlertsOK /\ Lifecycle!Init
  BY DEF Init, AlertsOK, Lifecycle!Init, Status
<1>2. QED
  BY <1>1, LifecycleStep, PTL DEF Spec, LifecycleSpec, Lifecycle!Spec

-----------------------------------------------------------------------------
(* Types. *)

\* The empty memory and the empty tables are of their types.
LEMMA TypeInit == Init => TypeOK
<1> SUFFICES ASSUME Init PROVE TypeOK
  OBVIOUS
<1>1. None \in None..Duration /\ None \in None..IdleDuration /\ None \in None..Longest
  BY AlertLoopAssumption, Keys
<1>2. /\ breached \in [Metric -> None..Duration]
      /\ isActive \subseteq {m \in Metric : breached[m] # None}
      /\ tracked \in [Process -> None..IdleDuration]
      /\ indexed = {p \in Process : tracked[p] # None}
      /\ lasting \in [Metric \cup Process -> None..Longest]
  BY <1>1 DEF Init
<1>3. /\ attached \in BOOLEAN
      /\ quiet \in None..(OfflineAfter + 1)
      /\ attached => quiet # None
      /\ restarts \in 0..MaxRestarts
  <2>1. attached = FALSE /\ quiet = -1 /\ restarts = 0
    BY DEF Init
  <2>2. -1 \in (-1)..(OfflineAfter + 1) /\ 0 \in 0..MaxRestarts
    BY AlertLoopAssumption
  <2>3. QED
    BY <2>1, <2>2, Zenon
<1>4. alert \in [Key -> Status] /\ logged \in [Key -> Status] /\ shown \subseteq Key
  BY DEF Init, Status
<1>5. QED
  BY <1>2, <1>3, <1>4 DEF TypeOK

\* What a report leaves of the detectors' state.
LEMMA DetectorsType ==
    ASSUME TypeOK, NEW carried \in SUBSET Metric, NEW over \in SUBSET carried,
           NEW busy \in SUBSET Card, NEW found \in SUBSET Process,
           ProcessReport(carried, over, busy, found)
    PROVE  /\ breached' \in [Metric -> None..Duration]
           /\ isActive' \subseteq {m \in Metric : breached'[m] # None}
           /\ tracked' \in [Process -> None..IdleDuration]
           /\ indexed' = {p \in Process : tracked'[p] # None}
           /\ lasting' \in [Metric \cup Process -> None..Longest]
<1> USE AlertLoopAssumption, Keys
<1>0. /\ breached \in [Metric -> None..Duration]
      /\ isActive \subseteq {m \in Metric : breached[m] # None}
      /\ tracked \in [Process -> None..IdleDuration]
      /\ indexed = {p \in Process : tracked[p] # None}
      /\ lasting \in [Metric \cup Process -> None..Longest]
  BY DEF TypeOK
<1>1. breached' \in [Metric -> None..Duration]
  BY <1>0 DEF ProcessReport, SinceBreach
<1>2. ASSUME NEW m \in isActive' PROVE m \in Metric /\ breached'[m] # None
  BY <1>0, <1>2 DEF ProcessReport, SinceBreach, NowActive
<1>3. tracked' \in [Process -> None..IdleDuration]
  BY <1>0 DEF ProcessReport, NowTracked
<1>4. ASSUME NEW p \in Process PROVE p \in found <=> tracked'[p] # None
  BY <1>0 DEF ProcessReport, NowTracked, KnownBefore
<1>5. lasting' \in [Metric \cup Process -> None..Longest]
  BY <1>0 DEF ProcessReport
<1>6. indexed' = found
  BY DEF ProcessReport
<1>7. QED
  BY <1>1, <1>2, <1>3, <1>4, <1>5, <1>6

\* Every action keeps the types.
LEMMA TypeStep == TypeOK /\ [Next]_vars => TypeOK'
<1> SUFFICES ASSUME TypeOK, [Next]_vars PROVE TypeOK'
  OBVIOUS
<1>0. /\ breached \in [Metric -> None..Duration]
      /\ isActive \subseteq {m \in Metric : breached[m] # None}
      /\ tracked \in [Process -> None..IdleDuration]
      /\ indexed = {p \in Process : tracked[p] # None}
      /\ attached \in BOOLEAN
      /\ quiet \in None..(OfflineAfter + 1)
      /\ attached => quiet # None
      /\ alert \in [Key -> Status]
      /\ logged \in [Key -> Status]
      /\ shown \subseteq Key
      /\ lasting \in [Metric \cup Process -> None..Longest]
      /\ restarts \in 0..MaxRestarts
  BY DEF TypeOK
<1>1. ASSUME NEW A, ReconcileAlerts(A)
      PROVE  alert' \in [Key -> Status] /\ logged' \in [Key -> Status] /\ shown' \subseteq Key
  <2>1. alert' \in [Key -> Status]
    BY <1>0, <1>1 DEF ReconcileAlerts, Reconciled, Status
  <2>2. logged' \in [Key -> Status]
    BY <1>0, <1>1, <2>1 DEF ReconcileAlerts, Written
  <2>3. QED
    BY <1>0, <1>1, <2>1, <2>2 DEF ReconcileAlerts, Broadcast
<1>2. ASSUME NEW k \in Touched, NEW from, NEW to \in Status, SetStatus(k, from, to)
      PROVE  /\ alert' \in [Key -> Status]
             /\ Written(alert, alert') \in [Key -> Status]
  BY <1>0, <1>2 DEF SetStatus, Written
<1>3. ASSUME Forget
      PROVE  /\ breached' \in [Metric -> None..Duration]
             /\ isActive' \subseteq {m \in Metric : breached'[m] # None}
             /\ tracked' \in [Process -> None..IdleDuration]
             /\ indexed' = {p \in Process : tracked'[p] # None}
             /\ attached' \in BOOLEAN
             /\ quiet' \in None..(OfflineAfter + 1)
             /\ attached' => quiet' # None
             /\ shown' \subseteq Key
             /\ lasting' \in [Metric \cup Process -> None..Longest]
             /\ restarts' \in 0..MaxRestarts
  <2>1. None \in None..Duration /\ None \in None..IdleDuration
        /\ None \in None..(OfflineAfter + 1)
    BY AlertLoopAssumption
  <2>2. /\ breached' \in [Metric -> None..Duration]
        /\ tracked' \in [Process -> None..IdleDuration]
        /\ indexed' = {p \in Process : tracked'[p] # None}
        /\ quiet' \in None..(OfflineAfter + 1)
    BY <1>3, <2>1 DEF Forget
  <2>3. restarts' \in 0..MaxRestarts
    BY <1>0, <1>3, AlertLoopAssumption DEF Forget
  <2>4. QED
    BY <1>0, <1>3, <2>2, <2>3 DEF Forget
<1>4. CASE Attach
  <2>1. quiet' \in None..(OfflineAfter + 1) /\ quiet' # None
    BY <1>0, <1>4, AlertLoopAssumption DEF Attach
  <2>2. QED
    BY <1>0, <1>4, <2>1 DEF Attach, memory, tables, TypeOK
<1>5. CASE Detach
  BY <1>0, <1>5 DEF Detach, memory, tables, TypeOK
<1>6. CASE Report
  <2>1. PICK left \in SUBSET Sometimes, busy \in SUBSET Card, found \in SUBSET Process :
            \E over \in SUBSET (Metric \ left) :
                ProcessReport(Metric \ left, over, busy, found)
    BY <1>6 DEF Report
  <2>2. PICK over \in SUBSET (Metric \ left) :
            ProcessReport(Metric \ left, over, busy, found)
    BY <2>1
  <2>3. Metric \ left \in SUBSET Metric
    OBVIOUS
  <2>4. /\ breached' \in [Metric -> None..Duration]
        /\ isActive' \subseteq {m \in Metric : breached'[m] # None}
        /\ tracked' \in [Process -> None..IdleDuration]
        /\ indexed' = {p \in Process : tracked'[p] # None}
        /\ lasting' \in [Metric \cup Process -> None..Longest]
    BY <2>1, <2>2, <2>3, DetectorsType
  <2>5. alert' \in [Key -> Status] /\ logged' \in [Key -> Status] /\ shown' \subseteq Key
    BY <1>1, <2>2 DEF ProcessReport
  <2>6. quiet' \in None..(OfflineAfter + 1) /\ quiet' # None
    BY <2>2, AlertLoopAssumption DEF ProcessReport
  <2>7. attached' \in BOOLEAN /\ restarts' \in 0..MaxRestarts
    BY <1>0, <2>2 DEF ProcessReport
  <2>8. QED
    BY <2>4, <2>5, <2>6, <2>7 DEF TypeOK
<1>7. CASE SweepOffline
  BY <1>0, <1>1, <1>7 DEF SweepOffline, memory, session, TypeOK
<1>8. ASSUME NEW k \in Touched, SilenceAlert(k) \/ UnsilenceAlert(k) PROVE TypeOK'
  <2>1. alert' \in [Key -> Status] /\ logged' \in [Key -> Status]
    BY <1>2, <1>8 DEF SilenceAlert, UnsilenceAlert, Status
  <2>2. UNCHANGED <<breached, isActive, tracked, indexed, attached, quiet, shown, lasting, restarts>>
    BY <1>8 DEF SilenceAlert, UnsilenceAlert, memory, session
  <2>3. QED
    BY <1>0, <2>1, <2>2 DEF TypeOK
<1>9. ASSUME NEW k \in Touched, CrashWhileSetting(k) PROVE TypeOK'
  <2>1. alert' \in [Key -> Status] /\ UNCHANGED logged
    BY <1>2, <1>9 DEF CrashWhileSetting, Status
  <2>2. Forget
    BY <1>9 DEF CrashWhileSetting
  <2>3. QED
    BY <1>0, <1>3, <2>1, <2>2 DEF TypeOK
<1>10. CASE Restart
  <2>1. UNCHANGED <<alert, logged>> /\ Forget
    BY <1>10 DEF Restart, tables
  <2>2. QED
    BY <1>0, <1>3, <2>1 DEF TypeOK
<1>11. CASE TimePasses
  <2>1. ASSUME NEW n \in Nat, NEW age \in None..n
        PROVE  Older(age, n) \in None..n /\ (Older(age, n) = None <=> age = None)
    OBVIOUS
  <2> HIDE DEF Older
  <2>2. breached' \in [Metric -> None..Duration]
        /\ \A m \in Metric : breached'[m] = None <=> breached[m] = None
    BY <1>0, <1>11, <2>1, AlertLoopAssumption DEF TimePasses
  <2>3. tracked' \in [Process -> None..IdleDuration]
        /\ \A p \in Process : tracked'[p] = None <=> tracked[p] = None
    BY <1>0, <1>11, <2>1, AlertLoopAssumption DEF TimePasses
  <2>4. lasting' \in [Metric \cup Process -> None..Longest]
    BY <1>0, <1>11, <2>1, Keys DEF TimePasses
  <2>5. quiet' \in None..(OfflineAfter + 1) /\ (quiet' = None <=> quiet = None)
    <3>1. OfflineAfter + 1 \in Nat
      BY AlertLoopAssumption
    <3>2. QED
      BY <1>0, <1>11, <2>1, <3>1 DEF TimePasses
  <2>6. UNCHANGED <<isActive, indexed, attached, alert, logged, shown, restarts>>
    BY <1>11 DEF TimePasses, tables
  <2>7. QED
    BY <1>0, <2>2, <2>3, <2>4, <2>5, <2>6 DEF TypeOK
<1>12. CASE UNCHANGED vars
  BY <1>0, <1>12 DEF vars, memory, session, tables, TypeOK
<1>13. QED
  BY <1>4, <1>5, <1>6, <1>7, <1>8, <1>9, <1>10, <1>11, <1>12 DEF Next

\* The state of the detectors, of the tables and of the frontends keeps its types;
\* every tracked process is in the index that it will be removed by.
THEOREM AlertTypeCorrect == Spec => []TypeOK
BY TypeInit, TypeStep, PTL DEF Spec

-----------------------------------------------------------------------------
(* Everybody knows of the active alerts. *)

\* Every action that makes an alert active logs and shows it.
LEMMA KnownStep == TypeOK /\ ActiveIsKnown /\ [Next]_vars => ActiveIsKnown'
<1> SUFFICES ASSUME TypeOK, ActiveIsKnown, [Next]_vars PROVE ActiveIsKnown'
  OBVIOUS
<1>0. /\ alert \in [Key -> Status] /\ logged \in [Key -> Status]
      /\ \A k \in Key : alert[k] = "active" => logged[k] = "active" /\ k \in shown
  BY DEF TypeOK, ActiveIsKnown
<1>1. ASSUME NEW A, ReconcileAlerts(A) PROVE ActiveIsKnown'
  <2> SUFFICES ASSUME NEW k \in Key, alert'[k] = "active"
               PROVE  logged'[k] = "active" /\ k \in shown'
    BY DEF ActiveIsKnown
  <2>1. alert[k] \in {"none", "active", "resolved"}
    BY <1>0, <1>1 DEF ReconcileAlerts, Reconciled, Status
  <2>2. logged'[k] = IF alert[k] = alert'[k] THEN logged[k] ELSE alert'[k]
    BY <1>1 DEF ReconcileAlerts, Written
  <2>3. k \in shown'
    BY <1>0, <1>1, <2>1 DEF ReconcileAlerts, Broadcast
  <2>4. QED
    BY <1>0, <2>1, <2>2, <2>3
<1>2. ASSUME NEW k \in Touched, NEW from, NEW to \in {"silenced", "resolved"},
             SetStatus(k, from, to)
      PROVE  \A l \in Key : alert'[l] = "active" =>
                alert[l] = "active" /\ Written(alert, alert')[l] = "active"
  BY <1>0, <1>2 DEF SetStatus, Written
<1>3. CASE Report
  BY <1>1, <1>3 DEF Report, ProcessReport
<1>4. CASE SweepOffline
  BY <1>1, <1>4 DEF SweepOffline
<1>5. ASSUME NEW k \in Touched, SilenceAlert(k) \/ UnsilenceAlert(k)
      PROVE  ActiveIsKnown'
  <2>1. logged' = Written(alert, alert') /\ UNCHANGED shown
    BY <1>5 DEF SilenceAlert, UnsilenceAlert
  <2>2. \A l \in Key : alert'[l] = "active" =>
            alert[l] = "active" /\ Written(alert, alert')[l] = "active"
    BY <1>2, <1>5 DEF SilenceAlert, UnsilenceAlert
  <2>3. QED
    BY <1>0, <2>1, <2>2 DEF ActiveIsKnown
<1>6. ASSUME NEW k \in Touched, CrashWhileSetting(k) PROVE ActiveIsKnown'
  <2>1. UNCHANGED logged /\ shown' = {l \in Key : alert'[l] = "active"}
    BY <1>6 DEF CrashWhileSetting, Forget
  <2>2. \A l \in Key : alert'[l] = "active" => alert[l] = "active"
    BY <1>2, <1>6 DEF CrashWhileSetting
  <2>3. QED
    BY <1>0, <2>1, <2>2 DEF ActiveIsKnown
<1>7. CASE Restart
  BY <1>0, <1>7 DEF Restart, Forget, tables, ActiveIsKnown
<1>8. CASE Attach \/ Detach \/ TimePasses \/ UNCHANGED vars
  BY <1>0, <1>8 DEF Attach, Detach, TimePasses, tables, vars, ActiveIsKnown
<1>9. QED
  BY <1>3, <1>4, <1>5, <1>6, <1>7, <1>8 DEF Next

\* An active alert is always in the table of transitions and always shown,
\* whether a crash has cut a change in two or the alert was silenced before.
THEOREM ActiveAlwaysKnown == Spec => []ActiveIsKnown
<1>1. Init => ActiveIsKnown
  BY DEF Init, ActiveIsKnown
<1>2. QED
  BY <1>1, TypeInit, TypeStep, KnownStep, PTL DEF Spec

-----------------------------------------------------------------------------
(* The duration before an alert. *)

\* The detectors never take a cause for older than the reports have shown it,
\* and a metric is active only if its window has been full.
Aged ==
    /\ \A m \in Metric : breached[m] <= lasting[m]
    /\ \A m \in isActive : breached[m] >= Duration
    /\ \A p \in Process : tracked[p] <= lasting[p]

\* A report keeps the ages in step, and what it raises has lasted.
LEMMA AgedReport ==
    ASSUME TypeOK, Aged, NEW carried \in SUBSET Metric, NEW over \in SUBSET carried,
           NEW busy \in SUBSET Card, NEW found \in SUBSET Process,
           ProcessReport(carried, over, busy, found)
    PROVE  /\ Aged'
           /\ \A m \in isActive' \cap carried : lasting[m] >= Duration \/ Duration = 0
           /\ \A p \in NowIdle(busy, found) : lasting[p] >= IdleDuration
<1> USE AlertLoopAssumption, Keys
<1>0. /\ breached \in [Metric -> None..Duration]
      /\ isActive \subseteq {m \in Metric : breached[m] # None}
      /\ tracked \in [Process -> None..IdleDuration]
      /\ indexed = {p \in Process : tracked[p] # None}
      /\ lasting \in [Metric \cup Process -> None..Longest]
  BY DEF TypeOK
<1>1. ASSUME NEW m \in Metric PROVE breached'[m] <= lasting'[m]
  <2>1. breached[m] <= lasting[m] /\ breached[m] \in None..Duration
        /\ lasting[m] \in None..Longest
    BY <1>0 DEF Aged
  <2>2. m \notin Process \ found
    OBVIOUS
  <2>3. breached'[m] = IF m \notin carried THEN breached[m]
                       ELSE IF m \notin over THEN None
                       ELSE IF breached[m] = None THEN 0 ELSE breached[m]
    BY DEF ProcessReport, SinceBreach
  <2>4. lasting'[m] = IF m \in carried \ over THEN None
                      ELSE IF m \in over /\ lasting[m] = None THEN 0 ELSE lasting[m]
    BY <2>2 DEF ProcessReport
  <2>5. QED
    BY <2>1, <2>3, <2>4
<1>2. ASSUME NEW m \in isActive' PROVE breached'[m] >= Duration
  BY <1>0, <1>2 DEF ProcessReport, SinceBreach, NowActive, Aged
<1>3. ASSUME NEW p \in Process PROVE tracked'[p] <= lasting'[p]
  <2>1. tracked[p] <= lasting[p] /\ tracked[p] \in None..IdleDuration
        /\ lasting[p] \in None..Longest
    BY <1>0 DEF Aged
  <2>2. p \notin Metric /\ p \notin carried /\ p \notin over
    OBVIOUS
  <2>3. lasting'[p] = IF p \notin found THEN None
                      ELSE IF lasting[p] = None THEN 0 ELSE lasting[p]
    BY <2>2 DEF ProcessReport
  <2>4. tracked'[p] = IF p \in found
                      THEN IF p \in KnownBefore(busy) THEN tracked[p] ELSE 0
                      ELSE None
    BY <1>0 DEF ProcessReport, NowTracked, KnownBefore
  <2>5. QED
    BY <2>1, <2>3, <2>4
<1>4. ASSUME NEW m \in isActive' \cap carried
      PROVE  lasting[m] >= Duration \/ Duration = 0
  <2>1. breached[m] <= lasting[m] /\ breached[m] \in None..Duration
        /\ lasting[m] \in None..Longest
    BY <1>0 DEF Aged
  <2>2. m \in isActive \/ SinceBreach(carried, over)[m] >= Duration
    BY DEF ProcessReport, NowActive
  <2>3. CASE m \in isActive
    BY <2>1, <2>3 DEF Aged
  <2>4. CASE SinceBreach(carried, over)[m] >= Duration
    <3>1. SinceBreach(carried, over)[m] \in {None, 0, breached[m]}
      BY DEF SinceBreach
    <3>2. QED
      BY <2>1, <2>4, <3>1
  <2>5. QED
    BY <2>2, <2>3, <2>4
<1>5. ASSUME NEW p \in NowIdle(busy, found) PROVE lasting[p] >= IdleDuration
  <2>1. p \in Process /\ tracked[p] >= IdleDuration
    BY <1>5 DEF NowIdle
  <2>2. tracked[p] <= lasting[p] /\ tracked[p] \in None..IdleDuration
        /\ lasting[p] \in None..Longest
    BY <1>0, <2>1 DEF Aged
  <2>3. QED
    BY <2>1, <2>2
<1>6. QED
  BY <1>1, <1>2, <1>3, <1>4, <1>5 DEF Aged

\* The step property of RaisedAfterDuration.
RaisedInTime ==
    /\ \A m \in Metric : Raised(m) => lasting[m] >= Duration \/ Duration = 0
    /\ \A p \in Process : Raised(p) => lasting[p] >= IdleDuration

\* Every action keeps the ages in step and raises nothing early.
LEMMA AgedStep == TypeOK /\ Aged /\ [Next]_vars => Aged' /\ [RaisedInTime]_vars
<1> SUFFICES ASSUME TypeOK, Aged, [Next]_vars PROVE Aged' /\ [RaisedInTime]_vars
  OBVIOUS
<1>0. /\ breached \in [Metric -> None..Duration]
      /\ isActive \subseteq Metric
      /\ tracked \in [Process -> None..IdleDuration]
      /\ lasting \in [Metric \cup Process -> None..Longest]
      /\ alert \in [Key -> Status]
  BY DEF TypeOK
<1>1. ASSUME NEW A, ReconcileAlerts(A), NEW k \in Key, Raised(k) PROVE k \in A
  BY <1>0, <1>1 DEF ReconcileAlerts, Reconciled, Raised
<1>2. ASSUME UNCHANGED <<breached, isActive, tracked, lasting>> PROVE Aged'
  BY <1>2 DEF Aged
<1>3. ASSUME UNCHANGED alert PROVE RaisedInTime
  BY <1>3 DEF RaisedInTime, Raised
<1>4. ASSUME NEW k \in Touched, NEW from, NEW to \in {"silenced", "resolved"},
             SetStatus(k, from, to)
      PROVE  RaisedInTime
  <2>1. \A l \in Key : alert'[l] = alert[l] \/ alert'[l] = to
    BY <1>0, <1>4 DEF SetStatus
  <2>2. QED
    BY <2>1, Keys DEF RaisedInTime, Raised
<1>5. ASSUME Forget PROVE Aged'
  <2>1. \A k \in Metric \cup Process : lasting[k] \in None..Longest
    BY <1>0
  <2>2. QED
    BY <1>5, <2>1, Keys DEF Forget, Aged
<1>6. CASE Report
  <2>1. PICK left \in SUBSET Sometimes, busy \in SUBSET Card, found \in SUBSET Process :
            \E over \in SUBSET (Metric \ left) :
                ProcessReport(Metric \ left, over, busy, found)
    BY <1>6 DEF Report
  <2>2. PICK over \in SUBSET (Metric \ left) :
            ProcessReport(Metric \ left, over, busy, found)
    BY <2>1
  <2> DEFINE carried == Metric \ left
  <2>3. carried \in SUBSET Metric
    OBVIOUS
  <2>4. ProcessReport(carried, over, busy, found) /\ over \in SUBSET carried
    BY <2>2
  <2> HIDE DEF carried
  <2>5. /\ Aged'
        /\ \A m \in isActive' \cap carried : lasting[m] >= Duration \/ Duration = 0
        /\ \A p \in NowIdle(busy, found) : lasting[p] >= IdleDuration
    BY <2>1, <2>3, <2>4, AgedReport
  <2>6. ASSUME NEW k \in Key, Raised(k)
        PROVE  k \in isActive' \cap carried \/ k \in NowIdle(busy, found)
    BY <1>1, <2>4, <2>6 DEF ProcessReport
  <2>7. NowIdle(busy, found) \subseteq Process
    BY <2>1 DEF NowIdle
  <2>8. ASSUME NEW m \in Metric, Raised(m)
        PROVE  lasting[m] >= Duration \/ Duration = 0
    BY <2>5, <2>6, <2>7, <2>8, Keys
  <2>9. ASSUME NEW p \in Process, Raised(p) PROVE lasting[p] >= IdleDuration
    <3>1. p \notin carried
      BY <2>3, Keys
    <3>2. QED
      BY <2>5, <2>6, <2>9, <3>1, Keys
  <2>10. QED
    BY <2>5, <2>8, <2>9 DEF RaisedInTime
<1>7. CASE SweepOffline
  <2>1. ReconcileAlerts({Agent})
    BY <1>7 DEF SweepOffline
  <2>2. RaisedInTime
    BY <1>1, <2>1, Keys DEF RaisedInTime
  <2>3. QED
    BY <1>2, <1>7, <2>2 DEF SweepOffline, memory
<1>8. ASSUME NEW k \in Touched, SilenceAlert(k) \/ UnsilenceAlert(k)
      PROVE  Aged' /\ RaisedInTime
  BY <1>2, <1>4, <1>8 DEF SilenceAlert, UnsilenceAlert, memory
<1>9. ASSUME NEW k \in Touched, CrashWhileSetting(k) PROVE Aged' /\ RaisedInTime
  BY <1>4, <1>5, <1>9 DEF CrashWhileSetting
<1>10. CASE Restart
  BY <1>3, <1>5, <1>10 DEF Restart, tables
<1>11. CASE TimePasses
  <2>1. ASSUME NEW n \in Nat, NEW m \in Nat, n <= m,
               NEW a \in None..n, NEW b \in None..m, a <= b
        PROVE  Older(a, n) <= Older(b, m)
    BY <2>1
  <2> HIDE DEF Older
  <2>2. ASSUME NEW m \in Metric PROVE breached'[m] <= lasting'[m]
    BY <1>0, <1>11, <2>1, AlertLoopAssumption, Keys DEF TimePasses, Aged
  <2>3. ASSUME NEW p \in Process PROVE tracked'[p] <= lasting'[p]
    BY <1>0, <1>11, <2>1, AlertLoopAssumption, Keys DEF TimePasses, Aged
  <2>4. ASSUME NEW m \in isActive' PROVE breached'[m] >= Duration
    <3>1. m \in Metric /\ breached[m] >= Duration /\ breached[m] \in None..Duration
      BY <1>0, <1>11 DEF TimePasses, Aged
    <3>2. breached[m] = Duration
      BY <3>1, AlertLoopAssumption
    <3>3. breached'[m] = Duration
      BY <1>0, <1>11, <3>1, <3>2, AlertLoopAssumption DEF TimePasses, Older
    <3>4. QED
      BY <3>3, AlertLoopAssumption
  <2>5. RaisedInTime
    BY <1>3, <1>11 DEF TimePasses, tables
  <2>6. QED
    BY <2>2, <2>3, <2>4, <2>5 DEF Aged
<1>12. CASE Attach \/ Detach
  BY <1>2, <1>3, <1>12 DEF Attach, Detach, memory, tables
<1>13. CASE UNCHANGED vars
  BY <1>2, <1>13 DEF vars, memory
<1>14. QED
  BY <1>6, <1>7, <1>8, <1>9, <1>10, <1>11, <1>12, <1>13 DEF Next

\* No alert is raised before its cause has lasted for the whole duration, whatever
\* was reported, left out, silenced, forgotten and restarted in between.
THEOREM NeverRaisedEarly == Spec => RaisedAfterDuration
<1>1. Init => Aged
  BY AlertLoopAssumption DEF Init, Aged
<1>2. QED
  BY <1>1, TypeInit, TypeStep, AgedStep, PTL DEF Spec, RaisedAfterDuration, RaisedInTime


-----------------------------------------------------------------------------
(* The cause of a recovery. *)

\* Until the server has forgotten, the detectors still hold the cause of every
\* active alert, but for a metric that reports may leave out.
Remembered ==
    restarts = 0 =>
        /\ \A m \in Metric \ Sometimes : alert[m] = "active" => m \in isActive
        /\ \A p \in Process : alert[p] = "active" => tracked[p] >= IdleDuration

\* The step property of RecoveryHasCause.
RecoveredForACause ==
    \A k \in Metric \cup Process : Recovered(k) =>
          \/ lasting'[k] = None
          \/ k \in Sometimes
          \/ Offline
          \/ ~Detected(k) /\ restarts > 0

\* A report keeps the alerts whose cause it detects, and lets one recover whose
\* cause it does not show, or whose window has begun anew.
LEMMA RememberedReport ==
    ASSUME TypeOK, Remembered, NEW left \in SUBSET Sometimes,
           NEW over \in SUBSET (Metric \ left), NEW busy \in SUBSET Card,
           NEW found \in SUBSET Process, \A p \in found : p[1] \notin busy,
           ProcessReport(Metric \ left, over, busy, found)
    PROVE  Remembered' /\ RecoveredForACause
<1> USE AlertLoopAssumption, Keys
<1> DEFINE kept == (isActive' \cap (Metric \ left)) \cup NowIdle(busy, found)
<1>0. /\ isActive \subseteq Metric
      /\ tracked \in [Process -> None..IdleDuration]
      /\ indexed = {p \in Process : tracked[p] # None}
      /\ lasting \in [Metric \cup Process -> None..Longest]
      /\ alert \in [Key -> Status]
      /\ restarts \in 0..MaxRestarts /\ UNCHANGED restarts
  BY DEF TypeOK, ProcessReport
<1>1. \A k \in Key : /\ alert'[k] = "active" => k \in kept
                     /\ Recovered(k) => k \notin kept /\ alert[k] = "active"
  <2>1. alert' = Reconciled(kept)
    BY DEF ProcessReport, ReconcileAlerts
  <2>2. \A k \in Key : alert'[k] =
            IF k \in kept THEN IF alert[k] = "silenced" THEN "silenced" ELSE "active"
            ELSE IF alert[k] = "active" THEN "resolved" ELSE alert[k]
    BY <2>1 DEF Reconciled
  <2> HIDE DEF kept
  <2>3. QED
    BY <2>2 DEF Recovered
<1>2. NowIdle(busy, found) \subseteq Process
  BY DEF NowIdle
<1>3. ASSUME NEW m \in Metric PROVE m \in kept <=> m \in isActive' /\ m \notin left
  BY <1>2
<1>4. ASSUME NEW p \in Process
      PROVE  p \in kept <=> p \in found /\ tracked[p] >= IdleDuration
  <2>1. p \notin Metric
    OBVIOUS
  <2>2. tracked[p] \in None..IdleDuration
    BY <1>0
  <2>3. QED
    BY <2>1, <2>2 DEF NowIdle, KnownBefore
<1>5. ASSUME NEW m \in Metric \ Sometimes, alert'[m] = "active" PROVE m \in isActive'
  BY <1>1, <1>3, <1>5
<1>6. ASSUME NEW p \in Process, alert'[p] = "active" PROVE tracked'[p] >= IdleDuration
  <2>1. p \in found /\ tracked[p] >= IdleDuration
    BY <1>1, <1>4, <1>6
  <2>2. tracked[p] \in None..IdleDuration
    BY <1>0
  <2>3. tracked'[p] = tracked[p]
    BY <2>1, <2>2 DEF ProcessReport, NowTracked, KnownBefore
  <2>4. QED
    BY <2>1, <2>3
<1>7. ASSUME NEW m \in Metric, Recovered(m)
      PROVE  lasting'[m] = None \/ m \in Sometimes \/ (~Detected(m) /\ restarts > 0)
  <2> SUFFICES ASSUME m \notin Sometimes PROVE lasting'[m] = None \/ (~Detected(m) /\ restarts > 0)
    OBVIOUS
  <2>1. alert[m] = "active" /\ m \notin isActive' /\ m \notin left
    BY <1>1, <1>3, <1>7
  <2>2. CASE m \notin over
    BY <1>0, <2>1, <2>2 DEF ProcessReport
  <2>3. CASE m \in over
    <3>1. m \notin isActive
      BY <2>1, <2>3 DEF ProcessReport, NowActive
    <3>2. restarts # 0
      BY <2>1, <3>1 DEF Remembered
    <3>3. QED
      BY <1>0, <3>1, <3>2 DEF Detected
  <2>4. QED
    BY <2>2, <2>3
<1>8. ASSUME NEW p \in Process, Recovered(p)
      PROVE  lasting'[p] = None \/ (~Detected(p) /\ restarts > 0)
  <2>1. alert[p] = "active" /\ ~(p \in found /\ tracked[p] >= IdleDuration)
    BY <1>1, <1>4, <1>8
  <2>2. CASE p \notin found
    BY <1>0, <2>2 DEF ProcessReport
  <2>3. CASE ~(tracked[p] >= IdleDuration)
    <3>1. restarts # 0
      BY <2>1, <2>3 DEF Remembered
    <3>2. QED
      BY <1>0, <2>3, <3>1 DEF Detected
  <2>4. QED
    BY <2>1, <2>2, <2>3
<1>9. Remembered'
  BY <1>5, <1>6 DEF Remembered
<1>10. RecoveredForACause
  BY <1>7, <1>8 DEF RecoveredForACause
<1>11. QED
  BY <1>9, <1>10

\* Every action keeps the causes in mind and lets no alert recover without one.
LEMMA RememberedStep ==
    TypeOK /\ Remembered /\ [Next]_vars => Remembered' /\ [RecoveredForACause]_vars
<1> SUFFICES ASSUME TypeOK, Remembered, [Next]_vars
             PROVE  Remembered' /\ [RecoveredForACause]_vars
  OBVIOUS
<1>0. /\ tracked \in [Process -> None..IdleDuration]
      /\ alert \in [Key -> Status]
      /\ restarts \in 0..MaxRestarts
  BY DEF TypeOK
<1>1. ASSUME \A k \in Key : alert'[k] = "active" => alert[k] = "active",
             UNCHANGED <<isActive, tracked, restarts>>
      PROVE  Remembered'
  BY <1>1, Keys DEF Remembered
<1>2. ASSUME NEW k \in Touched, NEW from, NEW to \in {"silenced", "resolved"},
             SetStatus(k, from, to), \A s \in from : s # "active" \/ to = "silenced"
      PROVE  /\ \A l \in Key : alert'[l] = "active" => alert[l] = "active"
             /\ RecoveredForACause
  <2>1. \A l \in Key : alert'[l] = alert[l] \/ (l = k /\ alert'[l] = to /\ alert[l] \in from)
    BY <1>0, <1>2 DEF SetStatus
  <2>2. QED
    BY <1>2, <2>1, Keys DEF RecoveredForACause, Recovered
<1>3. ASSUME Forget PROVE Remembered'
  BY <1>0, <1>3 DEF Forget, Remembered
<1>4. ASSUME UNCHANGED alert PROVE RecoveredForACause
  BY <1>4 DEF RecoveredForACause, Recovered
<1>5. CASE Report
  <2>1. PICK left \in SUBSET Sometimes, busy \in SUBSET Card, found \in SUBSET Process :
            /\ \A p \in found : p[1] \notin busy
            /\ \E over \in SUBSET (Metric \ left) :
                   ProcessReport(Metric \ left, over, busy, found)
    BY <1>5 DEF Report
  <2>2. PICK over \in SUBSET (Metric \ left) :
            ProcessReport(Metric \ left, over, busy, found)
    BY <2>1
  <2>3. QED
    BY <2>1, <2>2, RememberedReport
<1>6. CASE SweepOffline
  <2>1. \A k \in Key : alert'[k] = "active" => alert[k] = "active" \/ k = Agent
    BY <1>0, <1>6 DEF SweepOffline, ReconcileAlerts, Reconciled
  <2>2. Remembered'
    BY <1>6, <2>1, Keys DEF Remembered, SweepOffline, memory
  <2>3. QED
    BY <1>6, <2>2 DEF SweepOffline, RecoveredForACause
<1>7. ASSUME NEW k \in Touched, SilenceAlert(k) \/ UnsilenceAlert(k)
      PROVE  Remembered' /\ RecoveredForACause
  BY <1>1, <1>2, <1>7 DEF SilenceAlert, UnsilenceAlert, memory
<1>8. ASSUME NEW k \in Touched, CrashWhileSetting(k)
      PROVE  Remembered' /\ RecoveredForACause
  BY <1>2, <1>3, <1>8 DEF CrashWhileSetting
<1>9. CASE Restart
  BY <1>3, <1>4, <1>9 DEF Restart, tables
<1>10. CASE TimePasses
  <2>1. ASSUME NEW p \in Process, tracked[p] >= IdleDuration PROVE tracked'[p] >= IdleDuration
    <3>1. tracked[p] \in None..IdleDuration
      BY <1>0
    <3>2. tracked'[p] = Older(tracked[p], IdleDuration)
      BY <1>10 DEF TimePasses
    <3>3. QED
      BY <2>1, <3>1, <3>2, AlertLoopAssumption
  <2>2. UNCHANGED <<isActive, alert, restarts>>
    BY <1>10 DEF TimePasses, tables
  <2>3. QED
    BY <1>4, <2>1, <2>2 DEF Remembered
<1>11. CASE Attach \/ Detach
  BY <1>1, <1>4, <1>11 DEF Attach, Detach, memory, tables
<1>12. CASE UNCHANGED vars
  BY <1>1, <1>12 DEF vars, memory, tables
<1>13. QED
  BY <1>5, <1>6, <1>7, <1>8, <1>9, <1>10, <1>11, <1>12 DEF Next

\* An alert recovers on its own only because a report does not show its cause, may
\* leave it out, the agent is silent, or a restart has emptied the detectors.
THEOREM RecoveriesHaveCauses == Spec => RecoveryHasCause
<1>1. Init => Remembered
  BY DEF Init, Remembered, Key
<1>2. QED
  BY <1>1, TypeInit, TypeStep, RememberedStep, PTL
     DEF Spec, RecoveryHasCause, RecoveredForACause

-----------------------------------------------------------------------------
(***************************************************************************)
(* The reports of an agent and the table that the server makes of them.    *)
(***************************************************************************)

Life == {"new", "lost"} \cup ActiveStatus \cup Outcome

\* The variables hold what the code keeps in them; the daemon remembers every task
\* that has not ended, and has reported only ended ones it remembers.
ReportingTypeOK ==
    /\ life \in [Task -> Life]
    /\ known \subseteq {t \in Task : life[t] \in ActiveStatus \cup Outcome}
    /\ \A t \in Task : life[t] \in ActiveStatus => t \in known
    /\ reported \subseteq {t \in known : life[t] \in Outcome}
    /\ agentConn \in {0} \cup Conn /\ used \in 0..MaxConn
    /\ channel \in [Conn -> Seq(Message)]
    /\ open \subseteq Conn /\ registered \subseteq Conn /\ agentSession \in {0} \cup Conn
    /\ latest \in TaskReport
    /\ db \in [Task -> ActiveStatus \cup Terminal \cup {"absent"}]
    /\ announced \in [Task -> [Announcement -> 0..2]]
    /\ restarted \in [daemon : Nat, server : Nat]

\* There is one connection at a time, and messages are under way on it only.
OneConnection ==
    /\ \A c, d \in open : c = d
    /\ \A c \in Conn : channel[c] # <<>> => c \in open

\* The reports under way on a connection, and what one of them tells of a task.
Reports(c)    == {i \in DOMAIN channel[c] : channel[c][i].type = "report"}
Told(c, i, t) == channel[c][i].tasks[t]

\* The server takes the task for active.
Believed(t) == db[t] \in ActiveStatus \/ latest[t] \in ActiveStatus

\* The table, and the reports before the n-th message, have heard of no end of t, and
\* once t was heard of all reports list it.
NotEnded(t, c, n) ==
    /\ db[t] \notin Terminal
    /\ \A k \in Reports(c) : k < n =>
          /\ Told(c, k, t) \notin Outcome
          /\ Believed(t) => Told(c, k, t) \in ActiveStatus
          /\ \A j \in Reports(c) : j < k /\ Told(c, j, t) \in ActiveStatus =>
                                      Told(c, k, t) \in ActiveStatus

\* What is under way is older than the node and newer than the table: before a
\* report that a task is active, and before the present of an active task, comes
\* nothing that has ended it; of a new task nobody has heard; and an outcome that
\* is told is one the task has had.
InOrder ==
    \A t \in Task :
        /\ \A c \in Conn :
              /\ \A i \in Reports(c) : Told(c, i, t) \in ActiveStatus => NotEnded(t, c, i)
              /\ life[t] \in ActiveStatus => NotEnded(t, c, Len(channel[c]) + 1)
              /\ \A i \in Reports(c) :
                    /\ life[t] = "new" => Told(c, i, t) = "absent"
                    /\ Told(c, i, t) \in Outcome => life[t] \in {Told(c, i, t), "cancelled"}
        /\ life[t] = "new" => db[t] = "absent" /\ latest[t] = "absent"
        /\ life[t] \in ActiveStatus => db[t] \notin Terminal
        /\ db[t] \in Outcome => life[t] \in {db[t], "cancelled"}

-----------------------------------------------------------------------------
(* Lemmas. *)

\* What is known of the head and the tail of a channel.
LEMMA HeadAndTail ==
    ASSUME NEW q \in Seq(Message), q # <<>>
    PROVE  /\ Head(q) = q[1] /\ Head(q) \in Message /\ 1 \in DOMAIN q
           /\ Tail(q) \in Seq(Message) /\ Len(Tail(q)) = Len(q) - 1 /\ Len(q) \in Nat
           /\ \A i \in DOMAIN Tail(q) : i \in Nat /\ i + 1 \in DOMAIN q /\ Tail(q)[i] = q[i + 1]
<1>1. Len(q) \in Nat /\ Len(q) > 0 /\ DOMAIN q = 1..Len(q)
  BY EmptySeq, LenProperties
<1>2. Tail(q) \in Seq(Message) /\ Len(Tail(q)) = Len(q) - 1
  BY HeadTailProperties
<1>3. DOMAIN Tail(q) = 1..(Len(q) - 1)
  BY <1>2, LenProperties
<1>4. \A i \in 1..(Len(q) - 1) : Tail(q)[i] = q[i + 1]
  BY <1>1, HeadTailProperties
<1>5. Head(q) = q[1] /\ Head(q) \in Message
  BY <1>1, HeadTailProperties
<1>6. QED
  BY <1>1, <1>2, <1>3, <1>4, <1>5

\* A report under way tells of each task what a report can tell.
LEMMA ReportsAreReports ==
    ASSUME ReportingTypeOK, NEW c \in Conn, NEW i \in Reports(c)
    PROVE  /\ i \in Nat /\ 1 <= i /\ i <= Len(channel[c]) /\ Len(channel[c]) \in Nat
           /\ channel[c][i].tasks \in TaskReport
           /\ \A t \in Task : Told(c, i, t) \in ActiveStatus \cup Outcome \cup {"absent"}
<1>1. channel[c] \in Seq(Message) /\ i \in DOMAIN channel[c]
  BY DEF ReportingTypeOK, Reports
<1>2. DOMAIN channel[c] = 1..Len(channel[c]) /\ Len(channel[c]) \in Nat
  BY <1>1, LenProperties
<1>3. channel[c][i] \in Message /\ channel[c][i].type = "report"
  BY <1>1, <1>2 DEF Reports
<1>4. channel[c][i].tasks \in TaskReport
  BY <1>3 DEF Message, Register
<1>5. QED
  BY <1>1, <1>2, <1>4 DEF Told, TaskReport

\* The picture stays in order where the table stays, reports only get lost or are
\* passed over, and no task goes back.
LEMMA OrderKept ==
    ASSUME ReportingTypeOK, InOrder, db' = db,
           \A t \in Task : latest'[t] \in {latest[t], "absent"},
           \A t \in Task : /\ life'[t] \in ActiveStatus => life[t] \in ActiveStatus \cup {"new"}
                           /\ life'[t] = "new" => life[t] = "new"
                           /\ life[t] \in Outcome => life'[t] \in {life[t], "cancelled"},
           \A c \in Conn : \E d \in {0, 1} : \A i \in Reports(c)' :
               /\ i + d \in Reports(c) /\ i \in Nat
               /\ \A t \in Task : Told(c, i, t)' = Told(c, i + d, t)
    PROVE  InOrder'
<1> SUFFICES ASSUME NEW t \in Task
             PROVE  /\ \A c \in Conn :
                          /\ \A i \in Reports(c)' : Told(c, i, t)' \in ActiveStatus => NotEnded(t, c, i)'
                          /\ life'[t] \in ActiveStatus => NotEnded(t, c, Len(channel[c]) + 1)'
                          /\ \A i \in Reports(c)' :
                                /\ life'[t] = "new" => Told(c, i, t)' = "absent"
                                /\ Told(c, i, t)' \in Outcome => life'[t] \in {Told(c, i, t)', "cancelled"}
                    /\ life'[t] = "new" => db'[t] = "absent" /\ latest'[t] = "absent"
                    /\ life'[t] \in ActiveStatus => db'[t] \notin Terminal
                    /\ db'[t] \in Outcome => life'[t] \in {db'[t], "cancelled"}
  BY DEF InOrder
<1>0. /\ life[t] = "new" => db[t] = "absent" /\ latest[t] = "absent"
      /\ life[t] \in ActiveStatus => db[t] \notin Terminal
      /\ db[t] \in Outcome => life[t] \in {db[t], "cancelled"}
  BY DEF InOrder
<1>1. Believed(t)' => Believed(t)
  BY DEF Believed, ActiveStatus
<1>2. ASSUME NEW c \in Conn
      PROVE  /\ \A i \in Reports(c)' : Told(c, i, t)' \in ActiveStatus => NotEnded(t, c, i)'
             /\ life'[t] \in ActiveStatus => NotEnded(t, c, Len(channel[c]) + 1)'
             /\ \A i \in Reports(c)' :
                   /\ life'[t] = "new" => Told(c, i, t)' = "absent"
                   /\ Told(c, i, t)' \in Outcome => life'[t] \in {Told(c, i, t)', "cancelled"}
  <2>1. PICK d \in {0, 1} : \A i \in Reports(c)' :
               /\ i + d \in Reports(c) /\ i \in Nat
               /\ \A u \in Task : Told(c, i, u)' = Told(c, i + d, u)
    OBVIOUS
  <2>2. /\ \A i \in Reports(c) : Told(c, i, t) \in ActiveStatus => NotEnded(t, c, i)
        /\ life[t] \in ActiveStatus => NotEnded(t, c, Len(channel[c]) + 1)
        /\ \A i \in Reports(c) :
                 /\ life[t] = "new" => Told(c, i, t) = "absent"
                 /\ Told(c, i, t) \in Outcome => life[t] \in {Told(c, i, t), "cancelled"}
    BY DEF InOrder
  <2>3. \A i \in Reports(c) : i \in Nat /\ i <= Len(channel[c]) /\ Len(channel[c]) \in Nat
    BY ReportsAreReports
  <2>4. ASSUME NEW n, NEW m,
               \A k \in Reports(c)' : k < n => k + d < m,
               NotEnded(t, c, m)
        PROVE  /\ db'[t] \notin Terminal
               /\ \A k \in Reports(c)' : k < n =>
                     /\ Told(c, k, t)' \notin Outcome
                     /\ Believed(t)' => Told(c, k, t)' \in ActiveStatus
                     /\ \A j \in Reports(c)' : j < k /\ Told(c, j, t)' \in ActiveStatus =>
                                                 Told(c, k, t)' \in ActiveStatus
    <3>1. db'[t] \notin Terminal
      BY <2>4 DEF NotEnded
    <3>2. ASSUME NEW k \in Reports(c)', k < n
          PROVE  /\ Told(c, k, t)' \notin Outcome
                 /\ Believed(t)' => Told(c, k, t)' \in ActiveStatus
                 /\ \A j \in Reports(c)' : j < k /\ Told(c, j, t)' \in ActiveStatus =>
                                             Told(c, k, t)' \in ActiveStatus
      <4>1. k + d \in Reports(c) /\ k + d < m /\ Told(c, k, t)' = Told(c, k + d, t) /\ k \in Nat
        BY <2>1, <2>4, <3>2
      <4>2. /\ Told(c, k + d, t) \notin Outcome
            /\ Believed(t) => Told(c, k + d, t) \in ActiveStatus
            /\ \A j \in Reports(c) : j < k + d /\ Told(c, j, t) \in ActiveStatus =>
                                        Told(c, k + d, t) \in ActiveStatus
        BY <2>4, <4>1 DEF NotEnded
      <4>3. ASSUME NEW j \in Reports(c)', j < k, Told(c, j, t)' \in ActiveStatus
            PROVE  Told(c, k, t)' \in ActiveStatus
        <5>1. j + d \in Reports(c) /\ j + d < k + d /\ Told(c, j + d, t) \in ActiveStatus
          BY <2>1, <4>1, <4>3
        <5>2. QED
          BY <4>1, <4>2, <5>1
      <4>4. QED
        BY <1>1, <4>1, <4>2, <4>3
    <3>3. QED
      BY <3>1, <3>2
  <2>5. ASSUME NEW i \in Reports(c)', Told(c, i, t)' \in ActiveStatus
        PROVE  NotEnded(t, c, i)'
    <3>1. i + d \in Reports(c) /\ Told(c, i + d, t) \in ActiveStatus /\ i \in Nat
      BY <2>1, <2>5
    <3>2. NotEnded(t, c, i + d)
      BY <2>2, <3>1
    <3>3. \A k \in Reports(c)' : k < i => k + d < i + d
      BY <2>1, <3>1
    <3>4. QED
      BY <2>4, <3>2, <3>3 DEF NotEnded
  <2>6. ASSUME life'[t] \in ActiveStatus PROVE NotEnded(t, c, Len(channel[c]) + 1)'
    <3>1. CASE life[t] \in ActiveStatus
      <4>1. \A k \in Reports(c)' : k + d < Len(channel[c]) + 1
        BY <2>1, <2>3
      <4>2. QED
        BY <2>2, <2>4, <3>1, <4>1 DEF NotEnded
    <3>2. CASE life[t] = "new"
      <4>1. db'[t] \notin Terminal /\ ~Believed(t)
        BY <1>0, <3>2 DEF Believed, Terminal, Outcome, ActiveStatus
      <4>2. \A k \in Reports(c)' : Told(c, k, t)' = "absent"
        BY <2>1, <2>2, <3>2
      <4>3. "absent" \notin ActiveStatus \cup Outcome
        BY DEF ActiveStatus, Outcome
      <4>4. QED
        BY <1>1, <4>1, <4>2, <4>3 DEF NotEnded
    <3>3. QED
      BY <2>6, <3>1, <3>2
  <2>7. ASSUME NEW i \in Reports(c)'
        PROVE  /\ life'[t] = "new" => Told(c, i, t)' = "absent"
               /\ Told(c, i, t)' \in Outcome => life'[t] \in {Told(c, i, t)', "cancelled"}
    BY <2>1, <2>2, <2>7 DEF Outcome
  <2>8. QED
    BY <2>5, <2>6, <2>7
<1>3. life'[t] \in ActiveStatus => db'[t] \notin Terminal
  BY <1>0 DEF Terminal, Outcome, ActiveStatus
<1>4. db'[t] \in Outcome => life'[t] \in {db'[t], "cancelled"}
  BY <1>0 DEF Outcome
<1>5. life'[t] = "new" => db'[t] = "absent" /\ latest'[t] = "absent"
  BY <1>0
<1>6. QED
  BY <1>2, <1>3, <1>4, <1>5


\* What passes over a channel, by the way it changes: nothing; the loss of all
\* that is under way; a prefix that gets through; or one message that is taken.
LEMMA SameReports ==
    ASSUME ReportingTypeOK, NEW c \in Conn, channel'[c] = channel[c]
    PROVE  \E d \in {0, 1} : \A i \in Reports(c)' :
               /\ i + d \in Reports(c) /\ i \in Nat
               /\ \A t \in Task : Told(c, i, t)' = Told(c, i + d, t)
<1>1. \A i \in Reports(c)' :
         /\ i + 0 \in Reports(c) /\ i \in Nat
         /\ \A t \in Task : Told(c, i, t)' = Told(c, i + 0, t)
  <2>1. Reports(c)' = Reports(c)
    BY DEF Reports
  <2>2. \A i \in Reports(c) : i \in Nat /\ i + 0 = i
    BY ReportsAreReports
  <2>3. QED
    BY <2>1, <2>2 DEF Told
<1>2. QED
  BY <1>1

\* A channel that is emptied, or opened with a registration alone, carries no report.
LEMMA NoReports ==
    ASSUME NEW c \in Conn, channel'[c] = <<>> \/ channel'[c] = <<Register>>
    PROVE  \E d \in {0, 1} : \A i \in Reports(c)' :
               /\ i + d \in Reports(c) /\ i \in Nat
               /\ \A t \in Task : Told(c, i, t)' = Told(c, i + d, t)
<1>1. Reports(c)' = {}
  BY DEF Reports, Register
<1>2. QED
  BY <1>1

\* The reports of the part of a channel that gets through were there before.
LEMMA PrefixReports ==
    ASSUME ReportingTypeOK, NEW c \in Conn, NEW n \in 0..Len(channel[c]),
           channel'[c] = SubSeq(channel[c], 1, n)
    PROVE  /\ channel'[c] \in Seq(Message)
           /\ channel'[c] # <<>> => channel[c] # <<>>
           /\ \E d \in {0, 1} : \A i \in Reports(c)' :
                  /\ i + d \in Reports(c) /\ i \in Nat
                  /\ \A t \in Task : Told(c, i, t)' = Told(c, i + d, t)
<1>1. channel[c] \in Seq(Message) /\ Len(channel[c]) \in Nat /\ DOMAIN channel[c] = 1..Len(channel[c])
  BY LenProperties DEF ReportingTypeOK
<1>2. /\ channel'[c] \in Seq(Message) /\ DOMAIN channel'[c] = 1..n
      /\ \A i \in 1..n : channel'[c][i] = channel[c][i]
  BY <1>1
<1>3. channel[c] = <<>> => channel'[c] = <<>>
  BY <1>1
<1>4. \A i \in Reports(c)' :
         /\ i + 0 \in Reports(c) /\ i \in Nat
         /\ \A t \in Task : Told(c, i, t)' = Told(c, i + 0, t)
  BY <1>1, <1>2 DEF Reports, Told
<1>5. QED
  BY <1>2, <1>3, <1>4

\* Once a message is taken, the reports of its channel move up by one place, and
\* the other channels stay as they were.
LEMMA TakenReports ==
    ASSUME ReportingTypeOK, NEW c \in Conn, channel[c] # <<>>, Taken(c)
    PROVE  /\ channel' \in [Conn -> Seq(Message)]
           /\ \A e \in Conn : channel'[e] # <<>> => channel[e] # <<>>
           /\ \A e \in Conn : \E d \in {0, 1} : \A i \in Reports(e)' :
                  /\ i + d \in Reports(e) /\ i \in Nat
                  /\ \A t \in Task : Told(e, i, t)' = Told(e, i + d, t)
           /\ \A i \in Reports(c)' :
                  /\ i + 1 \in Reports(c) /\ i \in Nat
                  /\ \A t \in Task : Told(c, i, t)' = Told(c, i + 1, t)
           /\ Len(channel'[c]) + 1 = Len(channel[c])
           /\ \A e \in Conn \ {c} : channel'[e] = channel[e]
<1>0. channel \in [Conn -> Seq(Message)]
  BY DEF ReportingTypeOK
<1>1. channel'[c] = Tail(channel[c]) /\ \A e \in Conn \ {c} : channel'[e] = channel[e]
  BY <1>0 DEF Taken
<1>2. /\ Tail(channel[c]) \in Seq(Message) /\ Len(Tail(channel[c])) = Len(channel[c]) - 1
      /\ Len(channel[c]) \in Nat
      /\ \A i \in DOMAIN Tail(channel[c]) :
            i \in Nat /\ i + 1 \in DOMAIN channel[c] /\ Tail(channel[c])[i] = channel[c][i + 1]
  BY <1>0, HeadAndTail
<1>3. channel' \in [Conn -> Seq(Message)]
  BY <1>0, <1>2 DEF Taken
<1>4. \A i \in Reports(c)' :
            /\ i + 1 \in Reports(c) /\ i \in Nat
            /\ \A t \in Task : Told(c, i, t)' = Told(c, i + 1, t)
  BY <1>1, <1>2 DEF Reports, Told
<1>5. Len(channel'[c]) + 1 = Len(channel[c])
  BY <1>1, <1>2
<1>6. \A e \in Conn : \E d \in {0, 1} : \A i \in Reports(e)' :
            /\ i + d \in Reports(e) /\ i \in Nat
            /\ \A t \in Task : Told(e, i, t)' = Told(e, i + d, t)
  BY <1>1, <1>4, SameReports
<1>7. QED
  BY <1>1, <1>3, <1>4, <1>5, <1>6

ReportInv == ReportingTypeOK /\ OneConnection /\ InOrder

-----------------------------------------------------------------------------
(* The node. *)

\* A task is submitted, starts, ends, is cancelled or forgotten.
LEMMA NodeStep ==
    ASSUME ReportInv,
           \/ \E t \in Task : Submit(t) \/ Start(t) \/ Finish(t) \/ Cancel(t)
           \/ TickWithoutReport
    PROVE  ReportInv' /\ UNCHANGED <<db, announced>>
<1>0. ReportingTypeOK /\ OneConnection /\ InOrder
  BY DEF ReportInv
<1>1. UNCHANGED <<agentConn, used, channel, open, registered, agentSession, latest, db, announced,
                  restarted>>
  BY DEF Submit, Start, Finish, Cancel, TickWithoutReport, serverVars
<1>2. /\ life' \in [Task -> Life]
      /\ known' \subseteq {t \in Task : life'[t] \in ActiveStatus \cup Outcome}
      /\ \A t \in Task : life'[t] \in ActiveStatus => t \in known'
      /\ reported' \subseteq {t \in known' : life'[t] \in Outcome}
      /\ \A t \in Task : /\ life'[t] \in ActiveStatus => life[t] \in ActiveStatus \cup {"new"}
                         /\ life'[t] = "new" => life[t] = "new"
                         /\ life[t] \in Outcome => life'[t] \in {life[t], "cancelled"}
  <2>0. /\ life \in [Task -> Life]
        /\ known \subseteq {t \in Task : life[t] \in ActiveStatus \cup Outcome}
        /\ \A t \in Task : life[t] \in ActiveStatus => t \in known
        /\ reported \subseteq {t \in known : life[t] \in Outcome}
    BY <1>0 DEF ReportingTypeOK
  <2>1. ASSUME NEW t \in Task, Submit(t)
        PROVE  life' = [life EXCEPT ![t] = "queued"] /\ life[t] = "new"
               /\ known' = known \cup {t} /\ reported' = reported
    BY <2>1 DEF Submit
  <2>2. ASSUME NEW t \in Task, Start(t)
        PROVE  life' = [life EXCEPT ![t] = "running"] /\ life[t] = "queued" /\ t \in known
               /\ known' = known /\ reported' = reported
    BY <2>2 DEF Start
  <2>3. ASSUME NEW t \in Task, Finish(t)
        PROVE  life' = [life EXCEPT ![t] = "succeeded"] /\ life[t] = "running" /\ t \in known
               /\ known' = known /\ reported' = reported
    BY <2>3 DEF Finish
  <2>4. ASSUME NEW t \in Task, Cancel(t)
        PROVE  life' = [life EXCEPT ![t] = "cancelled"] /\ t \in known
               /\ known' = known /\ reported' = reported \ {t}
    BY <2>4 DEF Cancel
  <2>5. CASE TickWithoutReport
    <3>1. life' = life /\ known' = {t \in known : t \notin reported} /\ reported' = {}
      BY <2>5 DEF TickWithoutReport, Forgotten
    <3>2. QED
      BY <2>0, <3>1 DEF ActiveStatus, Outcome
  <2>6. CASE \E t \in Task : Submit(t)
    BY <2>0, <2>1, <2>6 DEF Life, ActiveStatus, Outcome
  <2>7. CASE \E t \in Task : Start(t)
    BY <2>0, <2>2, <2>7 DEF Life, ActiveStatus, Outcome
  <2>8. CASE \E t \in Task : Finish(t)
    BY <2>0, <2>3, <2>8 DEF Life, ActiveStatus, Outcome
  <2>1a. CASE \E t \in Task : Cancel(t)
    BY <2>0, <2>4, <2>1a DEF Life, ActiveStatus, Outcome
  <2>10. QED
    BY <2>5, <2>6, <2>7, <2>8, <2>1a
<1>3. ReportingTypeOK'
  BY <1>0, <1>1, <1>2 DEF ReportingTypeOK
<1>4. OneConnection'
  BY <1>0, <1>1 DEF OneConnection
<1>5. InOrder'
  <2>1. \A c \in Conn : \E d \in {0, 1} : \A i \in Reports(c)' :
               /\ i + d \in Reports(c) /\ i \in Nat
               /\ \A t \in Task : Told(c, i, t)' = Told(c, i + d, t)
    BY <1>0, <1>1, SameReports
  <2>2. QED
    BY <1>0, <1>1, <1>2, <2>1, OrderKept
<1>6. QED
  BY <1>1, <1>3, <1>4, <1>5 DEF ReportInv

\* The agent loses its connection, also by a restart, in which the tasks are lost.
LEMMA LoseStep ==
    ASSUME ReportInv, AgentDisconnects \/ DaemonRestart
    PROVE  ReportInv' /\ UNCHANGED <<db, announced>>
<1>0. ReportingTypeOK /\ OneConnection /\ InOrder
  BY DEF ReportInv
<1>1. Drop /\ UNCHANGED <<used, open, registered, agentSession, latest, db, announced>>
  BY DEF AgentDisconnects, DaemonRestart, serverVars
<1>2. /\ channel' \in [Conn -> Seq(Message)] /\ agentConn' = 0
      /\ \A c \in Conn : channel'[c] # <<>> => channel[c] # <<>>
      /\ \A c \in Conn : \E d \in {0, 1} : \A i \in Reports(c)' :
               /\ i + d \in Reports(c) /\ i \in Nat
               /\ \A t \in Task : Told(c, i, t)' = Told(c, i + d, t)
  <2>0. channel \in [Conn -> Seq(Message)] /\ agentConn \in {0} \cup Conn
    BY <1>0 DEF ReportingTypeOK
  <2>1. CASE agentConn = 0
    BY <1>0, <1>1, <2>0, <2>1, SameReports DEF Drop
  <2>2. CASE agentConn # 0
    <3>0. PICK e \in Conn : e = agentConn
      BY <2>0, <2>2
    <3>1. PICK n \in 0..Len(channel[e]) : channel' = [channel EXCEPT ![e] = SubSeq(@, 1, n)]
      BY <1>1, <2>2, <3>0 DEF Drop
    <3>2. /\ channel'[e] = SubSeq(channel[e], 1, n)
          /\ \A c \in Conn \ {e} : channel'[c] = channel[c]
      BY <2>0, <3>1
    <3>3. /\ channel'[e] \in Seq(Message)
          /\ channel'[e] # <<>> => channel[e] # <<>>
          /\ \E d \in {0, 1} : \A i \in Reports(e)' :
               /\ i + d \in Reports(e) /\ i \in Nat
               /\ \A t \in Task : Told(e, i, t)' = Told(e, i + d, t)
      BY <1>0, <3>2, PrefixReports
    <3>4. ASSUME NEW c \in Conn
          PROVE  /\ channel'[c] \in Seq(Message)
                 /\ channel'[c] # <<>> => channel[c] # <<>>
                 /\ \E d \in {0, 1} : \A i \in Reports(c)' :
                      /\ i + d \in Reports(c) /\ i \in Nat
                      /\ \A t \in Task : Told(c, i, t)' = Told(c, i + d, t)
      <4>1. CASE c = e
        BY <3>3, <4>1
      <4>2. CASE c # e
        BY <1>0, <2>0, <3>2, <4>2, SameReports
      <4>3. QED
        BY <4>1, <4>2
    <3>5. channel' \in [Conn -> Seq(Message)]
      BY <2>0, <3>1, <3>3
    <3>6. QED
      BY <1>1, <3>4, <3>5 DEF Drop
  <2>3. QED
    BY <2>1, <2>2
<1>3. /\ life' \in [Task -> Life]
      /\ known' \subseteq {t \in Task : life'[t] \in ActiveStatus \cup Outcome}
      /\ \A t \in Task : life'[t] \in ActiveStatus => t \in known'
      /\ reported' \subseteq {t \in known' : life'[t] \in Outcome}
      /\ restarted' \in [daemon : Nat, server : Nat]
      /\ \A t \in Task : /\ life'[t] \in ActiveStatus => life[t] \in ActiveStatus \cup {"new"}
                         /\ life'[t] = "new" => life[t] = "new"
                         /\ life[t] \in Outcome => life'[t] \in {life[t], "cancelled"}
  <2>1. CASE AgentDisconnects
    BY <1>0, <2>1 DEF AgentDisconnects, agentVars, ReportingTypeOK
  <2>2. CASE DaemonRestart
    BY <1>0, <2>2 DEF DaemonRestart, ReportingTypeOK, Life, ActiveStatus, Outcome
  <2>3. QED
    BY <2>1, <2>2
<1>4. ReportingTypeOK'
  BY <1>0, <1>1, <1>2, <1>3 DEF ReportingTypeOK
<1>5. OneConnection'
  BY <1>0, <1>1, <1>2 DEF OneConnection
<1>6. InOrder'
  BY <1>0, <1>1, <1>2, <1>3, OrderKept
<1>7. QED
  BY <1>1, <1>4, <1>5, <1>6 DEF ReportInv


\* A cycle builds its report of the present: it lists all active tasks, and comes
\* after everything that is under way.
LEMMA CollectStep ==
    ASSUME ReportInv, CollectCycle
    PROVE  ReportInv' /\ UNCHANGED <<db, announced>>
<1>0. ReportingTypeOK /\ OneConnection /\ InOrder
  BY DEF ReportInv
<1>1. /\ known' = {t \in known : t \notin reported}
      /\ reported' = {t \in known' : life[t] \in Outcome}
      /\ UNCHANGED <<life, agentConn, used, open, registered, agentSession, latest, db, announced,
                     restarted>>
  BY DEF CollectCycle, Forgotten, serverVars
<1>2. /\ known' \subseteq {t \in Task : life'[t] \in ActiveStatus \cup Outcome}
      /\ \A t \in Task : life'[t] \in ActiveStatus => t \in known'
      /\ reported' \subseteq {t \in known' : life'[t] \in Outcome}
  BY <1>0, <1>1 DEF ReportingTypeOK, ActiveStatus, Outcome
<1> DEFINE r == [t \in Task |-> IF t \in known' THEN life[t] ELSE "absent"]
           message == [type |-> "report", tasks |-> r]
<1>3. \A t \in Task : /\ life[t] \in ActiveStatus => r[t] = life[t]
                      /\ r[t] = life[t] \/ r[t] = "absent"
                      /\ r[t] \in ActiveStatus \cup Outcome \cup {"absent"}
                      /\ life[t] = "new" => r[t] = "absent"
  BY <1>0, <1>1, <1>2 DEF ReportingTypeOK, ActiveStatus, Outcome
<1>4. r \in TaskReport /\ message \in Message /\ message.type = "report" /\ message.tasks = r
  BY <1>3 DEF TaskReport, Message
<1>5. UNCHANGED channel \/ (agentConn \in Conn \cap open
                            /\ channel' = [channel EXCEPT ![agentConn] = Append(@, message)])
  BY <1>0 DEF CollectCycle, Send, ReportingTypeOK
<1> HIDE DEF r, message
<1>6. CASE UNCHANGED channel
  <2>1. ReportingTypeOK'
    BY <1>0, <1>1, <1>2, <1>6 DEF ReportingTypeOK
  <2>2. OneConnection'
    BY <1>0, <1>1, <1>6 DEF OneConnection
  <2>3. \A c \in Conn : \E d \in {0, 1} : \A i \in Reports(c)' :
               /\ i + d \in Reports(c) /\ i \in Nat
               /\ \A t \in Task : Told(c, i, t)' = Told(c, i + d, t)
    BY <1>0, <1>6, SameReports
  <2>4. InOrder'
    BY <1>0, <1>1, <2>3, OrderKept
  <2>5. QED
    BY <1>1, <2>1, <2>2, <2>4 DEF ReportInv
<1>7. CASE agentConn \in Conn \cap open
           /\ channel' = [channel EXCEPT ![agentConn] = Append(@, message)]
  <2>0. channel \in [Conn -> Seq(Message)]
    BY <1>0 DEF ReportingTypeOK
  <2>1. PICK e \in Conn : e = agentConn /\ e \in open
    BY <1>7
  <2>1a. PICK n \in Nat : n = Len(channel[e])
    BY <2>0, <2>1, LenProperties
  <2>2. /\ channel'[e] = Append(channel[e], message) /\ n \in Nat
        /\ \A c \in Conn \ {e} : channel'[c] = channel[c]
        /\ channel' \in [Conn -> Seq(Message)]
    BY <1>4, <1>7, <2>0, <2>1
  <2>3. /\ DOMAIN channel[e] = 1..n /\ DOMAIN channel'[e] = 1..(n + 1)
        /\ \A i \in 1..n : channel'[e][i] = channel[e][i]
        /\ channel'[e][n + 1] = message /\ Len(channel'[e]) = n + 1
    BY <1>4, <2>0, <2>1a, <2>2, AppendProperties
  <2>4. /\ Reports(e)' = Reports(e) \cup {n + 1}
        /\ \A i \in Reports(e) : i \in Nat /\ i <= n /\ \A t \in Task : Told(e, i, t)' = Told(e, i, t)
        /\ \A t \in Task : Told(e, n + 1, t)' = r[t]
    BY <1>4, <2>2, <2>3 DEF Reports, Told
  <2>5. ReportingTypeOK'
    BY <1>0, <1>1, <1>2, <2>2 DEF ReportingTypeOK
  <2>6. OneConnection'
    BY <1>0, <1>1, <2>1, <2>2 DEF OneConnection
  <2>7. InOrder'
    <3> SUFFICES ASSUME NEW t \in Task
                 PROVE  \A c \in Conn :
                          /\ \A i \in Reports(c)' : Told(c, i, t)' \in ActiveStatus => NotEnded(t, c, i)'
                          /\ life[t] \in ActiveStatus => NotEnded(t, c, Len(channel[c]) + 1)'
                          /\ \A i \in Reports(c)' :
                                /\ life[t] = "new" => Told(c, i, t)' = "absent"
                                /\ Told(c, i, t)' \in Outcome => life[t] \in {Told(c, i, t)', "cancelled"}
      BY <1>0, <1>1 DEF InOrder
    <3> SUFFICES ASSUME NEW c \in Conn
                 PROVE  /\ \A i \in Reports(c)' : Told(c, i, t)' \in ActiveStatus => NotEnded(t, c, i)'
                        /\ life[t] \in ActiveStatus => NotEnded(t, c, Len(channel[c]) + 1)'
                        /\ \A i \in Reports(c)' :
                              /\ life[t] = "new" => Told(c, i, t)' = "absent"
                              /\ Told(c, i, t)' \in Outcome => life[t] \in {Told(c, i, t)', "cancelled"}
      OBVIOUS
    <3>0. /\ \A i \in Reports(c) : Told(c, i, t) \in ActiveStatus => NotEnded(t, c, i)
          /\ life[t] \in ActiveStatus => NotEnded(t, c, Len(channel[c]) + 1)
          /\ \A i \in Reports(c) :
                /\ life[t] = "new" => Told(c, i, t) = "absent"
                /\ Told(c, i, t) \in Outcome => life[t] \in {Told(c, i, t), "cancelled"}
      BY <1>0 DEF InOrder
    <3>1. CASE c # e
      <4>1. channel'[c] = channel[c]
        BY <2>2, <3>1
      <4>2. Reports(c)' = Reports(c) /\ \A i \in Reports(c) : Told(c, i, t)' = Told(c, i, t)
        BY <4>1 DEF Reports, Told
      <4>3. \A m : NotEnded(t, c, m) => NotEnded(t, c, m)'
        BY <1>1, <4>2 DEF NotEnded, Believed
      <4>4. QED
        BY <3>0, <4>1, <4>2, <4>3
    <3>2. CASE c = e
      <4>1. \A m \in Nat : m <= n + 1 /\ NotEnded(t, e, m) => NotEnded(t, e, m)'
        BY <1>1, <2>2, <2>4 DEF NotEnded, Believed
      <4>2. ASSUME NEW i \in Reports(e)', Told(e, i, t)' \in ActiveStatus PROVE NotEnded(t, e, i)'
        <5>1. CASE i \in Reports(e)
          BY <2>2, <2>4, <3>0, <3>2, <4>1, <4>2, <5>1
        <5>2. CASE i = n + 1
          <6>1. life[t] \in ActiveStatus
            BY <1>3, <2>4, <4>2, <5>2 DEF ActiveStatus
          <6>2. NotEnded(t, e, n + 1)
            BY <2>1a, <3>0, <3>2, <6>1
          <6>3. QED
            BY <2>2, <4>1, <5>2, <6>2
        <5>3. QED
          BY <2>4, <5>1, <5>2
      <4>3. ASSUME life[t] \in ActiveStatus PROVE NotEnded(t, e, Len(channel[e]) + 1)'
        <5>1. NotEnded(t, e, n + 1)'
          BY <2>2, <2>1a, <3>0, <3>2, <4>1, <4>3
        <5>2. Told(e, n + 1, t)' \in ActiveStatus
          BY <1>3, <2>4, <4>3
        <5>3. "absent" \notin ActiveStatus /\ ActiveStatus \cap Outcome = {}
          BY DEF ActiveStatus, Outcome
        <5>4. \A k \in Reports(e)' : k = n + 1 \/ k < n + 1
          BY <2>2, <2>4
        <5>5. QED
          BY <2>3, <5>1, <5>2, <5>3, <5>4 DEF NotEnded
      <4>4. ASSUME NEW i \in Reports(e)'
            PROVE  /\ life[t] = "new" => Told(e, i, t)' = "absent"
                   /\ Told(e, i, t)' \in Outcome => life[t] \in {Told(e, i, t)', "cancelled"}
        <5>1. CASE i \in Reports(e)
          BY <2>4, <3>0, <3>2, <5>1
        <5>2. CASE i = n + 1
          BY <1>3, <2>4, <5>2 DEF Outcome
        <5>3. QED
          BY <2>4, <5>1, <5>2
      <4>5. QED
        BY <3>2, <4>2, <4>3, <4>4
    <3>3. QED
      BY <3>1, <3>2
  <2>8. QED
    BY <1>1, <2>5, <2>6, <2>7 DEF ReportInv
<1>8. QED
  BY <1>5, <1>6, <1>7

-----------------------------------------------------------------------------
(* The connection. *)

\* The agent connects when the server has seen the end of the old connection.
LEMMA ConnectStep ==
    ASSUME ReportInv, ~Overlap, Connect
    PROVE  ReportInv' /\ UNCHANGED <<db, announced>>
<1>0. ReportingTypeOK /\ OneConnection /\ InOrder
  BY DEF ReportInv
<1>1. /\ open = {} /\ used < MaxConn /\ used' = used + 1 /\ agentConn' = used + 1
      /\ open' = open \cup {used + 1}
      /\ channel' = [channel EXCEPT ![used + 1] = <<Register>>]
      /\ UNCHANGED <<life, known, reported, registered, agentSession, latest, db, announced, restarted>>
  BY DEF Connect, agentVars
<1>2. used + 1 \in Conn /\ used + 1 \in 0..MaxConn
  BY <1>0, <1>1, TaskReportingAssumption DEF ReportingTypeOK, Conn
<1>3. <<Register>> \in Seq(Message)
  BY DEF Message
<1>4. \A c \in Conn : channel'[c] = <<Register>> \/ channel'[c] = <<>>
  BY <1>0, <1>1 DEF ReportingTypeOK, OneConnection
<1>5. ReportingTypeOK'
  BY <1>0, <1>1, <1>2, <1>3 DEF ReportingTypeOK
<1>6. OneConnection'
  BY <1>0, <1>1 DEF OneConnection, ReportingTypeOK
<1>7. InOrder'
  BY <1>0, <1>1, <1>4, NoReports, OrderKept
<1>8. QED
  BY <1>1, <1>5, <1>6, <1>7 DEF ReportInv

\* The registration is taken.
LEMMA RegisterStep ==
    ASSUME ReportInv, NEW c \in Conn, ReceiveRegister(c)
    PROVE  ReportInv' /\ UNCHANGED <<db, announced>>
<1>0. ReportingTypeOK /\ OneConnection /\ InOrder
  BY DEF ReportInv
<1>1. /\ channel[c] # <<>> /\ Taken(c)
      /\ registered' = registered \cup {c} /\ agentSession' = c
      /\ UNCHANGED <<life, known, reported, agentConn, used, open, latest, db, announced, restarted>>
  BY DEF ReceiveRegister, agentVars
<1>2. ReportingTypeOK'
  BY <1>0, <1>1, TakenReports DEF ReportingTypeOK
<1>3. OneConnection'
  BY <1>0, <1>1, TakenReports DEF OneConnection
<1>4. InOrder'
  BY <1>0, <1>1, TakenReports, OrderKept
<1>5. QED
  BY <1>1, <1>2, <1>3, <1>4 DEF ReportInv

\* The server sees the end of a connection.
LEMMA DisconnectStep ==
    ASSUME ReportInv, NEW c \in Conn, SocketDisconnect(c)
    PROVE  ReportInv' /\ UNCHANGED <<db, announced>>
<1>0. ReportingTypeOK /\ OneConnection /\ InOrder
  BY DEF ReportInv
<1>1. /\ open' = open \ {c} /\ registered' = registered \ {c}
      /\ agentSession' \in {0, agentSession}
      /\ channel' = [channel EXCEPT ![c] = <<>>]
      /\ UNCHANGED <<life, known, reported, agentConn, used, latest, db, announced, restarted>>
  BY DEF SocketDisconnect, DetachSession, agentVars
<1>2. <<>> \in Seq(Message)
  OBVIOUS
<1>3. channel \in [Conn -> Seq(Message)]
  BY <1>0 DEF ReportingTypeOK
<1>4. channel'[c] = <<>> /\ \A e \in Conn \ {c} : channel'[e] = channel[e]
  BY <1>1, <1>3
<1>5. ReportingTypeOK'
  BY <1>0, <1>1, <1>2 DEF ReportingTypeOK
<1>6. OneConnection'
  BY <1>0, <1>1, <1>4 DEF OneConnection
<1>7. ASSUME NEW e \in Conn
      PROVE  \E d \in {0, 1} : \A i \in Reports(e)' :
                /\ i + d \in Reports(e) /\ i \in Nat
                /\ \A t \in Task : Told(e, i, t)' = Told(e, i + d, t)
  BY <1>0, <1>4, SameReports, NoReports
<1>8. InOrder'
  BY <1>0, <1>1, <1>7, OrderKept
<1>9. QED
  BY <1>1, <1>5, <1>6, <1>8 DEF ReportInv

\* What a restart of the server leaves, whatever it does to the table.
LEMMA ForgetType ==
    ASSUME ReportInv, ForgetServer, db' \in [Task -> ActiveStatus \cup Terminal \cup {"absent"}]
    PROVE  /\ ReportingTypeOK' /\ OneConnection'
           /\ \A c \in Conn : Reports(c)' = {}
           /\ latest' = NoTasks /\ UNCHANGED <<life, announced>>
           /\ restarted'.server > 0
<1>0. ReportingTypeOK /\ OneConnection
  BY DEF ReportInv
<1>1. /\ restarted' = [restarted EXCEPT !.server = @ + 1]
      /\ open' = {} /\ registered' = {} /\ agentSession' = 0 /\ latest' = NoTasks
      /\ channel' = [c \in Conn |-> <<>>]
      /\ UNCHANGED <<life, known, reported, agentConn, used, announced>>
  BY DEF ForgetServer, agentVars
<1>2. restarted' \in [daemon : Nat, server : Nat] /\ restarted'.server > 0
  BY <1>0, <1>1 DEF ReportingTypeOK
<1>3. NoTasks \in TaskReport /\ <<>> \in Seq(Message)
  BY DEF NoTasks, TaskReport
<1>4. ReportingTypeOK'
  BY <1>0, <1>1, <1>2, <1>3 DEF ReportingTypeOK
<1>5. OneConnection'
  BY <1>1 DEF OneConnection
<1>6. \A c \in Conn : Reports(c)' = {}
  BY <1>1 DEF Reports
<1>7. QED
  BY <1>1, <1>2, <1>4, <1>5, <1>6

\* The server restarts: of the reports it knows only what is in the table.
LEMMA RestartStep ==
    ASSUME ReportInv, ServerRestart
    PROVE  ReportInv' /\ UNCHANGED <<db, announced>>
<1>0. ReportingTypeOK /\ OneConnection /\ InOrder
  BY DEF ReportInv
<1>1. ForgetServer /\ db' = db
  BY DEF ServerRestart
<1>2. /\ ReportingTypeOK' /\ OneConnection' /\ latest' = NoTasks /\ UNCHANGED <<life, announced>>
      /\ \A c \in Conn : Reports(c)' = {}
  BY <1>0, <1>1, ForgetType DEF ReportingTypeOK
<1>3. \A t \in Task : latest'[t] \in {latest[t], "absent"}
  BY <1>2 DEF NoTasks
<1>4. InOrder'
  BY <1>0, <1>1, <1>2, <1>3, OrderKept
<1>5. QED
  BY <1>1, <1>2, <1>4 DEF ReportInv


-----------------------------------------------------------------------------
(* The table. *)

\* Some of the tasks of the first report under way are written down: an end stays an
\* end, no active task is taken for ended, and an outcome is that of the task.
LEMMA WrittenInOrder ==
    ASSUME ReportInv, NEW c \in Conn, channel[c] # <<>>, Head(channel[c]).type = "report",
           NEW r, r = Head(channel[c]).tasks,
           NEW S \in SUBSET (Listed(r) \cup Disappeared(r)),
           db' = Upserted(r, S)
    PROVE  /\ r \in TaskReport
           /\ db' \in [Task -> ActiveStatus \cup Terminal \cup {"absent"}]
           /\ 1 \in Reports(c) /\ \A t \in Task : Told(c, 1, t) = r[t]
           /\ \A t \in Task :
                 /\ t \notin S => db'[t] = db[t]
                 /\ t \in S => db'[t] = Persisted(r, t)
                 /\ db[t] \in Terminal => db'[t] \in Terminal
                 /\ life[t] = "new" => db'[t] = "absent"
                 /\ life[t] \in ActiveStatus => db'[t] \notin Terminal
                 /\ db'[t] \in Outcome => life[t] \in {db'[t], "cancelled"}
<1>0. ReportingTypeOK /\ OneConnection /\ InOrder
  BY DEF ReportInv
<1>1. 1 \in Reports(c) /\ Head(channel[c]) = channel[c][1]
  BY <1>0, HeadAndTail DEF Reports, ReportingTypeOK
<1>2. \A t \in Task : Told(c, 1, t) = r[t]
  BY <1>1 DEF Told
<1>3. r \in TaskReport
  BY <1>0, <1>1, ReportsAreReports
<1>4. \A t \in Task : /\ t \notin S => db'[t] = db[t]
                      /\ t \in S => db'[t] = Persisted(r, t)
  BY <1>3 DEF Upserted, TaskReport
<1>5. ASSUME NEW t \in Task
      PROVE  /\ r[t] \in ActiveStatus \cup Outcome \cup {"absent"}
             /\ t \in S => \/ t \in Disappeared(r) /\ Persisted(r, t) = "disappeared"
                              /\ latest[t] \in ActiveStatus /\ r[t] = "absent"
                           \/ t \notin Disappeared(r) /\ Persisted(r, t) = r[t]
                              /\ r[t] \in ActiveStatus \cup Outcome
  BY <1>3 DEF TaskReport, Persisted, Disappeared, Listed
<1>6. db' \in [Task -> ActiveStatus \cup Terminal \cup {"absent"}]
  <2>1. db' = [t \in Task |-> IF t \in S THEN Persisted(r, t) ELSE db[t]]
    BY DEF Upserted
  <2>2. \A t \in Task : db[t] \in ActiveStatus \cup Terminal \cup {"absent"}
    BY <1>0 DEF ReportingTypeOK
  <2>3. \A t \in S : t \in Task => Persisted(r, t) \in ActiveStatus \cup Terminal \cup {"absent"}
    BY <1>5 DEF Terminal
  <2>4. QED
    BY <2>1, <2>2, <2>3
<1>7. ASSUME NEW t \in Task
      PROVE  /\ db[t] \in Terminal => db'[t] \in Terminal
             /\ life[t] = "new" => db'[t] = "absent"
             /\ life[t] \in ActiveStatus => db'[t] \notin Terminal
             /\ db'[t] \in Outcome => life[t] \in {db'[t], "cancelled"}
  <2>1. /\ r[t] \in ActiveStatus => NotEnded(t, c, 1)
        /\ life[t] \in ActiveStatus => NotEnded(t, c, Len(channel[c]) + 1)
        /\ life[t] = "new" => r[t] = "absent"
        /\ r[t] \in Outcome => life[t] \in {r[t], "cancelled"}
        /\ life[t] = "new" => db[t] = "absent" /\ latest[t] = "absent"
        /\ db[t] \in Outcome => life[t] \in {db[t], "cancelled"}
    BY <1>0, <1>1, <1>2 DEF InOrder
  <2>2. /\ ActiveStatus \cap Terminal = {} /\ Outcome \subseteq Terminal /\ "absent" \notin ActiveStatus
        /\ "disappeared" \in Terminal /\ "disappeared" \notin Outcome
        /\ "absent" \notin Terminal
    BY DEF ActiveStatus, Terminal, Outcome
  <2>3. db[t] \in Terminal => db'[t] \in Terminal
    BY <1>4, <1>5, <2>1, <2>2 DEF NotEnded
  <2>4. life[t] = "new" => db'[t] = "absent"
    BY <1>4, <1>5, <2>1, <2>2
  <2>5. ASSUME life[t] \in ActiveStatus PROVE db'[t] \notin Terminal
    <3>1. 1 < Len(channel[c]) + 1
      BY <1>0, <1>1, ReportsAreReports
    <3>2. /\ db[t] \notin Terminal /\ r[t] \notin Outcome
          /\ latest[t] \in ActiveStatus => r[t] \in ActiveStatus
      BY <1>1, <1>2, <2>1, <2>5, <3>1 DEF NotEnded, Believed
    <3>3. QED
      BY <1>4, <1>5, <2>2, <3>2
  <2>6. db'[t] \in Outcome => life[t] \in {db'[t], "cancelled"}
    BY <1>4, <1>5, <2>1, <2>2
  <2>7. QED
    BY <2>3, <2>4, <2>5, <2>6
<1>8. QED
  BY <1>1, <1>2, <1>3, <1>4, <1>6, <1>7

\* A report is taken: the rest of what is under way is newer than the table and the
\* report that has been taken now.
LEMMA TakeStep ==
    ASSUME ReportInv, NEW c \in Conn, c \in open, channel[c] # <<>>,
           Head(channel[c]).type = "report", Taken(c), TakeReport(Head(channel[c]).tasks),
           UNCHANGED life
    PROVE  InOrder'
<1>0. ReportingTypeOK /\ OneConnection /\ InOrder
  BY DEF ReportInv
<1>1. PICK r : r = Head(channel[c]).tasks
  OBVIOUS
<1>1a. PICK S : S = Listed(r) \cup Disappeared(r)
  OBVIOUS
<1>2. latest' = r /\ db' = Upserted(r, S)
  BY <1>1, <1>1a DEF TakeReport
<1>3. /\ r \in TaskReport /\ 1 \in Reports(c) /\ \A t \in Task : Told(c, 1, t) = r[t]
      /\ \A t \in Task :
             /\ t \notin S => db'[t] = db[t]
             /\ t \in S => db'[t] = Persisted(r, t)
             /\ life[t] = "new" => db'[t] = "absent"
             /\ life[t] \in ActiveStatus => db'[t] \notin Terminal
             /\ db'[t] \in Outcome => life[t] \in {db'[t], "cancelled"}
  <2>1. S \in SUBSET (Listed(r) \cup Disappeared(r))
    BY <1>1a
  <2>2. /\ r \in TaskReport
        /\ db' \in [Task -> ActiveStatus \cup Terminal \cup {"absent"}]
        /\ 1 \in Reports(c) /\ \A t \in Task : Told(c, 1, t) = r[t]
        /\ \A t \in Task :
              /\ t \notin S => db'[t] = db[t]
              /\ t \in S => db'[t] = Persisted(r, t)
              /\ db[t] \in Terminal => db'[t] \in Terminal
              /\ life[t] = "new" => db'[t] = "absent"
              /\ life[t] \in ActiveStatus => db'[t] \notin Terminal
              /\ db'[t] \in Outcome => life[t] \in {db'[t], "cancelled"}
    BY <1>1, <1>2, <2>1, WrittenInOrder, SMT
  <2>3. QED
    BY <2>2
<1>4. /\ \A i \in Reports(c)' :
             /\ i + 1 \in Reports(c) /\ i \in Nat
             /\ \A t \in Task : Told(c, i, t)' = Told(c, i + 1, t)
      /\ Len(channel'[c]) + 1 = Len(channel[c])
      /\ channel' \in [Conn -> Seq(Message)]
      /\ \A e \in Conn \ {c} : channel'[e] = <<>>
  BY <1>0, TakenReports DEF OneConnection
<1>4a. PICK length \in Nat : length = Len(channel'[c]) /\ length + 1 = Len(channel[c])
  BY <1>4, LenProperties
<1>5. \A e \in Conn \ {c} : Reports(e)' = {}
  BY <1>4 DEF Reports
<1>6. ASSUME NEW t \in Task
      PROVE  /\ \A i \in Reports(c)' : Told(c, i, t)' \in ActiveStatus => NotEnded(t, c, i)'
             /\ life[t] \in ActiveStatus => NotEnded(t, c, Len(channel[c]) + 1)'
             /\ \A i \in Reports(c)' :
                   /\ life[t] = "new" => Told(c, i, t)' = "absent"
                   /\ Told(c, i, t)' \in Outcome => life[t] \in {Told(c, i, t)', "cancelled"}
  <2>1. /\ \A i \in Reports(c) : Told(c, i, t) \in ActiveStatus => NotEnded(t, c, i)
        /\ life[t] \in ActiveStatus => NotEnded(t, c, Len(channel[c]) + 1)
        /\ \A i \in Reports(c) :
                 /\ life[t] = "new" => Told(c, i, t) = "absent"
                 /\ Told(c, i, t) \in Outcome => life[t] \in {Told(c, i, t), "cancelled"}
    BY <1>0 DEF InOrder
  <2>2. /\ ActiveStatus \cap Terminal = {} /\ Outcome \subseteq Terminal /\ "absent" \notin ActiveStatus
        /\ "disappeared" \notin ActiveStatus /\ "absent" \notin Terminal
    BY DEF ActiveStatus, Terminal, Outcome
  <2>3. /\ r[t] \in ActiveStatus \cup Outcome \cup {"absent"}
        /\ t \in S => \/ Persisted(r, t) = "disappeared" /\ latest[t] \in ActiveStatus /\ r[t] = "absent"
                      \/ Persisted(r, t) = r[t] /\ r[t] \in ActiveStatus \cup Outcome
    BY <1>1a, <1>3 DEF TaskReport, Persisted, Disappeared, Listed
  <2>4. ASSUME NEW n \in Nat, n >= 1, NotEnded(t, c, n + 1) PROVE NotEnded(t, c, n)'
    <3>1. /\ db[t] \notin Terminal /\ r[t] \notin Outcome
          /\ Believed(t) => r[t] \in ActiveStatus
      BY <1>3, <2>4 DEF NotEnded
    <3>2. db'[t] \notin Terminal
      BY <1>3, <2>2, <2>3, <3>1 DEF Believed
    <3>3. Believed(t)' => Believed(t) \/ r[t] \in ActiveStatus
      BY <1>2, <1>3, <2>2, <2>3 DEF Believed
    <3>4. ASSUME NEW k \in Reports(c)', k < n
          PROVE  /\ Told(c, k, t)' \notin Outcome
                 /\ Believed(t)' => Told(c, k, t)' \in ActiveStatus
                 /\ \A j \in Reports(c)' : j < k /\ Told(c, j, t)' \in ActiveStatus =>
                                              Told(c, k, t)' \in ActiveStatus
      <4>1. k \in Nat /\ k + 1 \in Reports(c) /\ k + 1 < n + 1 /\ Told(c, k, t)' = Told(c, k + 1, t)
        BY <1>4, <3>4
      <4>2. /\ Told(c, k + 1, t) \notin Outcome
            /\ \A j \in Reports(c) : j < k + 1 /\ Told(c, j, t) \in ActiveStatus =>
                                        Told(c, k + 1, t) \in ActiveStatus
        BY <2>4, <4>1 DEF NotEnded
      <4>3. k >= 1
        BY <1>4, <3>4 DEF Reports
      <4>4. r[t] \in ActiveStatus => Told(c, k + 1, t) \in ActiveStatus
        BY <1>3, <4>1, <4>2, <4>3
      <4>5. Believed(t)' => Told(c, k, t)' \in ActiveStatus
        BY <3>1, <3>3, <4>1, <4>4
      <4>6. ASSUME NEW j \in Reports(c)', j < k, Told(c, j, t)' \in ActiveStatus
            PROVE  Told(c, k, t)' \in ActiveStatus
        <5>1. j + 1 \in Reports(c) /\ j + 1 < k + 1 /\ Told(c, j + 1, t) \in ActiveStatus
          BY <1>4, <4>1, <4>6
        <5>2. QED
          BY <4>1, <4>2, <5>1
      <4>7. QED
        BY <4>1, <4>2, <4>5, <4>6
    <3>5. QED
      BY <3>2, <3>4 DEF NotEnded
  <2>5. ASSUME NEW i \in Reports(c)', Told(c, i, t)' \in ActiveStatus PROVE NotEnded(t, c, i)'
    <3>1. i \in Nat /\ i >= 1 /\ i + 1 \in Reports(c) /\ Told(c, i + 1, t) \in ActiveStatus
      BY <1>4, <2>5 DEF Reports
    <3>2. QED
      BY <2>1, <2>4, <3>1
  <2>6. ASSUME life[t] \in ActiveStatus PROVE NotEnded(t, c, Len(channel[c]) + 1)'
    <3>1. NotEnded(t, c, length + 2)
      BY <1>4a, <2>1, <2>6
    <3>2. NotEnded(t, c, length + 1)'
      <4>1. length + 1 \in Nat /\ length + 1 >= 1 /\ (length + 1) + 1 = length + 2
        OBVIOUS
      <4>2. QED
        BY <2>4, <3>1, <4>1
    <3>3. QED
      BY <1>4a, <3>2
  <2>7. ASSUME NEW i \in Reports(c)'
        PROVE  /\ life[t] = "new" => Told(c, i, t)' = "absent"
               /\ Told(c, i, t)' \in Outcome => life[t] \in {Told(c, i, t)', "cancelled"}
    BY <1>4, <2>1, <2>7
  <2>8. QED
    BY <2>5, <2>6, <2>7
<1>7. ASSUME NEW t \in Task, NEW e \in Conn \ {c}
      PROVE  life[t] \in ActiveStatus => NotEnded(t, e, Len(channel[e]) + 1)'
  BY <1>3, <1>5 DEF NotEnded
<1>8. ASSUME NEW t \in Task, life[t] = "new" PROVE latest'[t] = "absent"
  BY <1>0, <1>2, <1>3, <1>8 DEF InOrder
<1>9. ASSUME NEW t \in Task, NEW e \in Conn
      PROVE  /\ \A i \in Reports(e)' : Told(e, i, t)' \in ActiveStatus => NotEnded(t, e, i)'
             /\ life'[t] \in ActiveStatus => NotEnded(t, e, Len(channel[e]) + 1)'
             /\ \A i \in Reports(e)' :
                   /\ life'[t] = "new" => Told(e, i, t)' = "absent"
                   /\ Told(e, i, t)' \in Outcome => life'[t] \in {Told(e, i, t)', "cancelled"}
  BY <1>5, <1>6, <1>7
<1>10. QED
  BY <1>3, <1>8, <1>9 DEF InOrder


\* A report arrives.
LEMMA ReceiveStep ==
    ASSUME ReportInv, NEW c \in Conn, ReceiveReport(c)
    PROVE  /\ ReportInv'
           /\ \A t \in Task : db[t] \in Terminal => db'[t] \in Terminal
<1>0. ReportingTypeOK /\ OneConnection /\ InOrder
  BY DEF ReportInv
<1>1. /\ c \in open /\ channel[c] # <<>> /\ Head(channel[c]).type = "report" /\ Taken(c)
      /\ UNCHANGED <<life, known, reported, agentConn, used, open, registered, agentSession,
                     restarted>>
      /\ TakeReport(Head(channel[c]).tasks) \/ UNCHANGED <<latest, db, announced>>
  BY DEF ReceiveReport, agentVars
<1>2. OneConnection'
  BY <1>0, <1>1, TakenReports DEF OneConnection
<1>3. channel' \in [Conn -> Seq(Message)]
  BY <1>0, <1>1, TakenReports
<1>4. CASE UNCHANGED <<latest, db, announced>>
  <2>1. ReportingTypeOK'
    BY <1>0, <1>1, <1>3, <1>4 DEF ReportingTypeOK
  <2>2. InOrder'
    BY <1>0, <1>1, <1>4, TakenReports, OrderKept
  <2>3. QED
    BY <1>2, <1>4, <2>1, <2>2 DEF ReportInv
<1>5. CASE TakeReport(Head(channel[c]).tasks)
  <2>1. PICK r : r = Head(channel[c]).tasks
    OBVIOUS
  <2>2. PICK S \in SUBSET (Listed(r) \cup Disappeared(r)) : S = Listed(r) \cup Disappeared(r)
    OBVIOUS
  <2>3. /\ latest' = r /\ db' = Upserted(r, S)
        /\ announced' = [t \in Task |-> [a \in Announcement |->
               IF <<a, t>> \in Changes(r) /\ announced[t][a] < 2 THEN announced[t][a] + 1
                                                                 ELSE announced[t][a]]]
    BY <1>5, <2>1, <2>2 DEF TakeReport
  <2>4. /\ r \in TaskReport
        /\ db' \in [Task -> ActiveStatus \cup Terminal \cup {"absent"}]
        /\ \A t \in Task : db[t] \in Terminal => db'[t] \in Terminal
    BY <1>1, <2>1, <2>3, WrittenInOrder
  <2>5. announced' \in [Task -> [Announcement -> 0..2]]
    <3>1. ASSUME NEW t \in Task, NEW a \in Announcement, NEW n, n = announced[t][a]
          PROVE  n \in 0..2 /\ (n < 2 => n + 1 \in 0..2)
      BY <1>0, <3>1 DEF ReportingTypeOK
    <3>2. QED
      BY <2>3, <3>1
  <2>6. ReportingTypeOK'
    BY <1>0, <1>1, <1>3, <2>3, <2>4, <2>5 DEF ReportingTypeOK
  <2>7. InOrder'
    BY <1>1, <1>5, TakeStep
  <2>8. QED
    BY <1>2, <2>4, <2>6, <2>7 DEF ReportInv
<1>6. QED
  BY <1>1, <1>4, <1>5

\* The server dies while it writes a report.
LEMMA CrashStep ==
    ASSUME ReportInv, NEW c \in Conn, CrashWhileProcessing(c)
    PROVE  /\ ReportInv'
           /\ \A t \in Task : db[t] \in Terminal => db'[t] \in Terminal
           /\ restarted'.server > 0 /\ latest' = NoTasks /\ UNCHANGED announced
<1>1. channel[c] # <<>> /\ Head(channel[c]).type = "report" /\ ForgetServer
  BY DEF CrashWhileProcessing
<1>2. PICK r : r = Head(channel[c]).tasks
  OBVIOUS
<1>3. PICK S \in SUBSET (Listed(r) \cup Disappeared(r)) : db' = Upserted(r, S)
  BY <1>2 DEF CrashWhileProcessing
<1>4. /\ db' \in [Task -> ActiveStatus \cup Terminal \cup {"absent"}]
      /\ \A t \in Task :
             /\ db[t] \in Terminal => db'[t] \in Terminal
             /\ life[t] = "new" => db'[t] = "absent"
             /\ life[t] \in ActiveStatus => db'[t] \notin Terminal
             /\ db'[t] \in Outcome => life[t] \in {db'[t], "cancelled"}
  BY <1>1, <1>2, <1>3, WrittenInOrder
<1>5. /\ ReportingTypeOK' /\ OneConnection'
      /\ \A e \in Conn : Reports(e)' = {}
      /\ latest' = NoTasks /\ UNCHANGED <<life, announced>>
      /\ restarted'.server > 0
  BY <1>1, <1>4, ForgetType
<1>6. \A t \in Task : latest'[t] = "absent"
  BY <1>5 DEF NoTasks
<1>7. InOrder'
  BY <1>4, <1>5, <1>6 DEF InOrder, NotEnded
<1>8. QED
  BY <1>4, <1>5, <1>7 DEF ReportInv

-----------------------------------------------------------------------------
(* Theorems about the table. *)

\* The step property of TerminalStays.
EndsStay == \A t \in Task : db[t] \in Terminal => db'[t] \in Terminal

\* Nothing is under way at first, and nobody has heard of any task.
LEMMA ReportingInitInv == ReportingInit => ReportInv
<1> SUFFICES ASSUME ReportingInit PROVE ReportInv
  OBVIOUS
<1>1. NoTasks \in TaskReport /\ <<>> \in Seq(Message)
  BY DEF NoTasks, TaskReport
<1>2. /\ life = [t \in Task |-> "new"] /\ known = {} /\ reported = {}
      /\ agentConn = 0 /\ used = 0
      /\ channel = [c \in Conn |-> <<>>]
      /\ open = {} /\ registered = {} /\ agentSession = 0 /\ latest = NoTasks
      /\ db = [t \in Task |-> "absent"]
      /\ announced = [t \in Task |-> [a \in Announcement |-> 0]]
      /\ restarted = [daemon |-> 0, server |-> 0]
  BY DEF ReportingInit
<1>3. 0 \in 0..MaxConn
  BY TaskReportingAssumption
<1>4. ReportingTypeOK
  <2>1. life \in [Task -> Life]
    BY <1>2 DEF Life
  <2>2. \A t \in Task : life[t] \notin ActiveStatus
    BY <1>2 DEF ActiveStatus
  <2>3. announced \in [Task -> [Announcement -> 0..2]]
    BY <1>2
  <2>4. QED
    BY <1>1, <1>2, <1>3, <2>1, <2>2, <2>3 DEF ReportingTypeOK
<1>5. OneConnection
  BY <1>2 DEF OneConnection
<1>6. InOrder
  <2>1. \A c \in Conn : Reports(c) = {}
    BY <1>2 DEF Reports
  <2>2. \A t \in Task : life[t] = "new" /\ db[t] = "absent" /\ latest[t] = "absent"
    BY <1>2 DEF NoTasks
  <2>3. "new" \notin ActiveStatus /\ "absent" \notin Outcome
    BY DEF ActiveStatus, Outcome
  <2>4. QED
    BY <2>1, <2>2, <2>3 DEF InOrder
<1>7. QED
  BY <1>4, <1>5, <1>6 DEF ReportInv

\* Every step keeps the order, as long as connections do not overlap.
LEMMA ReportingStep ==
    ~Overlap /\ ReportInv /\ [ReportingNext]_reportingVars => ReportInv' /\ EndsStay
<1> SUFFICES ASSUME ~Overlap, ReportInv, [ReportingNext]_reportingVars
             PROVE  ReportInv' /\ EndsStay
  OBVIOUS
<1>1. CASE \/ \E t \in Task : Submit(t) \/ Start(t) \/ Finish(t) \/ Cancel(t)
           \/ TickWithoutReport
  BY <1>1, NodeStep DEF EndsStay
<1>2. CASE CollectCycle
  BY <1>2, CollectStep DEF EndsStay
<1>3. CASE Connect
  BY <1>3, ConnectStep DEF EndsStay
<1>4. CASE AgentDisconnects \/ DaemonRestart
  BY <1>4, LoseStep DEF EndsStay
<1>5. ASSUME NEW c \in Conn, ReceiveRegister(c) \/ SocketDisconnect(c)
      PROVE  ReportInv' /\ EndsStay
  BY <1>5, RegisterStep, DisconnectStep DEF EndsStay
<1>6. ASSUME NEW c \in Conn, ReceiveReport(c) \/ CrashWhileProcessing(c)
      PROVE  ReportInv' /\ EndsStay
  BY <1>6, ReceiveStep, CrashStep DEF EndsStay
<1>7. CASE ServerRestart
  BY <1>7, RestartStep DEF EndsStay
<1>8. CASE UNCHANGED reportingVars
  BY <1>8 DEF reportingVars, agentVars, serverVars, EndsStay, ReportInv, ReportingTypeOK,
              OneConnection, InOrder, NotEnded, Believed, Reports, Told
<1>9. QED
  BY <1>1, <1>2, <1>3, <1>4, <1>5, <1>6, <1>7, <1>8 DEF ReportingNext

\* With one connection at a time, what the table says of the end of a task is true,
\* whichever reports are lost and whoever restarts.
THEOREM TableAlwaysTrue == ASSUME ~Overlap PROVE ReportingSpec => []TableIsTrue
<1>1. ReportInv => TableIsTrue
  BY DEF ReportInv, InOrder, TableIsTrue, Terminal
<1>2. ReportInv /\ [ReportingNext]_reportingVars => ReportInv'
  BY ReportingStep
<1>3. QED
  BY <1>1, <1>2, ReportingInitInv, PTL DEF ReportingSpec

\* With one connection at a time, a task that the table shows as ended never goes
\* back to queued or running there.
THEOREM EndsAlwaysStay == ASSUME ~Overlap PROVE ReportingSpec => TerminalStays
<1>1. ReportInv /\ [ReportingNext]_reportingVars => ReportInv' /\ [EndsStay]_reportingVars
  BY ReportingStep
<1>2. QED
  BY <1>1, ReportingInitInv, PTL DEF ReportingSpec, TerminalStays, EndsStay


-----------------------------------------------------------------------------
(* The announcements. *)

\* What the latest report lists was announced when it was first listed.
LatestIsAnnounced ==
    \A t \in Task :
        /\ latest[t] \in ActiveStatus => announced[t]["submitted"] > 0
        /\ latest[t] = "running" => announced[t]["started"] > 0

AnnouncedInv == LatestIsAnnounced /\ AnnouncementsAgree

\* Everything but a report that arrives leaves the table and the announcements, or
\* happens in a server that has restarted.
Unheard ==
    /\ UNCHANGED announced
    /\ \A t \in Task : latest'[t] \in {latest[t], "absent"}
    /\ \A t \in Task : db[t] \in Terminal => db'[t] \in Terminal
    /\ UNCHANGED db \/ restarted'.server > 0
    /\ restarted'.server = 0 => restarted.server = 0

\* A step that announces nothing keeps table and announcements in agreement.
LEMMA UnheardStep == AnnouncedInv /\ Unheard => AnnouncedInv'
<1> SUFFICES ASSUME AnnouncedInv, Unheard PROVE AnnouncedInv'
  OBVIOUS
<1>1. LatestIsAnnounced'
  BY DEF AnnouncedInv, LatestIsAnnounced, Unheard, ActiveStatus
<1>2. AnnouncedInOrder'
  BY DEF AnnouncedInv, AnnouncementsAgree, AnnouncedInOrder, Unheard
<1>3. TableIsAnnounced'
  BY DEF AnnouncedInv, AnnouncementsAgree, TableIsAnnounced, Unheard
<1>4. QED
  BY <1>1, <1>2, <1>3 DEF AnnouncedInv, AnnouncementsAgree

\* A report that arrives is announced as it is written.
LEMMA HeardStep ==
    ASSUME ReportInv, AnnouncedInv, NEW r \in TaskReport, TakeReport(r), UNCHANGED restarted,
           \A t \in Task : db[t] \in Terminal => db'[t] \in Terminal
    PROVE  AnnouncedInv'
<1>0. /\ announced \in [Task -> [Announcement -> 0..2]] /\ latest \in TaskReport
      /\ db \in [Task -> ActiveStatus \cup Terminal \cup {"absent"}]
  BY DEF ReportInv, ReportingTypeOK
<1>1. /\ latest' = r /\ db' = Upserted(r, Listed(r) \cup Disappeared(r))
      /\ announced' = [t \in Task |-> [a \in Announcement |->
             IF <<a, t>> \in Changes(r) /\ announced[t][a] < 2 THEN announced[t][a] + 1
                                                               ELSE announced[t][a]]]
  BY DEF TakeReport
<1>2. ASSUME NEW t \in Task, NEW a \in Announcement
      PROVE  announced'[t][a] > 0 <=> announced[t][a] > 0 \/ <<a, t>> \in Changes(r)
  <2>1. PICK n \in 0..2 : n = announced[t][a]
    BY <1>0
  <2>2. announced'[t][a] = IF <<a, t>> \in Changes(r) /\ n < 2 THEN n + 1 ELSE n
    BY <1>1, <2>1
  <2>3. QED
    BY <2>1, <2>2
<1>3. ASSUME NEW t \in Task
      PROVE  /\ <<"submitted", t>> \in Changes(r) <=>
                    r[t] \in ActiveStatus /\ latest[t] \notin ActiveStatus
             /\ <<"started", t>> \in Changes(r) <=> r[t] = "running" /\ latest[t] # "running"
             /\ <<"ended", t>> \in Changes(r) <=>
                    r[t] \in Outcome \/ (latest[t] \in ActiveStatus /\ r[t] = "absent")
  BY DEF Changes, Ended, Disappeared
<1>4. ASSUME NEW t \in Task
      PROVE  db'[t] = IF latest[t] \in ActiveStatus /\ r[t] = "absent" THEN "disappeared"
                      ELSE IF r[t] # "absent" THEN r[t] ELSE db[t]
  BY <1>0, <1>1 DEF Upserted, Listed, Disappeared, Persisted
<1>5. "submitted" \in Announcement /\ "started" \in Announcement /\ "ended" \in Announcement
  BY DEF Announcement
<1>6. ASSUME NEW t \in Task
      PROVE  /\ latest[t] \in ActiveStatus => announced[t]["submitted"] > 0
             /\ latest[t] = "running" => announced[t]["started"] > 0
             /\ announced[t]["started"] > 0 => announced[t]["submitted"] > 0
             /\ announced[t]["ended"] > 0 => db[t] \in Terminal
             /\ restarted.server = 0 =>
                    /\ db[t] = "running" => announced[t]["started"] > 0
                    /\ db[t] \in ActiveStatus => announced[t]["submitted"] > 0
                    /\ db[t] \in Terminal <=> announced[t]["ended"] > 0
  BY DEF AnnouncedInv, LatestIsAnnounced, AnnouncementsAgree, AnnouncedInOrder, TableIsAnnounced
<1>7. ASSUME NEW t \in Task
      PROVE  /\ r[t] \in ActiveStatus \cup Outcome \cup {"absent"}
             /\ r[t] = "running" => r[t] \in ActiveStatus
             /\ r[t] \in Outcome => r[t] \in Terminal
  BY DEF TaskReport, ActiveStatus, Terminal, Outcome
<1>8. /\ ActiveStatus \cap Terminal = {} /\ "absent" \notin ActiveStatus \cup Terminal
      /\ "disappeared" \in Terminal /\ "running" \in ActiveStatus
      /\ ActiveStatus \cap Outcome = {} /\ "absent" \notin Outcome
  BY DEF ActiveStatus, Terminal, Outcome
<1>9. LatestIsAnnounced'
  BY <1>1, <1>2, <1>3, <1>5, <1>6, <1>7 DEF LatestIsAnnounced
<1>10. AnnouncedInOrder'
  <2>1. ASSUME NEW t \in Task, announced'[t]["started"] > 0 PROVE announced'[t]["submitted"] > 0
    BY <1>2, <1>3, <1>5, <1>6, <1>7, <2>1
  <2>2. ASSUME NEW t \in Task, announced'[t]["ended"] > 0 PROVE db'[t] \in Terminal
    BY <1>2, <1>3, <1>4, <1>5, <1>6, <1>7, <1>8, <2>2
  <2>3. QED
    BY <2>1, <2>2 DEF AnnouncedInOrder
<1>11. TableIsAnnounced'
  <2> SUFFICES ASSUME restarted.server = 0, NEW t \in Task
               PROVE  /\ db'[t] = "running" => announced'[t]["started"] > 0
                      /\ db'[t] \in ActiveStatus => announced'[t]["submitted"] > 0
                      /\ db'[t] \in Terminal <=> announced'[t]["ended"] > 0
    BY DEF TableIsAnnounced
  <2>1. db'[t] = "running" => announced'[t]["started"] > 0
    BY <1>2, <1>3, <1>4, <1>5, <1>6, <1>7, <1>8
  <2>2. db'[t] \in ActiveStatus => announced'[t]["submitted"] > 0
    BY <1>2, <1>3, <1>4, <1>5, <1>6, <1>7, <1>8
  <2>3. db'[t] \in Terminal => announced'[t]["ended"] > 0
    BY <1>2, <1>3, <1>4, <1>5, <1>6, <1>7, <1>8
  <2>4. announced'[t]["ended"] > 0 => db'[t] \in Terminal
    BY <1>10 DEF AnnouncedInOrder
  <2>5. QED
    BY <2>1, <2>2, <2>3, <2>4
<1>12. QED
  BY <1>9, <1>10, <1>11 DEF AnnouncedInv, AnnouncementsAgree

\* Every step keeps the announcements and the table in agreement.
LEMMA AnnouncedStep ==
    ~Overlap /\ ReportInv /\ AnnouncedInv /\ [ReportingNext]_reportingVars => AnnouncedInv'
<1> SUFFICES ASSUME ~Overlap, ReportInv, AnnouncedInv, [ReportingNext]_reportingVars
             PROVE  AnnouncedInv'
  OBVIOUS
<1>0. EndsStay /\ restarted \in [daemon : Nat, server : Nat] /\ latest \in TaskReport
  BY ReportingStep DEF ReportInv, ReportingTypeOK
<1>1. CASE \/ \E t \in Task : Submit(t) \/ Start(t) \/ Finish(t) \/ Cancel(t)
           \/ TickWithoutReport \/ CollectCycle \/ Connect \/ AgentDisconnects
           \/ \E c \in Conn : ReceiveRegister(c) \/ SocketDisconnect(c)
           \/ UNCHANGED reportingVars
  <2>1. UNCHANGED <<announced, latest, db, restarted>>
    BY <1>1 DEF Submit, Start, Finish, Cancel, TickWithoutReport, CollectCycle, Connect,
                AgentDisconnects, ReceiveRegister, SocketDisconnect, serverVars, reportingVars
  <2>2. QED
    BY <2>1, UnheardStep DEF Unheard
<1>2. CASE DaemonRestart
  <2>1. UNCHANGED <<announced, latest, db>> /\ restarted'.server = restarted.server
    BY <1>0, <1>2 DEF DaemonRestart, serverVars
  <2>2. QED
    BY <2>1, UnheardStep DEF Unheard
<1>3. CASE ServerRestart
  <2>1. /\ UNCHANGED <<announced, db>> /\ latest' = NoTasks
        /\ restarted' = [restarted EXCEPT !.server = @ + 1]
    BY <1>3 DEF ServerRestart, ForgetServer
  <2>2. restarted'.server > 0
    BY <1>0, <2>1
  <2>3. \A t \in Task : latest'[t] = "absent"
    BY <2>1 DEF NoTasks
  <2>4. QED
    BY <2>1, <2>2, <2>3, UnheardStep DEF Unheard
<1>4. ASSUME NEW c \in Conn, CrashWhileProcessing(c) PROVE AnnouncedInv'
  <2>1. restarted'.server > 0 /\ latest' = NoTasks /\ UNCHANGED announced
    BY <1>4, CrashStep
  <2>2. \A t \in Task : latest'[t] = "absent"
    BY <2>1 DEF NoTasks
  <2>3. QED
    BY <1>0, <2>1, <2>2, UnheardStep DEF Unheard, EndsStay
<1>5. ASSUME NEW c \in Conn, ReceiveReport(c) PROVE AnnouncedInv'
  <2>1. /\ channel[c] # <<>> /\ Head(channel[c]).type = "report" /\ UNCHANGED restarted
        /\ TakeReport(Head(channel[c]).tasks) \/ UNCHANGED <<latest, db, announced>>
    BY <1>5 DEF ReceiveReport
  <2>2. CASE UNCHANGED <<latest, db, announced>>
    BY <2>1, <2>2, UnheardStep DEF Unheard
  <2>3. CASE TakeReport(Head(channel[c]).tasks)
    <3>1. Head(channel[c]).tasks \in TaskReport
      <4>1. 1 \in Reports(c) /\ Head(channel[c]) = channel[c][1]
        BY <2>1, HeadAndTail DEF ReportInv, ReportingTypeOK, Reports
      <4>2. QED
        BY <4>1, ReportsAreReports DEF ReportInv
    <3>2. QED
      BY <1>0, <2>1, <2>3, <3>1, HeardStep DEF EndsStay
  <2>4. QED
    BY <2>1, <2>2, <2>3
<1>6. QED
  BY <1>1, <1>2, <1>3, <1>4, <1>5 DEF ReportingNext

\* With one connection at a time, what is announced of a task comes in its order and
\* agrees with the table for as long as the server does not restart.
THEOREM AnnouncementsAlwaysAgree == ASSUME ~Overlap PROVE ReportingSpec => []AnnouncementsAgree
<1>1. ReportingInit => AnnouncedInv
  <2> SUFFICES ASSUME ReportingInit PROVE AnnouncedInv
    OBVIOUS
  <2>1. \A t \in Task : /\ latest[t] = "absent" /\ db[t] = "absent"
                        /\ announced[t]["submitted"] = 0 /\ announced[t]["started"] = 0
                        /\ announced[t]["ended"] = 0
    BY DEF ReportingInit, NoTasks, Announcement
  <2>2. "absent" \notin ActiveStatus \cup Terminal
    BY DEF ActiveStatus, Terminal, Outcome
  <2>3. QED
    BY <2>1, <2>2 DEF AnnouncedInv, LatestIsAnnounced, AnnouncementsAgree, AnnouncedInOrder,
                      TableIsAnnounced
<1>2. ReportInv /\ [ReportingNext]_reportingVars => ReportInv'
  BY ReportingStep
<1>3. ReportInv /\ AnnouncedInv /\ [ReportingNext]_reportingVars => AnnouncedInv'
  BY AnnouncedStep
<1>4. AnnouncedInv => AnnouncementsAgree
  BY DEF AnnouncedInv
<1>5. QED
  BY <1>1, <1>2, <1>3, <1>4, ReportingInitInv, PTL DEF ReportingSpec
=============================================================================
