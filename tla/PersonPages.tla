----------------------------- MODULE PersonPages -----------------------------
(***************************************************************************)
(* The directory of persons and the page of one person in the web console  *)
(* (People.tsx, PersonDetail.tsx), with the access tokens that both issue. *)
(* The directory issues tokens in a loop that goes on when its page has    *)
(* been left.  The page of a person loads once for its address; a browser  *)
(* that jumps from one person to another in its history keeps the page and *)
(* does not cancel the earlier load.  Changes are sent one by one, their   *)
(* replies come in any order or not at all, and another administrator or   *)
(* the person works on the same rows.                                      *)
(*                                                                         *)
(* Of the name and the addresses of a person it matters for whom they were *)
(* typed.  A person who has signed in does on their one page what an       *)
(* administrator does.  Left out are the order of the lists, the timeline, *)
(* the bindings, whether the form is open, and the text of a new token;    *)
(* the four answers of a load are taken for one.                           *)
(***************************************************************************)
EXTENDS Naturals, Sequences, FiniteSets

CONSTANTS Human,                        \* persons
          MaxKeys, MaxUnderWay    \* bounds: tokens; loads and changes under way

ASSUME SheetAssumption ==
  /\ Human \cap {"away", "directory", "nobody"} = {}
  /\ MaxKeys \in Nat /\ MaxUnderWay \in Nat

VARIABLES
  route,    \* the page of this behaviour: "directory" or "person"
  data,     \* data[h]: for whom it was typed
  keys,     \* person_tokens: [of, active] by row
  sheet,    \* the page that is open, see NoSheet
  loads,    \* loads of the page under way
  posts,    \* changes under way
  batches,  \* loops of handleBatchTokenGenerate under way
  stale,    \* history: something happened after which the page may be out of date
  spoiled   \* history: a page was saved that had taken another person's answer

sheetVars == <<route, data, keys, sheet, loads, posts, batches, stale, spoiled>>

Blank == "nobody"
KeysOf(h) == {[id |-> i, active |-> keys[i].active] : i \in {j \in DOMAIN keys : keys[j].of = h}}

\* rows, texts and issuing belong to the directory, the others to a person.
\* History: mixed, an answer of another person's was taken since its own.
NoSheet ==
  [at |-> "away", rows |-> {}, texts |-> {}, issuing |-> FALSE,
   loading |-> FALSE, person |-> {}, form |-> Blank, tokens |-> {}, mixed |-> FALSE]

SheetInit ==
  /\ route \in {"directory", "person"}
  /\ data = [h \in Human |-> h]
  /\ keys = <<>>
  /\ sheet = NoSheet /\ loads = {} /\ posts = {} /\ batches = {}
  /\ stale = FALSE /\ spoiled = FALSE

\* The page shows the rows of the person of its address.
UpToDate == /\ sheet.person = {data[sheet.at]}
            /\ sheet.tokens = KeysOf(sheet.at)
OnPerson == sheet.at \in Human
StaleBy(cause) == stale' = ((stale \/ cause) /\ OnPerson' /\ ~UpToDate')

\* A number is used again once nothing bears it.
Number(S)  == CHOOSE n \in 1 .. MaxUnderWay : \A x \in S : x.n # n
MayAsk     == Cardinality(loads) + Cardinality(posts) < MaxUnderWay
Requests   == <<loads, posts, batches>>
Tables     == <<route, data, keys>>

-----------------------------------------------------------------------------
(* What the server does. *)

createKey(h) == Append(keys, [of |-> h, active |-> TRUE])
rotateKey(i) == Append([keys EXCEPT ![i].active = FALSE], [of |-> keys[i].of, active |-> TRUE])

updatePerson(h, form) == [data EXCEPT ![h] = form]

ServePost(p) ==
  /\ p \in posts /\ p.stage = "asked"
  /\ \/ p.kind = "save"   /\ data' = updatePerson(p.of, p.form) /\ UNCHANGED keys
     \/ p.kind = "issue"  /\ Len(keys) < MaxKeys /\ keys' = createKey(p.of) /\ UNCHANGED data
     \/ p.kind = "revoke" /\ keys' = [keys EXCEPT ![p.key].active = FALSE] /\ UNCHANGED data
     \/ p.kind = "rotate" /\ Len(keys) < MaxKeys /\ keys' = rotateKey(p.key) /\ UNCHANGED data
  /\ posts' = (posts \ {p}) \cup
       {[p EXCEPT !.stage = "done", !.new = IF p.kind \in {"issue", "rotate"} THEN Len(keys') ELSE 0,
                  !.form = IF p.kind = "save" THEN data'[p.of] ELSE Blank]}
  /\ UNCHANGED <<route, sheet, loads, batches, spoiled>>
  /\ StaleBy(OnPerson /\ ~p.here)

ServeLoad(l) ==
  /\ l \in loads /\ ~l.served
  /\ loads' = (loads \ {l}) \cup {[l EXCEPT !.served = TRUE, !.is = data[l.of], !.tokens = KeysOf(l.of)]}
  /\ UNCHANGED <<Tables, sheet, posts, batches, stale, spoiled>>

-----------------------------------------------------------------------------
(* The directory. *)

OpenDirectory ==
  /\ route = "directory" /\ sheet.at = "away"
  /\ sheet' = [NoSheet EXCEPT !.at = "directory", !.loading = TRUE]
  /\ UNCHANGED <<Tables, Requests, stale, spoiled>>

\* rows are the active persons of that moment; a directory that cannot be loaded
\* is empty.
DirectoryArrives ==
  /\ sheet.at = "directory" /\ sheet.loading
  /\ \E rows \in SUBSET Human : sheet' = [sheet EXCEPT !.rows = rows, !.loading = FALSE]
  /\ UNCHANGED <<Tables, Requests, stale, spoiled>>

handleBatchTokenGenerate ==
  /\ sheet.at = "directory" /\ sheet.rows # {} /\ ~sheet.issuing
  /\ Cardinality(batches) < MaxUnderWay
  /\ sheet' = [sheet EXCEPT !.issuing = TRUE]
  /\ batches' = batches \cup {[n |-> Number(batches), todo |-> sheet.rows, made |-> {}, here |-> TRUE]}
  /\ UNCHANGED <<Tables, loads, posts, stale, spoiled>>

\* One call of the loop, and after the last one the list; of a call that fails,
\* before or after the server has made the token, the loop takes no notice.
IssueOne(b, h) ==
  /\ b \in batches /\ h \in b.todo
  /\ \E issued \in {keys, createKey(h)} : \E answered \in BOOLEAN :
       LET made == IF answered THEN b.made \cup {<<h, Len(issued)>>} ELSE b.made
           over == b.todo = {h}
       IN  /\ Len(issued) <= MaxKeys /\ keys' = issued
           /\ issued = keys => ~answered
           /\ batches' = (batches \ {b}) \cup
                IF over THEN {} ELSE {[b EXCEPT !.todo = @ \ {h}, !.made = made]}
           /\ sheet' = IF over /\ b.here
                         THEN [sheet EXCEPT !.texts = made, !.issuing = FALSE] ELSE sheet
  /\ UNCHANGED <<route, data, loads, posts, stale, spoiled>>

-----------------------------------------------------------------------------
(* The page of a person. *)

\* One load more; those before are late.
OneMore(h, before) ==
  {[l EXCEPT !.late = TRUE] : l \in before} \cup
  {[of |-> h, late |-> FALSE, served |-> FALSE, is |-> Blank, tokens |-> {}]}

OpenPerson(h) ==
  /\ route = "person" /\ sheet.at = "away"
  /\ sheet' = [NoSheet EXCEPT !.at = h, !.loading = TRUE]
  /\ MayAsk /\ loads' = OneMore(h, {})
  /\ UNCHANGED <<Tables, posts, batches, spoiled>> /\ StaleBy(FALSE)

\* The component stays, with all it has; the effect runs again.
JumpToPerson(h) ==
  /\ OnPerson /\ sheet.at # h
  /\ sheet' = [sheet EXCEPT !.at = h, !.loading = TRUE]
  /\ MayAsk /\ loads' = OneMore(h, loads)
  /\ posts' = {[p EXCEPT !.jumped = TRUE] : p \in posts}
  /\ UNCHANGED <<Tables, batches, spoiled>> /\ StaleBy(FALSE)

\* What is under way does not find its page again, but reaches the server.
Leave ==
  /\ sheet.at # "away" /\ sheet' = NoSheet
  /\ loads' = {}
  /\ posts' = {[p EXCEPT !.here = FALSE] : p \in {q \in posts : q.stage = "asked"}}
  /\ batches' = {[b EXCEPT !.here = FALSE] : b \in batches}
  /\ stale' = FALSE /\ UNCHANGED <<Tables, spoiled>>

\* Mutant: the fields keep what they were filled with first.
FilledOnce(s, l) ==
  [s EXCEPT !.person = {l.is}, !.tokens = l.tokens,
            !.form = IF @ = Blank THEN l.is ELSE @, !.mixed = l.of # s.at]

Filled(s, l) ==
  [s EXCEPT !.person = {l.is}, !.tokens = l.tokens,
            !.form = l.is, !.mixed = l.of # s.at]

\* Tokens that cannot be loaded are shown as none.
LoadArrives(l) ==
  /\ l \in loads /\ l.served
  /\ loads' = loads \ {l}
  /\ \E got \in {l, [l EXCEPT !.tokens = {}]} :
       sheet' = [Filled(sheet, got) EXCEPT !.loading = FALSE]
  /\ UNCHANGED <<Tables, posts, batches, spoiled>>
  /\ StaleBy(l.late \/ sheet'.tokens # l.tokens \/ l.tokens # KeysOf(l.of) \/ l.is # data[l.of])

LoadFails(l) ==
  /\ l \in loads /\ loads' = loads \ {l}
  /\ sheet' = [sheet EXCEPT !.person = {}, !.loading = FALSE]
  /\ UNCHANGED <<Tables, posts, batches, spoiled>> /\ StaleBy(TRUE)

\* What can be clicked: nothing while the page loads or knows no person.
Usable == OnPerson /\ ~sheet.loading /\ sheet.person # {}

TypeInForm ==
  /\ Usable /\ sheet' = [sheet EXCEPT !.form = sheet.at]
  /\ UNCHANGED <<Tables, Requests, stale, spoiled>>

\* A change is sent for the address of the page, or for a row of its list.
Post(kind, key, form) ==
  /\ Usable /\ MayAsk
  /\ posts' = posts \cup
       {[n |-> Number(posts), kind |-> kind,
         of |-> sheet.at, key |-> key, form |-> form, new |-> 0, stage |-> "asked",
         here |-> TRUE, jumped |-> FALSE]}
  /\ UNCHANGED <<Tables, sheet, loads, batches, stale>>

handleSave ==
  /\ Post("save", 0, sheet.form)
  /\ spoiled' = (spoiled \/ sheet.mixed)
IssueToken == Post("issue", 0, Blank) /\ UNCHANGED spoiled
RevokeOrRotate(k) ==
  /\ k \in sheet.tokens /\ k.active
  /\ \E kind \in {"revoke", "rotate"} : Post(kind, k.id, Blank)
  /\ UNCHANGED spoiled

Revoked(list, i) == {[k EXCEPT !.active = @ /\ k.id # i] : k \in list}
Fresh(i) == [id |-> i, active |-> TRUE]

\* The replies change what the page has at that moment.
Replied(s, p) ==
  CASE p.kind = "save"   -> [s EXCEPT !.person = {p.form}]
    [] p.kind = "issue"  -> [s EXCEPT !.tokens = @ \cup {Fresh(p.new)}]
    [] p.kind = "revoke" -> [s EXCEPT !.tokens = Revoked(@, p.key)]
    [] p.kind = "rotate" -> [s EXCEPT !.tokens = Revoked(@, p.key) \cup {Fresh(p.new)}]

\* A reply may be for another page, if the browser has jumped, and late, if
\* somebody has changed the row again.
Reply(p) ==
  /\ p \in posts /\ p.stage = "done" /\ posts' = posts \ {p}
  /\ sheet' = IF p.here
                THEN [Replied(sheet, p) EXCEPT !.mixed = @ \/ (p.kind = "save" /\ p.jumped)]
                ELSE sheet
  /\ UNCHANGED <<Tables, loads, batches, spoiled>>
  /\ StaleBy(p.here /\ \/ p.jumped
                       \/ p.kind = "save" /\ p.form # data[p.of]
                       \/ p.new # 0 /\ keys[p.new] # [of |-> sheet.at, active |-> TRUE])

\* Of a change that failed, at the server or on the way back, nothing is shown.
PostFails(p) ==
  /\ p \in posts /\ posts' = posts \ {p}
  /\ UNCHANGED <<Tables, sheet, loads, batches, spoiled>>
  /\ StaleBy(OnPerson /\ p.stage = "done")

-----------------------------------------------------------------------------
(* Another administrator, or the person at another device. *)

OthersChange ==
  /\ \/ \E h \in Human : Len(keys) < MaxKeys /\ keys' = createKey(h)
     \/ \E i \in DOMAIN keys : keys' = [keys EXCEPT ![i].active = FALSE]
  /\ UNCHANGED <<route, data, sheet, Requests, spoiled>>
  /\ StaleBy(OnPerson)

\* What follows when a person has got the data of another is not looked at.
SheetNext == ~spoiled /\
  \/ OpenDirectory \/ DirectoryArrives \/ handleBatchTokenGenerate
  \/ \E b \in batches, h \in Human : IssueOne(b, h)
  \/ \E h \in Human : OpenPerson(h) \/ JumpToPerson(h)
  \/ \E l \in loads : ServeLoad(l) \/ LoadArrives(l) \/ LoadFails(l)
  \/ Leave \/ TypeInForm \/ handleSave \/ IssueToken
  \/ \E k \in sheet.tokens : RevokeOrRotate(k)
  \/ \E p \in posts : ServePost(p) \/ Reply(p) \/ PostFails(p)
  \/ OthersChange

SheetSpec == SheetInit /\ [][SheetNext]_sheetVars

(***************************************************************************)
(* Properties.                                                             *)
(***************************************************************************)
\* Nobody's row gets what was loaded or typed for another person, however the
\* browser jumps between pages, unless an answer for the earlier page was shown
\* on the later one and saved there.
RowsStayOnesOwn ==
  spoiled \/ \A h \in Human : data[h] = h

\* The list of a batch names every person once, with a token of their own.
TextsAreTheirs ==
  /\ \A t \in sheet.texts : keys[t[2]].of = t[1]
  /\ \A t, u \in sheet.texts : t[1] = u[1] => t = u

\* When nothing is under way the page of a person shows the person of its
\* address and all their tokens as they are, though replies came in any order,
\* except after a change by somebody else, an answer that was lost, failed or
\* out of date, or a reply that came after a jump.
PageShowsItsPerson ==
  Usable /\ loads = {} /\ posts = {} /\ ~stale => UpToDate

PersonPageIsTrue == RowsStayOnesOwn /\ TextsAreTheirs /\ PageShowsItsPerson
=============================================================================
