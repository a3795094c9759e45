--------------------------- MODULE ConsoleProofs ---------------------------
(***************************************************************************)
(* Proofs about the web console, for any persons, machines, passwords,     *)
(* accounts, filters, ranges, alerts and tabs and any number of tokens,    *)
(* requests and changes:                                                   *)
(*   a tab of the console has one identity;                                *)
(*   the person wizard takes over what was agreed to and creates once;     *)
(*   the pages that live on events show what the server has;               *)
(*   the pages of a node's past show what was asked for;                   *)
(*   the page of alerts acts upon what it shows and shows what is;         *)
(*   the pages of persons save what belongs to them and show what is.      *)
(***************************************************************************)
EXTENDS WebSession, PersonWizard, LivePages, NodeHistory, AlertsPage, PersonPages,
        SequenceTheorems, FiniteSetTheorems, WellFoundedInduction, TLAPS

-----------------------------------------------------------------------------
(***************************************************************************)
(* The identities of a tab of the web console: who the stored token, the   *)
(* call under way, the socket and the pages are for.                       *)
(***************************************************************************)

Who   == Person \cup {admin, guest}
Token == [of : Who, row : Nat \cup Password]
Call  == [kind : {"none", "check", "fetch", "login"}, at : {"none", "sent", "served"},
          token : Token, who : Who]
Tab   == [view : {"closed", "login", "boot", "app"}, token : Token, call : Call,
          socket : {"none", "opening", "open", "refused"}, sent : Token, as : Who,
          shown : Who, leaving : BOOLEAN, told : SUBSET BOOLEAN]
Row   == [person : Person, active : BOOLEAN]

\* The tables, what the browser stores and the tab hold what the code keeps there;
\* which password is set plays no part in what follows.
WebTypeOK ==
  /\ secret \in Nat
  /\ tokens \in Seq(Row) /\ usable \subseteq Person /\ access \subseteq Person \X Machine
  /\ stored \in Token /\ tab \in Tab

\* What was accepted was accepted for the owner of the token that was sent.
Accepted(r) ==
  /\ r.call.at = "served" /\ r.call.who # guest => r.call.token.of = r.call.who
  /\ r.socket = "open" => r.as = r.sent.of

\* Each call belongs to one view, and checkAuth is made with the tab's token.
CallFits(r) ==
  /\ r.call.kind = "check" => r.view = "boot" /\ r.call.token = r.token
  /\ r.call.kind = "fetch" => r.view = "app"
  /\ r.call.kind = "login" => r.view = "login"

\* The socket is made with the token that the pages will be, or are, shown for;
\* in the login page it may be anybody's.
SocketFits(r) ==
  /\ r.view = "boot" /\ r.socket # "none" => r.sent = r.token
  /\ r.view = "app" /\ r.socket # "none" => r.sent.of = r.shown
  /\ r.view # "app" => r.told = {}

\* SessionIsOne, of a tab without its socket.
ShownFits(r) ==
  r.view = "app" =>
    /\ r.shown # guest
    /\ ~r.leaving => r.token.of = r.shown
    /\ FALSE \notin r.told

TabFits(r) == r \in Tab /\ Accepted(r) /\ CallFits(r) /\ SocketFits(r) /\ ShownFits(r)

WebInv == WebTypeOK /\ TabFits(tab)

-----------------------------------------------------------------------------
(* Lemmas. *)

\* Whoever a token is accepted for owns it.
LEMMA AcceptedIsOwner ==
  ASSUME NEW token, authMiddleware(token) # guest
  PROVE  authMiddleware(token) = token.of
BY DEF authMiddleware, verifyToken

\* The tokens the server makes, and those of its table, are tokens.
LEMMA TokensAreTokens ==
  ASSUME WebTypeOK
  PROVE  /\ NoToken \in Token /\ Jwt(secret) \in Token
         /\ RowTokens \subseteq Token /\ Typed \subseteq Token
         /\ \A token \in Token : authMiddleware(token) \in Who
<1>1. NoToken \in Token /\ Jwt(secret) \in Token
  BY DEF NoToken, Jwt, Token, Who, WebTypeOK
<1>2. ASSUME NEW i \in DOMAIN tokens PROVE [of |-> tokens[i].person, row |-> i] \in Token
  <2>1. tokens \in Seq(Row)
    BY DEF WebTypeOK
  <2>2. tokens[i] \in Row /\ i \in Nat
    BY <1>2, <2>1
  <2>3. tokens[i].person \in Who
    BY <2>2 DEF Row, Who
  <2>4. QED
    BY <2>2, <2>3 DEF Token
<1>3. RowTokens \subseteq Token
  BY <1>2 DEF RowTokens
<1>4. Typed \subseteq Token
  BY <1>3 DEF Typed, Token, Who
<1>5. \A token \in Token : authMiddleware(token) \in Who
  BY DEF authMiddleware, Token, Who
<1>6. QED
  BY <1>1, <1>3, <1>4, <1>5

\* Changing a row of person_tokens leaves a table of rows.
LEMMA RowsStayRows ==
  ASSUME NEW s \in Seq(Row), NEW i \in DOMAIN s
  PROVE  [s EXCEPT ![i].active = FALSE] \in Seq(Row)
<1>1. s[i] \in Row
  OBVIOUS
<1>2. [s[i] EXCEPT !.active = FALSE] \in Row
  BY <1>1 DEF Row
<1>3. [s EXCEPT ![i] = [s[i] EXCEPT !.active = FALSE]] \in Seq(Row)
  BY <1>2, ExceptSeq
<1>4. QED
  BY <1>3

\* A tab that is closed, or just loaded, is in order.
LEMMA ClosedFits == TabFits(ClosedTab)
<1>1. NoToken \in Token
  BY DEF NoToken, Token, Who
<1>2. NoCall \in Call /\ NoCall.kind = "none" /\ NoCall.at = "none"
  BY <1>1 DEF NoCall, Call, Who
<1>3. ClosedTab \in Tab
  BY <1>1, <1>2 DEF ClosedTab, Tab, Who
<1>4. QED
  BY <1>2, <1>3 DEF ClosedTab, TabFits, Accepted, CallFits, SocketFits, ShownFits

\* A call that is sent is a call.
LEMMA SentIsCall ==
  ASSUME NEW kind \in {"check", "fetch", "login"}, NEW token \in Token
  PROVE  /\ Sent(kind, token) \in Call /\ Sent(kind, token).at = "sent"
         /\ Sent(kind, token).kind = kind /\ Sent(kind, token).token = token
BY DEF Sent, Call, Who

\* A view that is not calling has the call that is none.
LEMMA NoCallIsCall == NoCall \in Call /\ NoCall.kind = "none" /\ NoCall.at = "none"
BY DEF NoCall, Call, NoToken, Token, Who


-----------------------------------------------------------------------------
(* What happens to a tab. *)

\* A socket that is asked for is asked for with the tab's token.
LEMMA ConnectFits ==
  ASSUME NEW r \in Tab, r.socket = "none"
  PROVE  /\ connect(r) \in Tab
         /\ connect(r).socket = "opening" /\ connect(r).sent = r.token
         /\ connect(r).view = r.view /\ connect(r).token = r.token
         /\ connect(r).call = r.call /\ connect(r).shown = r.shown
         /\ connect(r).leaving = r.leaving /\ connect(r).told = r.told
BY DEF connect, Tab, Who

\* A loaded tab asks who it is with the token that the browser has stored.
LEMMA LoadedFits == WebTypeOK => TabFits(Loaded)
<1> SUFFICES ASSUME WebTypeOK PROVE TabFits(Loaded)
  OBVIOUS
<1> DEFINE call == IF stored = NoToken THEN NoCall ELSE Sent("check", stored)
           view == IF stored = NoToken THEN "login" ELSE "boot"
           r == [ClosedTab EXCEPT !.token = stored, !.view = view, !.call = call]
<1>1. stored \in Token
  BY DEF WebTypeOK
<1>2. /\ call \in Call /\ call.at # "served" /\ call.kind \in {"none", "check"}
      /\ call.kind = "check" => view = "boot" /\ call.token = stored
      /\ view \in {"login", "boot"}
  BY <1>1, SentIsCall, NoCallIsCall
<1> HIDE DEF call, view
<1>3. ClosedTab \in Tab
  BY ClosedFits DEF TabFits
<1>4. /\ r \in Tab /\ r.view = view /\ r.token = stored /\ r.call = call
      /\ r.socket = "none" /\ r.told = {}
  BY <1>1, <1>2, <1>3 DEF Tab, ClosedTab
<1>5. Loaded = connect(r)
  BY DEF Loaded, call, view
<1> HIDE DEF r
<1>6. QED
  BY <1>2, <1>4, <1>5, ConnectFits DEF TabFits, Accepted, CallFits, SocketFits, ShownFits

\* Loading and closing a tab.
LEMMA LoadStep == WebInv /\ (Load \/ Close) => WebInv'
BY LoadedFits, ClosedFits DEF Load, Close, WebInv, WebTypeOK, TabFits, tables

\* A request of a page, or of the login page.
LEMMA SendStep ==
  ASSUME WebInv, Fetch \/ \E typed \in Typed : SubmitLogin(typed)
  PROVE  WebInv'
<1>1. PICK kind \in {"fetch", "login"}, token \in Token :
         /\ tab' = [tab EXCEPT !.call = Sent(kind, token)]
         /\ kind = "fetch" => tab.view = "app"
         /\ kind = "login" => tab.view = "login"
  <2>1. tab.token \in Token /\ Typed \subseteq Token
    BY TokensAreTokens DEF WebInv, TabFits, Tab
  <2>2. CASE Fetch
    BY <2>1, <2>2 DEF Fetch
  <2>3. CASE \E typed \in Typed : SubmitLogin(typed)
    BY <2>1, <2>3 DEF SubmitLogin
  <2>4. QED
    BY <2>2, <2>3
<1>2. UNCHANGED <<tables, stored>>
  BY DEF Fetch, SubmitLogin
<1> DEFINE call == Sent(kind, token)
<1>3. call \in Call /\ call.at = "sent" /\ call.kind = kind
  BY SentIsCall
<1>4. tab' = [tab EXCEPT !.call = call]
  BY <1>1
<1> HIDE DEF call
<1>5. TabFits(tab)'
  BY <1>1, <1>3, <1>4 DEF WebInv, TabFits, Tab, Accepted, CallFits, SocketFits, ShownFits
<1>6. QED
  BY <1>2, <1>5 DEF WebInv, WebTypeOK, TabFits, tables

\* The server answers: for the owner of the token that comes back, or for nobody.
LEMMA ServedFits ==
  ASSUME WebInv, NEW token \in Token, NEW who \in Who, Served(token, who),
         tab.call.at = "sent",
         who # guest => token.of = who,
         tab.call.kind = "login" \/ token = tab.call.token
  PROVE  TabFits(tab)'
<1> DEFINE call == [tab.call EXCEPT !.at = "served", !.token = token, !.who = who]
<1>1. tab.call \in Call
  BY DEF WebInv, TabFits, Tab
<1>2. call \in Call /\ call.at = "served" /\ call.token = token /\ call.who = who
      /\ call.kind = tab.call.kind
  BY <1>1 DEF Call
<1>3. tab' = [tab EXCEPT !.call = call]
  BY DEF Served
<1> HIDE DEF call
<1>4. QED
  BY <1>2, <1>3 DEF WebInv, TabFits, Tab, Accepted, CallFits, SocketFits, ShownFits

\* The requests are served.
LEMMA ServeStep ==
  ASSUME WebInv, ServeRequest \/ ServePassword \/ ServeAccessToken
  PROVE  WebInv'
<1>0. tab.call \in Call /\ tab.call.token \in Token
  BY DEF WebInv, TabFits, Tab, Call
<1>1. CASE ServeRequest \/ ServeAccessToken
  <2>1. /\ Served(tab.call.token, authMiddleware(tab.call.token))
        /\ tab.call.at = "sent" /\ UNCHANGED <<tables, stored>>
    BY <1>1 DEF ServeRequest, ServeAccessToken, Waiting
  <2>2. authMiddleware(tab.call.token) \in Who
    BY <1>0, TokensAreTokens DEF WebInv
  <2>3. TabFits(tab)'
    BY <1>0, <2>1, <2>2, AcceptedIsOwner, ServedFits
  <2>4. QED
    BY <2>1, <2>3 DEF WebInv, WebTypeOK, TabFits, tables
<1>2. CASE ServePassword
  <2>1. tab.call.at = "sent" /\ tab.call.kind = "login" /\ tab.call.token.of = admin
    BY <1>2 DEF ServePassword, Waiting
  <2>2. \/ Served(Jwt(secret), admin)
        \/ Served(NoToken, guest)
    BY <1>2 DEF ServePassword
  <2>3. Jwt(secret) \in Token /\ NoToken \in Token /\ Jwt(secret).of = admin
        /\ admin \in Who /\ guest \in Who
    BY TokensAreTokens DEF WebInv, Jwt, Who
  <2>4. TabFits(tab)'
    BY <2>1, <2>2, <2>3, ServedFits
  <2>5. QED
    BY <1>2, <2>4 DEF ServePassword, WebInv, WebTypeOK, TabFits
<1>3. QED
  BY <1>1, <1>2

\* An answer to checkAuth, a refusal, or no answer.
LEMMA ArriveStep ==
  ASSUME WebInv, SessionArrives \/ Unauthorized \/ CallFails, ~tab.leaving
  PROVE  WebInv'
<1>0. NoCall \in Call /\ NoCall.kind = "none" /\ NoCall.at = "none" /\ NoToken \in Token
  BY NoCallIsCall, TokensAreTokens DEF WebInv
<1>1. tab.call \in Call
  BY DEF WebInv, TabFits, Tab
<1>2. CASE SessionArrives
  <2>1. /\ tab.call.kind = "check" /\ tab.call.at = "served" /\ tab.call.who # guest
        /\ tab' = [tab EXCEPT !.view = "app", !.shown = tab.call.who, !.call = NoCall]
        /\ UNCHANGED <<tables, stored>>
    BY <1>2 DEF SessionArrives, Arrived
  <2>2. TabFits(tab)'
    BY <1>0, <1>1, <2>1
       DEF WebInv, TabFits, Tab, Call, Accepted, CallFits, SocketFits, ShownFits
  <2>3. QED
    BY <2>1, <2>2 DEF WebInv, WebTypeOK, TabFits, tables
<1>3. CASE Unauthorized
  <2>1. /\ tab.call.kind \in {"check", "fetch"}
        /\ stored' = NoToken /\ UNCHANGED tables
        /\ tab' = [tab EXCEPT !.token = NoToken, !.leaving = TRUE, !.call = NoCall,
                              !.view = IF @ = "boot" THEN "login" ELSE @]
    BY <1>3 DEF Unauthorized, Arrived
  <2>2. TabFits(tab)'
    BY <1>0, <2>1
       DEF WebInv, TabFits, Tab, Accepted, CallFits, SocketFits, ShownFits
  <2>3. QED
    BY <1>0, <2>1, <2>2 DEF WebInv, WebTypeOK, TabFits, tables
<1>4. CASE CallFails
  <2>1. /\ tab' = [tab EXCEPT !.call = NoCall, !.view = IF @ = "boot" THEN "login" ELSE @]
        /\ UNCHANGED <<tables, stored>>
    BY <1>4 DEF CallFails
  <2>2. TabFits(tab)'
    BY <1>0, <2>1
       DEF WebInv, TabFits, Tab, Accepted, CallFits, SocketFits, ShownFits
  <2>3. QED
    BY <2>1, <2>2 DEF WebInv, WebTypeOK, TabFits, tables
<1>5. QED
  BY <1>2, <1>3, <1>4

\* A login is accepted: the pages, the token and the new socket are of one mind.
LEMMA LoginStep ==
  ASSUME WebInv, LoginArrives, ~tab.leaving
  PROVE  WebInv'
<1>0. NoCall \in Call /\ NoCall.kind = "none" /\ NoCall.at = "none" /\ NoToken \in Token
  BY NoCallIsCall, TokensAreTokens DEF WebInv
<1>1. /\ tab.call \in Call /\ tab.call.token \in Token /\ tab.call.who \in Who
      /\ tab.call.who # guest /\ tab.call.token.of = tab.call.who
      /\ tab.view = "login" /\ tab.told = {}
  BY DEF LoginArrives, Arrived, WebInv, TabFits, Tab, Call, Accepted, CallFits, SocketFits
<1> DEFINE a == [tab EXCEPT !.token = tab.call.token, !.shown = tab.call.who,
                            !.view = "app", !.call = NoCall]
           b == disconnect(a)
<1>2. a \in Tab /\ a.token = tab.call.token /\ a.shown = tab.call.who /\ a.view = "app"
      /\ a.call = NoCall /\ a.leaving = FALSE /\ a.told = {}
  BY <1>0, <1>1 DEF WebInv, TabFits, Tab
<1>3. tab' = connect(disconnect(a))
  BY DEF LoginArrives, WithNewSocket
<1> HIDE DEF a
<1>4. b \in Tab /\ b.socket = "none" /\ b.token = a.token /\ b.shown = a.shown
      /\ b.view = a.view /\ b.call = a.call /\ b.leaving = a.leaving /\ b.told = a.told
  BY <1>0, <1>2 DEF disconnect, Tab, Who
<1> HIDE DEF b
<1>5. TabFits(connect(b))
  <2> DEFINE d == connect(b)
  <2>1. /\ d \in Tab /\ d.socket = "opening" /\ d.sent = tab.call.token
        /\ d.view = "app" /\ d.token = tab.call.token /\ d.call = NoCall
        /\ d.shown = tab.call.who /\ d.leaving = FALSE /\ d.told = {}
    BY <1>2, <1>4, ConnectFits
  <2> HIDE DEF d
  <2>2. Accepted(d) /\ CallFits(d)
    BY <1>0, <2>1 DEF Accepted, CallFits
  <2>3. SocketFits(d) /\ ShownFits(d)
    BY <1>1, <2>1 DEF SocketFits, ShownFits
  <2>4. TabFits(d)
    BY <2>1, <2>2, <2>3 DEF TabFits
  <2>5. QED
    BY <2>4 DEF d
<1>6. tab' = connect(b)
  BY <1>3 DEF b
<1>7. TabFits(tab)'
  BY <1>5, <1>6 DEF TabFits
<1>8. stored' \in Token /\ UNCHANGED tables
  BY <1>1 DEF LoginArrives
<1>9. QED
  BY <1>7, <1>8 DEF WebInv, WebTypeOK, TabFits, tables


-----------------------------------------------------------------------------
(* The socket of the tab. *)

\* A socket that breaks is accepted for nobody.
LEMMA BrokenFits ==
  ASSUME NEW r, TabFits(r)
  PROVE  TabFits(Broken(r))
<1>1. CASE r.socket # "open"
  BY <1>1 DEF Broken
<1>2. CASE r.socket = "open"
  <2> DEFINE b == [r EXCEPT !.socket = "opening", !.as = guest]
  <2>1. /\ b \in Tab /\ b.socket = "opening" /\ b.sent = r.sent /\ b.view = r.view
        /\ b.token = r.token /\ b.call = r.call /\ b.shown = r.shown
        /\ b.leaving = r.leaving /\ b.told = r.told
    BY DEF TabFits, Tab, Who
  <2>2. Broken(r) = b
    BY <1>2 DEF Broken
  <2> HIDE DEF b
  <2>3. Accepted(b) /\ CallFits(b)
    BY <2>1 DEF TabFits, Accepted, CallFits
  <2>4. SocketFits(b) /\ ShownFits(b)
    BY <1>2, <2>1 DEF TabFits, SocketFits, ShownFits
  <2>5. QED
    BY <2>1, <2>2, <2>3, <2>4 DEF TabFits
<1>3. QED
  BY <1>1, <1>2

\* The server looks up the token the socket was made with.
LEMMA SocketStep == WebInv /\ socketAuthMiddleware => WebInv'
<1> SUFFICES ASSUME WebInv, socketAuthMiddleware PROVE WebInv'
  OBVIOUS
<1> DEFINE who == authMiddleware(tab.sent)
           socket == IF who = guest THEN "refused" ELSE "open"
<1>1. who \in Who /\ (who # guest => who = tab.sent.of)
  BY AcceptedIsOwner, TokensAreTokens DEF WebInv, TabFits, Tab
<1>2. tab' = [tab EXCEPT !.socket = socket, !.as = who] /\ tab.socket = "opening"
      /\ UNCHANGED <<tables, stored>>
  BY DEF socketAuthMiddleware
<1>3. socket \in {"refused", "open"} /\ (socket = "open" => who = tab.sent.of)
  BY <1>1
<1> HIDE DEF who, socket
<1>4. /\ tab' \in Tab /\ tab'.socket = socket /\ tab'.as = who /\ tab'.sent = tab.sent
      /\ tab'.view = tab.view /\ tab'.token = tab.token /\ tab'.call = tab.call
      /\ tab'.shown = tab.shown /\ tab'.leaving = tab.leaving /\ tab'.told = tab.told
  BY <1>1, <1>2, <1>3 DEF WebInv, TabFits, Tab
<1>5. TabFits(tab')
  BY <1>2, <1>3, <1>4 DEF WebInv, TabFits, Accepted, CallFits, SocketFits, ShownFits
<1>6. QED
  BY <1>2, <1>5 DEF WebInv, WebTypeOK, TabFits, tables

\* An event is delivered to a socket: those who hear it are those it is shown to.
LEMMA DeliverStep ==
  ASSUME WebInv, NEW audience, Deliver(audience)
  PROVE  WebInv'
<1>1. /\ tab.socket = "open" /\ tab.as \in audience /\ tab.view = "app"
      /\ tab' = [tab EXCEPT !.told = @ \cup {tab.shown \in audience}]
      /\ UNCHANGED <<tables, stored>>
  BY DEF Deliver
<1>2. tab.as = tab.shown
  BY <1>1 DEF WebInv, TabFits, Accepted, SocketFits
<1>3. (tab.shown \in audience) = TRUE
  BY <1>1, <1>2
<1>4. tab' = [tab EXCEPT !.told = tab.told \cup {TRUE}]
  BY <1>1, <1>3
<1>5. /\ tab' \in Tab /\ tab'.told = tab.told \cup {TRUE}
      /\ tab'.socket = tab.socket /\ tab'.as = tab.as /\ tab'.sent = tab.sent
      /\ tab'.view = tab.view /\ tab'.token = tab.token /\ tab'.call = tab.call
      /\ tab'.shown = tab.shown /\ tab'.leaving = tab.leaving
  BY <1>4 DEF WebInv, TabFits, Tab
<1>6. TabFits(tab')
  BY <1>1, <1>5 DEF WebInv, TabFits, Accepted, CallFits, SocketFits, ShownFits
<1>7. QED
  BY <1>1, <1>6 DEF WebInv, WebTypeOK, TabFits, tables

-----------------------------------------------------------------------------
(* The theorem. *)

\* Whatever changes in the tables and in the other tabs, the tab stays in order:
\* what it is shown for was settled when its token was accepted.
LEMMA TablesStep ==
  ASSUME WebInv,
         \/ OtherTab
         \/ \E p \in Person : createPersonToken(p) \/ PersonChanges(p)
         \/ \E p \in Person, m \in Machine : BindingChanges(p, m)
         \/ \E i \in DOMAIN tokens : revokePersonToken(i) \/ rotatePersonToken(i)
         \/ RestartServer
  PROVE  WebInv'
<1>0. WebTypeOK /\ TabFits(tab)
  BY DEF WebInv
<1>1. ASSUME NEW p \in Person, NEW s \in Seq(Row)
      PROVE  Append(s, [person |-> p, active |-> TRUE]) \in Seq(Row)
  BY DEF Row
<1>2. CASE OtherTab
  BY <1>0, <1>2, TokensAreTokens DEF OtherTab, WebInv, WebTypeOK, TabFits, tables
<1>3. CASE \E p \in Person : createPersonToken(p) \/ PersonChanges(p)
  BY <1>0, <1>1, <1>3 DEF createPersonToken, PersonChanges, WebInv, WebTypeOK, TabFits
<1>4. CASE \E p \in Person, m \in Machine : BindingChanges(p, m)
  BY <1>0, <1>4 DEF BindingChanges, WebInv, WebTypeOK, TabFits
<1>5. CASE \E i \in DOMAIN tokens : revokePersonToken(i) \/ rotatePersonToken(i)
  <2>1. PICK i \in DOMAIN tokens : revokePersonToken(i) \/ rotatePersonToken(i)
    BY <1>5
  <2>2. tokens \in Seq(Row) /\ tokens[i] \in Row /\ tokens[i].person \in Person
    <3>1. tokens \in Seq(Row)
      BY <1>0 DEF WebTypeOK
    <3>2. tokens[i] \in Row
      BY <3>1
    <3>3. QED
      BY <3>1, <3>2 DEF Row
  <2>3. [tokens EXCEPT ![i].active = FALSE] \in Seq(Row)
    BY <2>2, RowsStayRows
  <2>4. tokens' \in Seq(Row)
    BY <1>1, <2>1, <2>2, <2>3 DEF revokePersonToken, rotatePersonToken
  <2>5. UNCHANGED <<secret, password, usable, access, stored, tab>>
    BY <2>1 DEF revokePersonToken, rotatePersonToken
  <2>6. QED
    BY <1>0, <2>4, <2>5 DEF WebInv, WebTypeOK, TabFits
<1>6. CASE RestartServer
  <2>1. TabFits(tab)'
    BY <1>0, <1>6, BrokenFits DEF RestartServer, TabFits
  <2>2. QED
    BY <1>0, <1>6, <2>1 DEF RestartServer, WebInv, WebTypeOK, TabFits
<1>7. QED
  BY <1>2, <1>3, <1>4, <1>5, <1>6

\* Every step keeps the invariant.
LEMMA WebStep == WebInv /\ [WebNext]_webVars => WebInv'
<1> SUFFICES ASSUME WebInv, [WebNext]_webVars PROVE WebInv'
  OBVIOUS
<1>1. CASE TabNext
  <2>1. CASE ConnectionBreaks
    BY <2>1, BrokenFits DEF ConnectionBreaks, WebInv, WebTypeOK, TabFits, tables
  <2>2. QED
    BY <1>1, <2>1, LoadStep, SendStep, ServeStep, ArriveStep, LoginStep, SocketStep
       DEF TabNext
<1>2. CASE (\E m \in Machine : metricsUpdate(m)) \/ alertStateChange
  BY <1>2, DeliverStep DEF metricsUpdate, alertStateChange
<1>3. CASE UNCHANGED webVars
  BY <1>3 DEF webVars, WebInv, WebTypeOK, TabFits
<1>4. QED
  BY <1>1, <1>2, <1>3, TablesStep DEF WebNext

\* Nobody is logged in at first.
LEMMA WebInitInv == WebInit => WebInv
<1>1. ASSUME WebInit PROVE WebTypeOK
  <2>1. <<>> \in Seq(Row)
    OBVIOUS
  <2>2. NoToken \in Token
    BY DEF NoToken, Token, Who
  <2>3. ClosedTab \in Tab
    BY ClosedFits DEF TabFits
  <2>4. QED
    BY <1>1, <2>1, <2>2, <2>3 DEF WebInit, WebTypeOK
<1>2. QED
  BY <1>1, ClosedFits DEF WebInit, WebInv, TabFits

\* The pages, the token and the socket of a tab act for one principal, and all
\* the tab was told was for its eyes, in whatever order logins, refusals, other
\* tabs, breaking connections and restarts of the server come.
THEOREM SessionAlwaysOne == WebSpec => []SessionIsOne
<1>1. WebInv => SessionIsOne
  BY DEF WebInv, TabFits, Accepted, SocketFits, ShownFits, SessionIsOne
<1>2. QED
  BY <1>1, WebInitInv, WebStep, PTL DEF WebSpec

-----------------------------------------------------------------------------
(***************************************************************************)
(* The person wizard beside bindings that others change: what the page was *)
(* told holds but for what has moved since, and a confirmation is for the  *)
(* conflicts of the selection as it is.                                    *)
(***************************************************************************)

Holder  == Owner \cup {"new", nil}
Request == [accts : SUBSET Acct, confirm : BOOLEAN, agreed : SUBSET Acct,
            state : {"sent", "conflict", "created"}]

WizTypeOK ==
  /\ owner \in [Acct -> Holder] /\ listed \in [Acct -> Holder]
  /\ loaded \in {"loading", "failed", "loaded"}
  /\ wstep \in {"entry", "seed", "profile", "bindings", "review", "auto-add-result", "left"}
  /\ seed \in Acct \cup {nil} /\ chosen \subseteq Acct
  /\ confirmTransfer \in BOOLEAN /\ agreed \subseteq Acct /\ moved \subseteq Acct
  /\ submitting \in Request \cup {nil}
  /\ created \in Nat /\ lost \in BOOLEAN

\* What the page was told of an account holds unless its owner has changed since.
ListedIsKnown == loaded = "loaded" => \A a \in Acct \ moved : listed[a] = owner[a]

\* A confirmation is for the conflicts of the selection as it is; it may survive the
\* report of auto-add, which leads to the entry, from where every way drops it.
ConfirmedIsShown ==
  confirmTransfer =>
    loaded = "loaded" /\ agreed = conflicts /\ wstep \in {"review", "auto-add-result", "entry"}

\* A request carries accounts only after they were loaded, and takes over only those
\* that its confirmation was for.
RequestIsAgreed ==
  submitting # nil /\ submitting.state = "sent" =>
    /\ submitting.accts # {} => loaded = "loaded"
    /\ submitting.confirm => \A a \in submitting.accts : listed[a] # nil => a \in submitting.agreed

\* After a person was made the user has left, or is about to, or was not told.
CreatedOnce ==
  /\ created > 0 => lost \/ wstep = "left" \/ (submitting # nil /\ submitting.state = "created")
  /\ wstep = "left" => submitting = nil

WizInv == WizTypeOK /\ ListedIsKnown /\ ConfirmedIsShown /\ RequestIsAgreed /\ CreatedOnce

\* WizardDoesWhatWasAgreed, of one step.
Agreed ==
  created' # created =>
    /\ \A a \in Acct : owner[a] # nil /\ owner'[a] # owner[a] => a \in submitting.agreed \cup moved
    /\ created > 0 => lost

-----------------------------------------------------------------------------

\* Nothing is selected that is no account.
LEMMA SelectedAreAccounts == WizTypeOK => selectedBindings \subseteq Acct /\ conflicts \subseteq Acct
BY DEF WizTypeOK, selectedBindings, conflicts

\* The steps of the page alone: no step changes a selection that was confirmed without
\* dropping the confirmation.
LEMMA PageStep ==
  ASSUME WizInv, Elsewhere,
         \/ handleSeedConfirm \/ NextStep \/ handleBack \/ LeaveResult \/ Confirm
         \/ \E m \in {"seed-user", "manual"} : handleSelectMode(m)
         \/ \E n \in {"empty", "given"} : TypeName(n)
         \/ \E a \in Acct : SelectSeed(a) \/ handleToggleBinding(a)
  PROVE  WizInv' /\ Agreed
<1>1. UNCHANGED <<owner, loaded, listed, submitting, moved, created, lost>>
  BY DEF Elsewhere
<1>2. /\ wstep' \in {"entry", "seed", "profile", "bindings", "review"}
      /\ wstep # "left" /\ seed' \in Acct \cup {nil} /\ chosen' \subseteq Acct
      /\ confirmTransfer' \in BOOLEAN /\ agreed' \subseteq Acct
      /\ \/ ~confirmTransfer'
         \/ /\ wstep \in {"entry", "auto-add-result"} /\ wstep' = "entry" /\ confirmTransfer /\ agreed' = agreed
            /\ seed' = seed /\ chosen' = chosen
         \/ /\ wstep = "review" /\ wstep' = "review" /\ conflicts # {} /\ agreed' = conflicts
            /\ seed' = seed /\ chosen' = chosen
  <2>1. CASE handleSeedConfirm
    BY <2>1 DEF handleSeedConfirm, Unconfirm, WizInv, WizTypeOK
  <2>2. CASE NextStep
    BY <2>2 DEF NextStep, WizInv, WizTypeOK, ConfirmedIsShown, draft
  <2>3. CASE handleBack
    <3>1. DOMAIN Before = {"seed", "profile", "bindings", "review"}
      BY DEF Before
    <3>2. \A x \in DOMAIN Before : Before[x] \in {"entry", "seed", "profile", "bindings"}
      BY DEF Before
    <3>3. QED
      BY <2>3, <3>1, <3>2 DEF handleBack, Unconfirm, WizInv, WizTypeOK, draft
  <2>4. CASE LeaveResult
    BY <2>4 DEF LeaveResult, WizInv, WizTypeOK, draft
  <2>5. CASE Confirm
    BY <2>5, SelectedAreAccounts DEF Confirm, WizInv, WizTypeOK, draft
  <2>6. CASE \E m \in {"seed-user", "manual"} : handleSelectMode(m)
    BY <2>6 DEF handleSelectMode, Unconfirm, WizInv, WizTypeOK
  <2>7. CASE \E n \in {"empty", "given"} : TypeName(n)
    BY <2>7 DEF TypeName, WizInv, WizTypeOK, ConfirmedIsShown
  <2>8. CASE \E a \in Acct : SelectSeed(a) \/ handleToggleBinding(a)
    BY <2>8 DEF SelectSeed, handleToggleBinding, WizInv, WizTypeOK, ConfirmedIsShown
  <2>9. QED
    BY <2>1, <2>2, <2>3, <2>4, <2>5, <2>6, <2>7, <2>8
<1>3. WizTypeOK' /\ ListedIsKnown' /\ RequestIsAgreed' /\ CreatedOnce'
  BY <1>1, <1>2 DEF WizInv, WizTypeOK, ListedIsKnown, RequestIsAgreed, CreatedOnce
<1>4. ConfirmedIsShown'
  <2>1. seed' = seed /\ chosen' = chosen => conflicts' = conflicts
    BY <1>1 DEF conflicts, selectedBindings
  <2>2. conflicts # {} => loaded = "loaded"
    BY DEF conflicts, selectedBindings
  <2>3. QED
    BY <1>1, <1>2, <2>1, <2>2 DEF WizInv, ConfirmedIsShown
<1>5. QED
  BY <1>1, <1>3, <1>4 DEF WizInv, Agreed

\* The candidates arrive: nothing was selected before.
LEMMA CandidatesStep ==
  ASSUME WizInv, CandidatesAnswer
  PROVE  WizInv' /\ Agreed
<1>1. /\ loaded = "loading" /\ loaded' \in {"failed", "loaded"}
      /\ UNCHANGED <<owner, wstep, seed, chosen, confirmTransfer, submitting, agreed, created, lost>>
      /\ \/ loaded' = "failed" /\ UNCHANGED <<listed, moved>>
         \/ loaded' = "loaded" /\ listed' = owner /\ moved' = {}
  BY DEF CandidatesAnswer, draft
<1>2. WizTypeOK' /\ ListedIsKnown'
  BY <1>1 DEF WizInv, WizTypeOK, ListedIsKnown
<1>3. ~confirmTransfer' /\ RequestIsAgreed' /\ CreatedOnce'
  BY <1>1 DEF WizInv, ConfirmedIsShown, RequestIsAgreed, CreatedOnce
<1>4. QED
  BY <1>1, <1>2, <1>3 DEF WizInv, ConfirmedIsShown, Agreed

\* A submission takes the confirmation along.
LEMMA SubmitStep ==
  ASSUME WizInv, handleSubmit
  PROVE  WizInv' /\ Agreed
<1>1. /\ wstep = "review" /\ submitting = nil
      /\ submitting' = [accts |-> selectedBindings, confirm |-> confirmTransfer,
                        agreed |-> agreed, state |-> "sent"]
      /\ UNCHANGED <<owner, loaded, listed, wstep, seed, chosen, confirmTransfer, agreed, moved, created, lost>>
  BY DEF handleSubmit, draft
<1>2. submitting' \in Request /\ submitting' # nil
  BY <1>1, SelectedAreAccounts, NilIsNothing DEF WizInv, WizTypeOK, Request
<1>3. /\ submitting'.accts = selectedBindings /\ submitting'.confirm = confirmTransfer
      /\ submitting'.agreed = agreed /\ submitting'.state = "sent"
  BY <1>1
<1>4. conflicts' = conflicts /\ ListedIsKnown' /\ ConfirmedIsShown' /\ WizTypeOK'
  BY <1>1, <1>2 DEF WizInv, WizTypeOK, ListedIsKnown, ConfirmedIsShown, conflicts, selectedBindings
<1>5. RequestIsAgreed'
  <2>1. selectedBindings # {} => loaded = "loaded"
    BY DEF selectedBindings
  <2>2. confirmTransfer => \A a \in selectedBindings : listed[a] # nil => a \in agreed
    BY DEF WizInv, ConfirmedIsShown, conflicts
  <2>3. QED
    BY <1>1, <1>3, <2>1, <2>2 DEF RequestIsAgreed
<1>6. CreatedOnce'
  BY <1>1 DEF WizInv, CreatedOnce
<1>7. QED
  BY <1>1, <1>4, <1>5, <1>6 DEF WizInv, Agreed

\* The server does it: what leaves an owner is agreed, or has moved meanwhile.
LEMMA SubmitServedStep ==
  ASSUME WizInv, ServeSubmit
  PROVE  WizInv' /\ Agreed
<1>1. /\ submitting # nil /\ submitting.state = "sent" /\ submitting \in Request
      /\ moved' = moved \cup {a \in Acct : owner'[a] # owner[a]}
      /\ submitting' = [submitting EXCEPT !.state = IF Refused(submitting) THEN "conflict" ELSE "created"]
      /\ UNCHANGED <<loaded, listed, wstep, seed, chosen, confirmTransfer, agreed, lost>>
      /\ \/ Refused(submitting) /\ UNCHANGED <<owner, created>>
         \/ /\ ~Refused(submitting)
            /\ owner' = [a \in Acct |-> IF a \in submitting.accts THEN "new" ELSE owner[a]]
            /\ created' = created + 1
  BY DEF ServeSubmit, WizInv, WizTypeOK, draft
<1>2. /\ submitting' \in Request /\ submitting' # nil
      /\ submitting'.state = IF Refused(submitting) THEN "conflict" ELSE "created"
  BY <1>1, NilIsNothing DEF Request
<1>3. owner' \in [Acct -> Holder] /\ created' \in Nat
  BY <1>1 DEF WizInv, WizTypeOK, Holder
<1>4. WizTypeOK' /\ conflicts' = conflicts
  BY <1>1, <1>2, <1>3 DEF WizInv, WizTypeOK, conflicts, selectedBindings
<1>5. ListedIsKnown' /\ ConfirmedIsShown' /\ RequestIsAgreed'
  BY <1>1, <1>2, <1>4 DEF WizInv, ListedIsKnown, ConfirmedIsShown, RequestIsAgreed
<1>6. wstep # "left" /\ (created > 0 => lost)
  BY <1>1 DEF WizInv, CreatedOnce
<1>7. CreatedOnce'
  BY <1>1, <1>2, <1>6 DEF WizInv, WizTypeOK, CreatedOnce
<1>8. Agreed
  <2>1. ASSUME NEW a \in Acct, owner[a] # nil, owner'[a] # owner[a], created' # created
        PROVE  a \in submitting.agreed \cup moved
    <3>1. a \in submitting.accts /\ ~Refused(submitting)
      BY <1>1, <2>1
    <3>2. submitting.confirm
      BY <2>1, <3>1 DEF Refused
    <3>3. loaded = "loaded" /\ (listed[a] # nil => a \in submitting.agreed)
      BY <1>1, <3>1, <3>2 DEF WizInv, RequestIsAgreed
    <3>4. a \in moved \/ listed[a] # nil
      BY <2>1, <3>3 DEF WizInv, ListedIsKnown
    <3>5. QED
      BY <3>3, <3>4
  <2>2. QED
    BY <1>6, <2>1 DEF Agreed
<1>9. QED
  BY <1>4, <1>5, <1>7, <1>8 DEF WizInv

\* An answer leads away from the page, or drops the confirmation, or is lost.
LEMMA SubmitAnswersStep ==
  ASSUME WizInv, SubmitAnswers
  PROVE  WizInv' /\ Agreed
<1>1. /\ submitting # nil /\ submitting' = nil
      /\ UNCHANGED <<owner, loaded, listed, seed, chosen, moved, created>>
      /\ \/ submitting.state = "created" /\ wstep' = "left" /\ confirmTransfer' = FALSE /\ agreed' = {} /\ lost' = lost
         \/ submitting.state = "conflict" /\ confirmTransfer' = FALSE /\ agreed' = {} /\ wstep' = wstep /\ lost' = lost
         \/ lost' = (lost \/ submitting.state = "created") /\ UNCHANGED <<wstep, confirmTransfer, agreed>>
  BY DEF SubmitAnswers, Unconfirm, draft
<1>2. conflicts' = conflicts /\ lost' \in BOOLEAN
  BY <1>1 DEF conflicts, selectedBindings, WizInv, WizTypeOK
<1>3. WizTypeOK'
  <2>1. confirmTransfer' \in BOOLEAN /\ agreed' \subseteq Acct /\ wstep' \in {wstep, "left"}
    BY <1>1 DEF WizInv, WizTypeOK
  <2>2. QED
    BY <1>1, <1>2, <2>1 DEF WizInv, WizTypeOK
<1>4. ListedIsKnown' /\ ConfirmedIsShown' /\ RequestIsAgreed'
  BY <1>1, <1>2 DEF WizInv, ListedIsKnown, ConfirmedIsShown, RequestIsAgreed
<1>5. CreatedOnce'
  <2>1. CASE wstep' = "left"
    BY <1>1, <2>1 DEF CreatedOnce
  <2>2. CASE wstep' # "left"
    <3>1. created' > 0 => lost \/ submitting.state = "created"
      BY <1>1, <2>2 DEF WizInv, CreatedOnce
    <3>2. submitting.state = "created" => lost'
      BY <1>1, <2>2
    <3>3. lost => lost'
      BY <1>1
    <3>4. QED
      BY <2>2, <3>1, <3>2, <3>3 DEF CreatedOnce
  <2>3. QED
    BY <2>1, <2>2
<1>6. QED
  BY <1>1, <1>3, <1>4, <1>5 DEF WizInv, Agreed

\* Owners that others change, auto-add among them, are remembered as moved.
LEMMA OthersStep ==
  ASSUME WizInv, AutoAddAnswers \/ (\E a \in Acct : OthersRebind(a)) \/ handleAutoAdd
  PROVE  WizInv' /\ Agreed
<1>1. /\ owner' \in [Acct -> Holder]
      /\ moved' \subseteq Acct /\ moved \cup {a \in Acct : owner'[a] # owner[a]} \subseteq moved'
      /\ wstep' = wstep \/ (wstep # "left" /\ wstep' = "auto-add-result")
      /\ UNCHANGED <<loaded, listed, seed, chosen, confirmTransfer, submitting, agreed, created, lost>>
  <2>1. CASE AutoAddAnswers
    BY <2>1 DEF AutoAddAnswers, Added, draft, WizInv, WizTypeOK, Holder
  <2>2. CASE \E a \in Acct : OthersRebind(a)
    BY <2>2 DEF OthersRebind, draft, WizInv, WizTypeOK, Holder
  <2>3. CASE handleAutoAdd
    BY <2>3 DEF handleAutoAdd, draft, WizInv, WizTypeOK, Holder
  <2>4. QED
    BY <2>1, <2>2, <2>3
<1>2. conflicts' = conflicts
  BY <1>1 DEF conflicts, selectedBindings
<1>3. WizTypeOK' /\ ListedIsKnown' /\ ConfirmedIsShown' /\ RequestIsAgreed' /\ CreatedOnce'
  BY <1>1, <1>2 DEF WizInv, WizTypeOK, ListedIsKnown, ConfirmedIsShown, RequestIsAgreed, CreatedOnce
<1>4. QED
  BY <1>1, <1>3 DEF WizInv, Agreed

\* All steps.
LEMMA WizStep ==
  ASSUME WizInv, [WizNext]_wizVars
  PROVE  WizInv' /\ [Agreed]_wizVars
<1>1. CASE \/ handleSeedConfirm \/ NextStep \/ handleBack \/ LeaveResult \/ Confirm
           \/ \E m \in {"seed-user", "manual"} : handleSelectMode(m)
           \/ \E n \in {"empty", "given"} : TypeName(n)
           \/ \E a \in Acct : SelectSeed(a) \/ handleToggleBinding(a)
  <2>1. Elsewhere
    BY <1>1 DEF handleSeedConfirm, NextStep, handleBack, LeaveResult, Confirm,
          handleSelectMode, TypeName, SelectSeed, handleToggleBinding
  <2>2. QED
    BY <1>1, <2>1, PageStep
<1>2. CASE CandidatesAnswer \/ handleSubmit \/ ServeSubmit \/ SubmitAnswers
  BY <1>2, CandidatesStep, SubmitStep, SubmitServedStep, SubmitAnswersStep
<1>3. CASE handleAutoAdd \/ AutoAddAnswers \/ \E a \in Acct : OthersRebind(a)
  BY <1>3, OthersStep
<1>4. CASE UNCHANGED wizVars
  BY <1>4 DEF wizVars, draft, WizInv, WizTypeOK, ListedIsKnown, ConfirmedIsShown, RequestIsAgreed,
        CreatedOnce, conflicts, selectedBindings
<1>5. QED
  BY <1>1, <1>2, <1>3, <1>4 DEF WizNext

\* The wizard opens with nothing chosen.
LEMMA WizInitInv == WizInit => WizInv
<1> SUFFICES ASSUME WizInit PROVE WizInv
  OBVIOUS
<1>1. owner \in [Acct -> Holder] /\ listed \in [Acct -> Holder]
  BY DEF WizInit, Holder
<1>2. WizTypeOK
  BY <1>1 DEF WizInit, WizTypeOK
<1>3. ListedIsKnown /\ ConfirmedIsShown /\ RequestIsAgreed /\ CreatedOnce
  BY DEF WizInit, ListedIsKnown, ConfirmedIsShown, RequestIsAgreed, CreatedOnce
<1>4. QED
  BY <1>2, <1>3 DEF WizInv

\* A submission of the wizard takes over only accounts that were shown when the transfer
\* was confirmed, or have changed hands since the page was loaded; and a second person
\* is made only where an answer was lost (PersonCreateWizard.tsx).
THEOREM WizardAlwaysDoesWhatWasAgreed == WizSpec => WizardDoesWhatWasAgreed
<1>1. WizInv /\ [WizNext]_wizVars =>
        WizInv' /\ [created' # created =>
                      /\ \A a \in Acct : owner[a] # nil /\ owner'[a] # owner[a] => a \in submitting.agreed \cup moved
                      /\ created > 0 => lost]_wizVars
  BY WizStep DEF Agreed
<1>2. QED
  BY WizInitInv, <1>1, PTL DEF WizSpec, WizardDoesWhatWasAgreed

-----------------------------------------------------------------------------
(***************************************************************************)
(* The pages that follow events and answers: whatever a page does not show *)
(* yet is on its way, as an event, a timer or an answer it will take.      *)
(***************************************************************************)

AskedFor == [seq : Nat, filter : Filter, loud : BOOLEAN, version : Nat]

PagesTypeOK ==
  /\ page \in {"store", "servers", "tasks", "alerts", "overview"}
  /\ version \in Nat \ {0} /\ wire \in Seq(Nat) /\ online \in BOOLEAN
  /\ filter \in Filter /\ onScreen \in [filter : Filter, version : Nat]
  /\ seq \in Nat /\ requests \subseteq AskedFor /\ IsFiniteSet(requests)
  /\ queued \in BOOLEAN /\ excused \in BOOLEAN

\* The last event on its way is of the newest version, which no answer is ahead of.
WireIsNewest ==
  /\ wire # <<>> => wire[Len(wire)] = version
  /\ ~online => wire = <<>>
  /\ \A r \in requests : r.version <= version

\* The answers that the page takes are for what the user has chosen.
Live(r) == page = "tasks" => r.seq = seq
LiveIsChosen == page # "alerts" => \A r \in requests : Live(r) => r.filter = filter

IsShown == onScreen.filter = filter /\ onScreen.version = version

\* An answer that will bring what is missing, or will be noticed to be old.
Brings(r) ==
  /\ Live(r) /\ r.filter = filter
  /\ r.version = 0 \/ r.version = version \/ r.version < onScreen.version

\* What the page does not show yet is on its way.
OnItsWay ==
  ~excused =>
    /\ onScreen.filter = filter \/ \E r \in requests : Live(r) /\ r.filter = filter
    /\ wire = <<>> /\ ~queued => IsShown \/ \E r \in requests : Brings(r)

PagesInv == PagesTypeOK /\ WireIsNewest /\ LiveIsChosen /\ OnItsWay

-----------------------------------------------------------------------------

\* A request bears a number that no other request under way bears.
LEMMA AskIsFresh ==
  ASSUME PagesTypeOK, NEW f \in Filter, NEW loud \in BOOLEAN, Ask(f, loud)
  PROVE  /\ seq' \in Nat /\ requests' \subseteq AskedFor /\ IsFiniteSet(requests')
         /\ \A r \in requests : r.seq # seq'
         /\ \A r \in requests' : r \in requests \/ (r.filter = f /\ r.version = 0)
         /\ requests \subseteq requests'
         /\ \E r \in requests' : r.filter = f /\ r.version = 0 /\ r.seq = seq'
<1> DEFINE Free(n) == \A r \in requests : r.seq # n
           new == [seq |-> seq', filter |-> f, loud |-> loud, version |-> 0]
<1>1. \E n \in 1 .. MaxRequests : Free(n)
  <2> SUFFICES ASSUME \A n \in 1 .. MaxRequests : \E r \in requests : r.seq = n PROVE FALSE
    OBVIOUS
  <2> DEFINE g == [n \in 1 .. MaxRequests |-> CHOOSE r \in requests : r.seq = n]
  <2>1. \A n \in 1 .. MaxRequests : g[n] \in requests /\ g[n].seq = n
    OBVIOUS
  <2>2. g \in [1 .. MaxRequests -> requests]
    BY <2>1
  <2> HIDE DEF g
  <2>3. \A m, n \in 1 .. MaxRequests : g[m] = g[n] => m = n
    BY <2>1
  <2>4. g \in Injection(1 .. MaxRequests, requests)
    BY <2>2, <2>3 DEF Injection, IsInjective
  <2>5. Cardinality(1 .. MaxRequests) <= Cardinality(requests)
    BY <2>4, FS_Injection DEF PagesTypeOK
  <2>6. Cardinality(1 .. MaxRequests) = MaxRequests
    BY FS_Interval, PagesAssumption
  <2>7. Cardinality(requests) \in Nat /\ Cardinality(requests) < MaxRequests
    BY FS_CardinalityType DEF PagesTypeOK, Ask
  <2>8. QED
    BY <2>5, <2>6, <2>7, PagesAssumption
<1>2. seq' = CHOOSE n \in 1 .. MaxRequests : Free(n)
  BY DEF Ask
<1>3. seq' \in 1 .. MaxRequests /\ Free(seq')
  BY <1>1, <1>2, Zenon
<1>4. requests' = requests \cup {new}
  BY DEF Ask
<1>5. new \in AskedFor /\ new.filter = f /\ new.version = 0 /\ new.seq = seq'
  BY <1>3, PagesAssumption DEF AskedFor
<1> HIDE DEF new
<1>6. IsFiniteSet(requests')
  BY <1>4, FS_AddElement DEF PagesTypeOK
<1>7. QED
  BY <1>3, <1>4, <1>5, <1>6, PagesAssumption DEF PagesTypeOK

\* Whoever has just asked for what is chosen will be brought it.
LEMMA AskBrings ==
  ASSUME PagesInv, NEW loud \in BOOLEAN, Ask(filter', loud), filter' \in Filter,
         UNCHANGED <<page, version>>
  PROVE  /\ seq' \in Nat /\ requests' \subseteq AskedFor /\ IsFiniteSet(requests')
         /\ \A r \in requests' : r.version <= version'
         /\ filter' = filter \/ page \in {"tasks", "alerts"} => LiveIsChosen'
         /\ \E r \in requests' : Brings(r)'
<1>1. /\ seq' \in Nat /\ requests' \subseteq AskedFor /\ IsFiniteSet(requests')
      /\ \A r \in requests : r.seq # seq'
      /\ \A r \in requests' : r \in requests \/ (r.filter = filter' /\ r.version = 0)
      /\ \E r \in requests' : r.filter = filter' /\ r.version = 0 /\ r.seq = seq'
  BY AskIsFresh DEF PagesInv
<1>2. \A r \in requests' : r.version <= version'
  BY <1>1 DEF PagesInv, PagesTypeOK, WireIsNewest, AskedFor
<1>3. filter' = filter \/ page \in {"tasks", "alerts"} => LiveIsChosen'
  BY <1>1 DEF PagesInv, LiveIsChosen, Live
<1>4. \E r \in requests' : Brings(r)'
  BY <1>1 DEF Brings, Live
<1>5. QED
  BY <1>1, <1>2, <1>3, <1>4

\* An excuse is dropped once the page is current; a page that is current needs nothing.
LEMMA ExcuseHolds ==
  ASSUME PagesInv, NEW cause \in BOOLEAN, Excuse(cause),
         onScreen' \in [filter : Filter, version : Nat]
  PROVE  /\ excused' \in BOOLEAN
         /\ (~excused /\ ~cause /\ ~IsShown' =>
               /\ onScreen'.filter = filter' \/ \E r \in requests' : (Live(r) /\ r.filter = filter)'
               /\ wire' = <<>> /\ ~queued' => \E r \in requests' : Brings(r)')
            => OnItsWay'
<1>1. excused' = ((excused \/ cause) /\ onScreen' # [filter |-> filter', version |-> version'])
  BY DEF Excuse
<1>2. onScreen' = [filter |-> filter', version |-> version'] => IsShown'
  BY DEF IsShown
<1>3. IsShown' => onScreen' = [filter |-> filter', version |-> version']
  BY DEF IsShown
<1>4. ~excused' => IsShown' \/ (~excused /\ ~cause)
  BY <1>1, <1>2, Zenon
<1>5. excused' \in BOOLEAN
  BY <1>1
<1>6. QED
  BY <1>4, <1>5 DEF OnItsWay, IsShown


-----------------------------------------------------------------------------
(* The steps. *)

\* The server and the socket.
LEMMA ServerStep ==
  ASSUME PagesInv, ServerChanges \/ Disconnected \/ Reconnected
  PROVE  PagesInv'
<1>1. UNCHANGED <<page, filter, onScreen, seq, requests, queued>>
  BY DEF ServerChanges, Disconnected, Reconnected, NoRequest
<1>2. LiveIsChosen'
  BY <1>1 DEF PagesInv, LiveIsChosen, Live
<1>3. CASE ServerChanges
  <2>1. /\ version' = version + 1 /\ online' = online /\ Excuse(~online)
        /\ wire' = IF online THEN Append(wire, version') ELSE wire
    BY <1>3 DEF ServerChanges
  <2>2. version \in Nat /\ version' \in Nat \ {0} /\ online \in BOOLEAN
    BY <2>1 DEF PagesInv, PagesTypeOK
  <2>3. online => wire' \in Seq(Nat) /\ wire' # <<>> /\ wire'[Len(wire')] = version'
    <3>1. wire \in Seq(Nat) /\ version' \in Nat
      BY <2>2 DEF PagesInv, PagesTypeOK
    <3>2. /\ Append(wire, version') \in Seq(Nat)
          /\ Append(wire, version') # <<>>
          /\ Append(wire, version')[Len(Append(wire, version'))] = version'
      BY <3>1, AppendProperties
    <3>3. QED
      BY <2>1, <3>2
  <2>4. ~online => wire' = <<>>
    BY <2>1 DEF PagesInv, WireIsNewest
  <2>5. wire' \in Seq(Nat)
    <3>1. CASE online
      BY <2>3, <3>1
    <3>2. CASE ~online
      BY <2>1, <3>2 DEF PagesInv, PagesTypeOK
    <3>3. QED
      BY <3>1, <3>2
  <2>6. WireIsNewest'
    <3>1. \A r \in requests : r.version <= version'
      BY <2>1, <2>2 DEF PagesInv, PagesTypeOK, AskedFor, WireIsNewest
    <3>2. QED
      BY <1>1, <2>1, <2>3, <2>4, <3>1 DEF WireIsNewest
  <2>7. excused' \in BOOLEAN /\ OnItsWay'
    BY <1>1, <2>1, <2>2, <2>3, ExcuseHolds DEF PagesInv, PagesTypeOK, OnItsWay, Live
  <2>8. QED
    BY <1>1, <1>2, <2>1, <2>2, <2>5, <2>6, <2>7 DEF PagesInv, PagesTypeOK
<1>4. CASE Disconnected
  <2>1. /\ version' = version /\ online' = FALSE /\ wire' = <<>> /\ Excuse(wire # <<>>)
    BY <1>4 DEF Disconnected
  <2>2. WireIsNewest' /\ wire' \in Seq(Nat)
    BY <1>1, <2>1 DEF PagesInv, WireIsNewest
  <2>3. excused' \in BOOLEAN /\ OnItsWay'
    <3>1. (wire # <<>>) \in BOOLEAN
      OBVIOUS
    <3>2. \A r : (Live(r) /\ r.filter = filter)' <=> (Live(r) /\ r.filter = filter)
      BY <1>1 DEF Live
    <3>3. \A r : Brings(r)' <=> Brings(r)
      BY <1>1, <2>1 DEF Brings, Live
    <3>4. IsShown' <=> IsShown
      BY <1>1, <2>1 DEF IsShown
    <3>5. QED
      BY <1>1, <2>1, <3>1, <3>2, <3>3, <3>4, ExcuseHolds DEF PagesInv, PagesTypeOK, OnItsWay
  <2>4. QED
    BY <1>1, <1>2, <2>1, <2>2, <2>3 DEF PagesInv, PagesTypeOK
<1>5. CASE Reconnected
  <2>1. online' = TRUE /\ UNCHANGED <<version, wire, excused>>
    BY <1>5 DEF Reconnected
  <2>2. QED
    BY <1>1, <1>2, <2>1 DEF PagesInv, PagesTypeOK, WireIsNewest, OnItsWay, Brings, Live, IsShown
<1>6. QED
  BY <1>3, <1>4, <1>5

\* An answer is on its way to the page.
LEMMA AnswersStep ==
  ASSUME PagesInv, NEW r \in requests, ServerAnswers(r)
  PROVE  PagesInv'
<1> DEFINE served == [r EXCEPT !.version = version]
<1>1. /\ requests' = (requests \ {r}) \cup {served}
      /\ UNCHANGED <<page, version, wire, online, filter, onScreen, seq, queued, excused>>
  BY DEF ServerAnswers
<1>2. r \in AskedFor /\ version \in Nat
  BY DEF PagesInv, PagesTypeOK
<1>3. served \in AskedFor /\ served.seq = r.seq /\ served.filter = r.filter /\ served.version = version
  BY <1>2 DEF AskedFor
<1> HIDE DEF served
<1>4. requests' \subseteq AskedFor /\ IsFiniteSet(requests')
  BY <1>1, <1>3, FS_AddElement, FS_RemoveElement DEF PagesInv, PagesTypeOK
<1>5. WireIsNewest' /\ LiveIsChosen'
  BY <1>1, <1>2, <1>3 DEF PagesInv, WireIsNewest, LiveIsChosen, Live
<1>6. OnItsWay'
  <2>1. \A w \in requests : \E u \in requests' :
          /\ u.seq = w.seq /\ u.filter = w.filter
          /\ u.version = w.version \/ u.version = version
    BY <1>1, <1>3
  <2>2. QED
    BY <1>1, <2>1 DEF PagesInv, OnItsWay, Brings, Live, IsShown
<1>7. QED
  BY <1>1, <1>4, <1>5, <1>6 DEF PagesInv, PagesTypeOK

\* Where an event replaces what is shown, the newest event makes it the newest version.
LEMMA ReplacedHolds ==
  ASSUME PagesInv, NEW v \in Nat, Replaced(v), UNCHANGED <<page, version, filter, seq, requests>>,
         wire' = <<>> => v = version, ~excused, ~IsShown'
  PROVE  /\ onScreen'.filter = filter' \/ \E r \in requests' : (Live(r) /\ r.filter = filter)'
         /\ wire' = <<>> => \E r \in requests' : Brings(r)'
<1>1. onScreen'.version = v /\ onScreen'.filter = onScreen.filter
  BY DEF Replaced, PagesInv, PagesTypeOK
<1>2. onScreen.filter = filter \/ \E r \in requests : Live(r) /\ r.filter = filter
  BY DEF PagesInv, OnItsWay
<1>3. wire' = <<>> => \E r \in requests : Live(r) /\ r.filter = filter
  BY <1>1, <1>2 DEF IsShown
<1>4. \A r \in requests : r.version \in Nat /\ r.version <= version
  BY DEF PagesInv, PagesTypeOK, AskedFor, WireIsNewest
<1>5. version \in Nat
  BY DEF PagesInv, PagesTypeOK
<1>6. \A r \in requests : wire' = <<>> /\ Live(r) /\ r.filter = filter => Brings(r)'
  BY <1>1, <1>4, <1>5 DEF Brings, Live
<1>7. QED
  BY <1>1, <1>2, <1>3, <1>6 DEF Live

\* An event replaces, is asked about, starts the timer, or is excused.
LEMMA EventStep ==
  ASSUME PagesInv, EventArrives
  PROVE  PagesInv'
<1>1. /\ wire # <<>> /\ wire' = Tail(wire)
      /\ UNCHANGED <<page, version, online, filter>>
  BY DEF EventArrives
<1>2. /\ Head(wire) \in Nat /\ wire' \in Seq(Nat)
      /\ wire' # <<>> => wire'[Len(wire')] = version
      /\ wire' = <<>> => Head(wire) = version
  <2>1. wire \in Seq(Nat) /\ wire # <<>> /\ wire[Len(wire)] = version
    BY <1>1 DEF PagesInv, PagesTypeOK, WireIsNewest
  <2>2. /\ Head(wire) = wire[1] /\ Head(wire) \in Nat /\ Tail(wire) \in Seq(Nat)
        /\ Len(Tail(wire)) = Len(wire) - 1 /\ Len(wire) \in Nat \ {0}
        /\ \A i \in 1 .. Len(Tail(wire)) : Tail(wire)[i] = wire[i + 1]
    BY <2>1, HeadTailProperties, EmptySeq, LenProperties
  <2>3. PICK n \in Nat \ {0} : n = Len(wire)
    BY <2>2
  <2>4. Tail(wire) = <<>> <=> n = 1
    BY <2>2, <2>3, EmptySeq
  <2>5. n # 1 => n - 1 \in 1 .. n - 1 /\ n - 1 + 1 = n
    BY <2>3
  <2>6. QED
    BY <1>1, <2>1, <2>2, <2>3, <2>4, <2>5
<1>3. PICK v \in Nat : v = Head(wire) /\ (wire' = <<>> => v = version)
  BY <1>2
<1>4. ASSUME Replaced(v), NoRequest, NoTimer, Excuse(FALSE)
      PROVE  PagesInv'
  <2>1. UNCHANGED <<seq, requests, queued>> /\ onScreen' \in [filter : Filter, version : Nat]
    BY <1>4 DEF NoRequest, NoTimer, Replaced, PagesInv, PagesTypeOK
  <2>2. excused' \in BOOLEAN /\ OnItsWay'
    BY <1>1, <1>3, <1>4, <2>1, ExcuseHolds, ReplacedHolds
  <2>3. QED
    BY <1>1, <1>2, <2>1, <2>2 DEF PagesInv, PagesTypeOK, WireIsNewest, LiveIsChosen, Live
<1>5. ASSUME NEW loud \in BOOLEAN, Ask(filter, loud), NoTimer, Excuse(FALSE),
             UNCHANGED onScreen \/ Replaced(v)
      PROVE  PagesInv'
  <2>1. queued' = queued /\ onScreen' \in [filter : Filter, version : Nat]
    BY <1>5 DEF NoTimer, Replaced, PagesInv, PagesTypeOK
  <2>2. /\ seq' \in Nat /\ requests' \subseteq AskedFor /\ IsFiniteSet(requests')
        /\ \A r \in requests' : r.version <= version'
        /\ LiveIsChosen'
        /\ \E r \in requests' : Brings(r)'
    BY <1>1, <1>5, AskBrings DEF PagesInv, PagesTypeOK
  <2>3. excused' \in BOOLEAN /\ OnItsWay'
    BY <1>5, <2>1, <2>2, ExcuseHolds DEF Brings
  <2>4. QED
    BY <1>1, <1>2, <2>1, <2>2, <2>3 DEF PagesInv, PagesTypeOK, WireIsNewest
<1>6. CASE StoreEvent(Head(wire))
  BY <1>3, <1>4, <1>6 DEF StoreEvent
<1>7. CASE TasksEvent(Head(wire))
  BY <1>3, <1>4, <1>5, <1>7 DEF TasksEvent
<1>8. CASE AlertsEvent
  BY <1>5, <1>8 DEF AlertsEvent
<1>9. CASE ServersEvent
  <2>1. CASE requests = {}
    BY <1>5, <1>9, <2>1 DEF ServersEvent
  <2>2. CASE requests # {}
    <3>1. Excuse(TRUE) /\ UNCHANGED <<seq, requests, queued, onScreen>>
      BY <1>9, <2>2 DEF ServersEvent, NoRequest, NoTimer
    <3>2. excused' \in BOOLEAN /\ OnItsWay'
      BY <3>1, ExcuseHolds DEF PagesInv, PagesTypeOK
    <3>3. QED
      BY <1>1, <1>2, <3>1, <3>2 DEF PagesInv, PagesTypeOK, WireIsNewest, LiveIsChosen, Live
  <2>3. QED
    BY <2>1, <2>2
<1>10. CASE OverviewEvent(Head(wire))
  <2>1. CASE queued' = TRUE /\ UNCHANGED onScreen
    <3>1. Excuse(FALSE) /\ UNCHANGED <<seq, requests>>
      BY <1>10 DEF OverviewEvent, NoRequest
    <3>2. excused' \in BOOLEAN /\ OnItsWay'
      BY <1>1, <2>1, <3>1, ExcuseHolds DEF PagesInv, PagesTypeOK, OnItsWay, Live
    <3>3. QED
      BY <1>1, <1>2, <2>1, <3>1, <3>2 DEF PagesInv, PagesTypeOK, WireIsNewest, LiveIsChosen, Live
  <2>2. CASE ~(queued' = TRUE /\ UNCHANGED onScreen)
    BY <1>3, <1>4, <1>10, <2>2 DEF OverviewEvent
  <2>3. QED
    BY <2>1, <2>2
<1>11. QED
  BY <1>6, <1>7, <1>8, <1>9, <1>10 DEF EventArrives

\* The timer and the user ask.
LEMMA AskStep ==
  ASSUME PagesInv, TimerFires \/ \E f \in Filter : ChooseFilter(f)
  PROVE  PagesInv'
<1>1. /\ Ask(filter', TRUE) /\ filter' \in Filter
      /\ queued' \in BOOLEAN /\ (filter' = filter \/ page \in {"tasks", "alerts"})
      /\ UNCHANGED <<page, version, wire, online, onScreen>> /\ Excuse(FALSE)
  BY DEF TimerFires, ChooseFilter, PagesInv, PagesTypeOK
<1>2. /\ seq' \in Nat /\ requests' \subseteq AskedFor /\ IsFiniteSet(requests')
      /\ \A r \in requests' : r.version <= version'
      /\ LiveIsChosen'
      /\ \E r \in requests' : Brings(r)'
  BY <1>1, AskBrings
<1>3. excused' \in BOOLEAN /\ OnItsWay'
  BY <1>1, <1>2, ExcuseHolds DEF Brings, PagesInv, PagesTypeOK
<1>4. QED
  BY <1>1, <1>2, <1>3 DEF PagesInv, PagesTypeOK, WireIsNewest

\* An answer arrives or fails: what is needed is still to come, or was this one.
LEMMA AnswerStep ==
  ASSUME PagesInv, NEW r \in requests, AnswerArrives(r) \/ RequestFails(r)
  PROVE  PagesInv'
<1>1. /\ requests' = requests \ {r}
      /\ UNCHANGED <<page, version, wire, online, filter, seq, queued>>
  BY DEF AnswerArrives, RequestFails
<1>2. r \in AskedFor /\ version \in Nat /\ onScreen.version \in Nat /\ filter \in Filter
  BY DEF PagesInv, PagesTypeOK
<1>3. requests' \subseteq AskedFor /\ IsFiniteSet(requests') /\ WireIsNewest' /\ LiveIsChosen'
  BY <1>1, FS_RemoveElement DEF PagesInv, PagesTypeOK, WireIsNewest, LiveIsChosen, Live
<1>4. Ignored(r) <=> ~Live(r)
  BY DEF Ignored, Live
<1>5. CASE AnswerArrives(r)
  <2>1. /\ r.version > 0
        /\ onScreen' = IF Ignored(r) THEN onScreen ELSE [filter |-> r.filter, version |-> r.version]
        /\ Excuse(~Ignored(r) /\ \/ r.version < onScreen.version
                                 \/ r.filter # filter /\ page = "alerts")
    BY <1>5 DEF AnswerArrives
  <2>2. PICK cause \in BOOLEAN :
          cause <=> (~Ignored(r) /\ \/ r.version < onScreen.version
                                    \/ r.filter # filter /\ page = "alerts")
    OBVIOUS
  <2>3. Excuse(cause)
    BY <2>1, <2>2
  <2>4. onScreen' \in [filter : Filter, version : Nat]
    BY <1>2, <2>1 DEF AskedFor, PagesInv, PagesTypeOK
  <2>5. ASSUME ~excused, ~cause, ~IsShown'
        PROVE  /\ onScreen'.filter = filter' \/ \E w \in requests' : (Live(w) /\ w.filter = filter)'
               /\ wire' = <<>> /\ ~queued' => \E w \in requests' : Brings(w)'
    <3>1. /\ onScreen.filter = filter \/ \E w \in requests : Live(w) /\ w.filter = filter
          /\ wire = <<>> /\ ~queued => IsShown \/ \E w \in requests : Brings(w)
      BY <2>5 DEF PagesInv, OnItsWay
    <3>2. CASE ~Live(r)
      <4>1. onScreen' = onScreen
        BY <1>4, <2>1, <3>2
      <4>2. \A w \in requests : Live(w) => w \in requests'
        BY <1>1, <3>2
      <4>3. QED
        BY <1>1, <2>5, <3>1, <4>1, <4>2 DEF Brings, Live, IsShown
    <3>3. CASE Live(r)
      <4>1. /\ onScreen'.filter = r.filter /\ onScreen'.version = r.version
            /\ ~(r.version < onScreen.version) /\ ~(r.filter # filter /\ page = "alerts")
        BY <1>4, <2>1, <2>2, <2>5, <3>3
      <4>2. r.filter = filter
        BY <3>3, <4>1 DEF PagesInv, LiveIsChosen
      <4>3. r.version # version
        BY <1>1, <2>5, <4>1, <4>2 DEF IsShown
      <4>4. r.version \in Nat /\ r.version <= version /\ onScreen.version <= r.version
        BY <1>2, <4>1 DEF AskedFor, PagesInv, WireIsNewest
      <4>5. ~IsShown
        BY <1>2, <4>3, <4>4 DEF IsShown
      <4>6. \A w \in requests : Brings(w) => w # r
        BY <2>1, <4>1, <4>3 DEF Brings
      <4>7. \A w \in requests : Brings(w) => Brings(w)'
        <5>1. \A w \in requests : w.version \in Nat
          BY DEF PagesInv, PagesTypeOK, AskedFor
        <5>2. QED
          BY <1>1, <1>2, <4>1, <4>4, <5>1 DEF Brings, Live
      <4>8. QED
        BY <1>1, <3>1, <4>1, <4>2, <4>5, <4>6, <4>7
    <3>4. QED
      BY <3>2, <3>3
  <2>6. excused' \in BOOLEAN /\ OnItsWay'
    BY <2>3, <2>4, <2>5, ExcuseHolds
  <2>7. QED
    BY <1>1, <1>3, <2>4, <2>6 DEF PagesInv, PagesTypeOK
<1>6. CASE RequestFails(r)
  <2>1. /\ onScreen' = IF Emptied(r) THEN Nothing(filter) ELSE onScreen
        /\ Excuse(~Ignored(r))
    BY <1>6 DEF RequestFails
  <2>2. PICK cause \in BOOLEAN : cause <=> ~Ignored(r)
    OBVIOUS
  <2>3. Excuse(cause)
    BY <2>1, <2>2
  <2>4. onScreen' \in [filter : Filter, version : Nat]
    BY <1>2, <2>1 DEF Nothing, PagesInv, PagesTypeOK
  <2>5. ASSUME ~excused, ~cause, ~IsShown'
        PROVE  /\ onScreen'.filter = filter' \/ \E w \in requests' : (Live(w) /\ w.filter = filter)'
               /\ wire' = <<>> /\ ~queued' => \E w \in requests' : Brings(w)'
    <3>1. /\ onScreen.filter = filter \/ \E w \in requests : Live(w) /\ w.filter = filter
          /\ wire = <<>> /\ ~queued => IsShown \/ \E w \in requests : Brings(w)
      BY <2>5 DEF PagesInv, OnItsWay
    <3>2. ~Live(r) /\ onScreen' = onScreen
      BY <1>4, <2>1, <2>2, <2>5 DEF Emptied, Ignored
    <3>3. \A w \in requests : Live(w) => w \in requests'
      BY <1>1, <3>2
    <3>4. QED
      BY <1>1, <2>5, <3>1, <3>2, <3>3 DEF Brings, Live, IsShown
  <2>6. excused' \in BOOLEAN /\ OnItsWay'
    BY <2>3, <2>4, <2>5, ExcuseHolds
  <2>7. QED
    BY <1>1, <1>3, <2>4, <2>6 DEF PagesInv, PagesTypeOK
<1>7. QED
  BY <1>5, <1>6

\* All steps.
LEMMA PagesStep == PagesInv /\ [PagesNext]_pagesVars => PagesInv'
<1> SUFFICES ASSUME PagesInv, [PagesNext]_pagesVars PROVE PagesInv'
  OBVIOUS
<1>1. CASE ServerChanges \/ Disconnected \/ Reconnected
  BY <1>1, ServerStep
<1>2. CASE EventArrives
  BY <1>2, EventStep
<1>3. CASE TimerFires \/ \E f \in Filter : ChooseFilter(f)
  BY <1>3, AskStep
<1>4. ASSUME NEW r \in requests, ServerAnswers(r) \/ AnswerArrives(r) \/ RequestFails(r)
      PROVE  PagesInv'
  BY <1>4, AnswersStep, AnswerStep
<1>5. CASE UNCHANGED pagesVars
  BY <1>5 DEF pagesVars, PagesInv, PagesTypeOK, WireIsNewest, LiveIsChosen, OnItsWay, Brings,
        Live, IsShown
<1>6. QED
  BY <1>1, <1>2, <1>3, <1>4, <1>5 DEF PagesNext

\* A page opens by asking.
LEMMA PagesInitInv == PagesInit => PagesInv
<1> SUFFICES ASSUME PagesInit PROVE PagesInv
  OBVIOUS
<1> DEFINE first == [seq |-> 1, filter |-> FirstFilter, loud |-> TRUE, version |-> 0]
<1>1. /\ requests = {first} /\ seq = 1 /\ filter = FirstFilter /\ version = 1 /\ wire = <<>>
      /\ onScreen = Nothing(FirstFilter)
  BY DEF PagesInit
<1>2. first \in AskedFor /\ first.seq = 1 /\ first.filter = FirstFilter /\ first.version = 0
  BY PagesAssumption DEF AskedFor
<1> HIDE DEF first
<1>3. IsFiniteSet(requests)
  BY <1>1, FS_Singleton
<1>4. onScreen \in [filter : Filter, version : Nat] /\ onScreen.filter = filter
  BY <1>1, PagesAssumption DEF Nothing
<1>5. PagesTypeOK
  <2>1. requests \subseteq AskedFor /\ wire \in Seq(Nat) /\ FirstFilter \in Filter
    BY <1>1, <1>2, PagesAssumption
  <2>2. version \in Nat \ {0} /\ seq \in Nat
    BY <1>1
  <2>3. QED
    BY <1>1, <1>3, <1>4, <2>1, <2>2 DEF PagesInit, PagesTypeOK
<1>6. WireIsNewest /\ LiveIsChosen
  BY <1>1, <1>2 DEF WireIsNewest, LiveIsChosen
<1>7. OnItsWay
  BY <1>1, <1>2, <1>4 DEF OnItsWay, Brings, Live
<1>8. QED
  BY <1>5, <1>6, <1>7 DEF PagesInv

\* When every event and every answer has arrived, each of the five pages shows what the
\* server has and what the user chose, unless one of the causes that excused remembers
\* has left it behind.
THEOREM PagesAlwaysCurrent == PagesSpec => []PageIsCurrent
<1>1. PagesInv => PageIsCurrent
  <2> SUFFICES ASSUME PagesInv, wire = <<>>, requests = {}, ~queued, ~excused
               PROVE  onScreen = [filter |-> filter, version |-> version]
    BY DEF PageIsCurrent
  <2>1. IsShown
    BY DEF PagesInv, OnItsWay
  <2>2. onScreen \in [filter : Filter, version : Nat]
    BY DEF PagesInv, PagesTypeOK
  <2>3. QED
    BY <2>1, <2>2 DEF IsShown
<1>2. QED
  BY PagesInitInv, PagesStep, <1>1, PTL DEF PagesSpec

-----------------------------------------------------------------------------
(***************************************************************************)
(* The pages of a node's past: the points that a page shows were taken of its *)
(* node, in the range that is chosen, and what the page has not got is newer. *)
(***************************************************************************)

Span   == [from : Int, to : Int]
\* A page is of one node, or of none yet.
OneAtMost == {S \in SUBSET Host : \A m, n \in S : m = n}
Shown  == [of : OneAtMost, range : Span, late : BOOLEAN]
Asked  == [kind : {"history", "snapshot"}, of : OneAtMost, range : Span, late : BOOLEAN,
           served : BOOLEAN, rows : SUBSET Nat]
Page   == [host : OneAtMost, tab : {"realtime", "history", "snapshot"}, range : Span,
           asked : SUBSET Asked, drawn : Shown, missed : SUBSET {"history", "snapshot"},
           listed : Shown, timeline : SUBSET Nat, selected : Nat, strange : BOOLEAN]

PastTypeOK ==
  /\ looks \in {"history", "snapshot"} /\ today \in Nat
  /\ kept \in [Host -> SUBSET Nat] /\ taken \in [Host -> SUBSET Nat]
  /\ past \in Page

\* A server keeps some of the snapshots it has taken.
KeptWasTaken == \A n \in Host : kept[n] \subseteq taken[n] /\ taken[n] \subseteq 1 .. today

\* Rows of a node were taken of it, and what has come since is newer than all of them.
Seen(of, rows) ==
  /\ rows \subseteq 1 .. today
  /\ \A n \in of : /\ rows \subseteq taken[n]
                   /\ \A t \in kept[n] : t \in rows \/ \A u \in rows : u < t

\* The snapshot chosen is one of the node, unless the answer for another chose it.
ChosenIsTaken ==
  /\ past.timeline # {} => past.selected # 0
  /\ past.selected # 0 /\ ~past.strange => \A n \in past.host : past.selected \in taken[n]

\* The newest request of a range is for what the tab names, and is under way, or has
\* failed, or was answered; an answer after it is late.
NewestRange(p) ==
  /\ \A q \in p.asked : q.kind = "history" /\ ~q.late => q.of = p.host /\ q.range = p.range
  /\ \/ \E q \in p.asked : q.kind = "history" /\ ~q.late
     \/ "history" \in p.missed \/ p.drawn.late
     \/ p.drawn.of = p.host /\ p.drawn.range = p.range

\* The same for the newest request of a list.
NewestList(p) ==
  /\ \A q \in p.asked : q.kind = "snapshot" /\ ~q.late => q.of = p.host
  /\ \/ \E q \in p.asked : q.kind = "snapshot" /\ ~q.late
     \/ p.listed.late \/ p.listed.of = p.host

NewestIsForThePage ==
  /\ past.tab = "history" => NewestRange(past)
  /\ past.tab = "snapshot" => NewestList(past)

PastInv ==
  /\ PastTypeOK /\ KeptWasTaken /\ ChosenIsTaken /\ NewestIsForThePage
  /\ \A q \in past.asked : Seen(q.of, q.rows)
  /\ Seen(past.listed.of, past.timeline)


-----------------------------------------------------------------------------
(* Lemmas. *)

\* A set of numbers has a smallest one.
LEMMA SmallestExists ==
  ASSUME NEW S \in SUBSET Nat, S # {}
  PROVE  \E x \in S : \A y \in S : x <= y
<1> DEFINE Below == {ss \in Nat \X Nat : ss[1] < ss[2]}
<1>1. OpToRel(<, Nat) = Below
  BY DEF OpToRel
<1>2. IsWellFoundedOn(Below, Nat)
  BY <1>1, NatLessThanWellFounded
<1>3. \A x, y \in Nat : <<x, y>> \in Below <=> x < y
  OBVIOUS
<1> HIDE DEF Below
<1>4. PICK x \in S : \A y \in S : ~(<<y, x>> \in Below)
  BY <1>2, WFMin
<1>5. \A y \in S : x <= y
  <2> TAKE y \in S
  <2>1. ~(y < x)
    BY <1>3, <1>4
  <2>2. QED
    BY <2>1
<1>6. QED
  BY <1>5

\* The maximum is the greatest of a set that has a bound.
LEMMA MaxIsGreatest ==
  ASSUME NEW S \in SUBSET Nat, S # {}, NEW n \in Nat, \A y \in S : y <= n
  PROVE  Sets!Max(S) \in S /\ \A y \in S : y <= Sets!Max(S)
<1> DEFINE Bounds == {m \in Nat : \A y \in S : y <= m}
<1>1. PICK b \in Bounds : \A c \in Bounds : b <= c
  BY SmallestExists
<1>2. b \in S
  <2>1. CASE b = 0
    <3>1. PICK y \in S : TRUE
      OBVIOUS
    <3>2. y <= b /\ y \in Nat
      BY <1>1
    <3>3. QED
      BY <2>1, <3>2
  <2>2. CASE b # 0
    <3> SUFFICES ASSUME b \notin S PROVE FALSE
      OBVIOUS
    <3>1. b - 1 \in Bounds
      BY <2>2, <1>1
    <3>2. QED
      BY <3>1, <1>1
  <2>3. QED
    BY <2>1, <2>2
<1>3. \E x \in S : \A y \in S : x >= y
  BY <1>1, <1>2
<1>4. QED
  BY <1>3 DEF Sets!Max

\* A request joins those under way, which are late from then on if they are of its kind.
LEMMA AskingFits ==
  ASSUME NEW p \in Page, NEW kind \in {"history", "snapshot"}, NEW range \in Span
  PROVE  LET a == Asking(p, kind, range) IN
         /\ a \in Page
         /\ a.host = p.host /\ a.tab = p.tab /\ a.range = p.range
         /\ a.drawn = p.drawn /\ a.listed = p.listed /\ a.timeline = p.timeline
         /\ a.selected = p.selected /\ a.strange = p.strange
         /\ \E r \in a.asked : r.kind = kind /\ ~r.late
         /\ \A r \in a.asked :
              \/ r.kind = kind /\ r.of = p.host /\ r.range = range /\ r.rows = {}
              \/ \E q \in p.asked : /\ r.kind = q.kind /\ r.of = q.of /\ r.rows = q.rows
                                    /\ r.kind = kind => r.late
<1> DEFINE new == [kind |-> kind, of |-> p.host, range |-> range, late |-> FALSE,
                   served |-> FALSE, rows |-> {}]
           Later(q) == [q EXCEPT !.late = @ \/ q.kind = kind]
           asked == {Later(q) : q \in p.asked} \cup {new}
           missed == p.missed \ {kind}
           a == Asking(p, kind, range)
<1>1. new \in Asked /\ new.kind = kind /\ new.of = p.host /\ new.range = range /\ ~new.late
      /\ new.rows = {}
  BY DEF Page, Asked
<1>2. ASSUME NEW q \in p.asked
      PROVE  /\ Later(q) \in Asked /\ Later(q).kind = q.kind /\ Later(q).of = q.of
             /\ Later(q).rows = q.rows /\ (q.kind = kind => Later(q).late)
  <2>1. q \in Asked
    BY DEF Page
  <2>2. (q.late \/ q.kind = kind) \in BOOLEAN
    OBVIOUS
  <2> DEFINE l == q.late \/ q.kind = kind
  <2>3. l \in BOOLEAN /\ (q.kind = kind => l) /\ Later(q) = [q EXCEPT !.late = l]
    BY <2>1 DEF Asked
  <2> HIDE DEF l
  <2>4. QED
    BY <2>1, <2>3 DEF Asked
<1> HIDE DEF new, Later
<1>3. asked \in SUBSET Asked /\ missed \in SUBSET {"history", "snapshot"}
  BY <1>1, <1>2 DEF Page
<1>4. a = [p EXCEPT !.missed = missed, !.asked = asked]
  BY DEF Asking, new, Later
<1>5. \E r \in asked : r.kind = kind /\ ~r.late
  BY <1>1
<1>6. \A r \in asked :
        \/ r.kind = kind /\ r.of = p.host /\ r.range = range /\ r.rows = {}
        \/ \E q \in p.asked : /\ r.kind = q.kind /\ r.of = q.of /\ r.rows = q.rows
                              /\ r.kind = kind => r.late
  BY <1>1, <1>2
<1> HIDE DEF asked, missed, a
<1>7. a \in Page /\ a.asked = asked
      /\ a.host = p.host /\ a.tab = p.tab /\ a.range = p.range
      /\ a.drawn = p.drawn /\ a.listed = p.listed /\ a.timeline = p.timeline
      /\ a.selected = p.selected /\ a.strange = p.strange
  BY <1>3, <1>4 DEF Page
<1>8. QED
  BY <1>5, <1>6, <1>7 DEF a


\* The effects leave the page as it is and ask, for the newest, what it names.
LEMMA EffectsFit ==
  ASSUME NEW p \in Page, \A q \in p.asked : Seen(q.of, q.rows)
  PROVE  LET a == Effects(p) IN
         /\ a \in Page
         /\ a.host = p.host /\ a.tab = p.tab /\ a.range = p.range
         /\ a.listed = p.listed /\ a.timeline = p.timeline
         /\ a.selected = p.selected /\ a.strange = p.strange
         /\ \A r \in a.asked : Seen(r.of, r.rows)
         /\ a.tab = "history" => NewestRange(a)
         /\ a.tab = "snapshot" => NewestList(a)
<1>1. \A of : Seen(of, {})
  BY DEF Seen
<1>2. p.range \in Span /\ Everything \in Span
  BY PastAssumption DEF Page, Everything, Span
<1>3. CASE p.tab = "history"
  <2> DEFINE a == Asking(p, "history", p.range)
  <2>1. Effects(p) = a
    BY <1>3 DEF Effects
  <2>2. /\ a \in Page
        /\ a.host = p.host /\ a.tab = p.tab /\ a.range = p.range
        /\ a.drawn = p.drawn /\ a.listed = p.listed /\ a.timeline = p.timeline
        /\ a.selected = p.selected /\ a.strange = p.strange
        /\ \E r \in a.asked : r.kind = "history" /\ ~r.late
        /\ \A r \in a.asked :
             \/ r.kind = "history" /\ r.of = p.host /\ r.range = p.range /\ r.rows = {}
             \/ \E q \in p.asked : /\ r.kind = q.kind /\ r.of = q.of /\ r.rows = q.rows
                                   /\ r.kind = "history" => r.late
    BY <1>2, AskingFits
  <2> HIDE DEF a
  <2>3. \A r \in a.asked : Seen(r.of, r.rows)
    BY <1>1, <2>2
  <2>4. NewestRange(a)
    BY <2>2 DEF NewestRange
  <2>5. QED
    BY <1>3, <2>1, <2>2, <2>3, <2>4
<1>4. CASE p.tab = "snapshot"
  <2> DEFINE a == Asking(p, "snapshot", Everything)
  <2>1. Effects(p) = a
    BY <1>4 DEF Effects
  <2>2. /\ a \in Page
        /\ a.host = p.host /\ a.tab = p.tab /\ a.range = p.range
        /\ a.drawn = p.drawn /\ a.listed = p.listed /\ a.timeline = p.timeline
        /\ a.selected = p.selected /\ a.strange = p.strange
        /\ \E r \in a.asked : r.kind = "snapshot" /\ ~r.late
        /\ \A r \in a.asked :
             \/ r.kind = "snapshot" /\ r.of = p.host /\ r.range = Everything /\ r.rows = {}
             \/ \E q \in p.asked : /\ r.kind = q.kind /\ r.of = q.of /\ r.rows = q.rows
                                   /\ r.kind = "snapshot" => r.late
    BY <1>2, AskingFits
  <2> HIDE DEF a
  <2>3. \A r \in a.asked : Seen(r.of, r.rows)
    BY <1>1, <2>2
  <2>4. NewestList(a)
    BY <2>2 DEF NewestList
  <2>5. QED
    BY <1>4, <2>1, <2>2, <2>3, <2>4
<1>5. CASE p.tab = "realtime"
  BY <1>5 DEF Effects
<1>6. QED
  BY <1>3, <1>4, <1>5 DEF Page

\* A page whose tab is the charts of now has nothing to keep but its requests.
LEMMA ForgottenFits ==
  ASSUME PastTypeOK, NEW p \in Page, NEW n \in Host, \A q \in p.asked : Seen(q.of, q.rows)
  PROVE  LET f == Forgotten(p, n) IN
         /\ f \in Page /\ f.host = {n} /\ f.tab = "realtime" /\ f.asked = p.asked
         /\ f.listed.of = {} /\ f.timeline = {} /\ f.selected = 0
<1>1. {n} \in OneAtMost
  BY DEF OneAtMost
<1>2. NothingShown \in Shown /\ NothingShown.of = {}
  BY PastAssumption DEF NothingShown, Shown, OneAtMost, Everything, Span
<1>3. Range24(FirstPreset) \in Span
  BY PastAssumption DEF PastTypeOK, Range24, Span
<1> DEFINE empty == NothingShown  day == Range24(FirstPreset)  none == {}  no == FALSE
           f == Forgotten(p, n)
<1>4. f = [p EXCEPT !.host = {n}, !.tab = "realtime", !.range = day, !.drawn = empty,
                    !.listed = empty, !.timeline = none, !.strange = no, !.selected = 0]
  BY DEF Forgotten, KeepsSelection
<1>5. /\ empty \in Shown /\ empty.of = {} /\ day \in Span
      /\ none \in SUBSET Nat /\ none = {} /\ no \in BOOLEAN
  BY <1>2, <1>3
<1> HIDE DEF empty, day, none, no, f
<1>6. /\ f \in Page /\ f.host = {n} /\ f.tab = "realtime" /\ f.asked = p.asked
      /\ f.listed = empty /\ f.timeline = none /\ f.selected = 0
  BY <1>1, <1>4, <1>5 DEF Page
<1>7. QED
  BY <1>5, <1>6 DEF f

-----------------------------------------------------------------------------
(* The steps. *)

\* What the user does.
LEMMA OpenStep ==
  ASSUME PastInv, NEW n \in Host, OpenHost(n) \/ JumpToHost(n)
  PROVE  PastInv'
<1>1. World
  BY DEF OpenHost, JumpToHost
<1>2. ClosedPast \in Page /\ ClosedPast.asked = {}
  BY PastAssumption DEF ClosedPast, Page, OneAtMost, NothingShown, Shown, Everything, Span
<1>3. PICK p \in Page : (\A q \in p.asked : Seen(q.of, q.rows)) /\ past' = Forgotten(p, n)
  <2>1. CASE OpenHost(n)
    BY <1>2, <2>1 DEF OpenHost
  <2>2. CASE JumpToHost(n)
    <3> DEFINE turned == [past EXCEPT !.host = {n}]
    <3>1. turned \in Page /\ turned.asked = past.asked
      BY DEF PastInv, PastTypeOK, Page, OneAtMost
    <3>2. \A q \in turned.asked : Seen(q.of, q.rows)
      BY <3>1 DEF PastInv
    <3> HIDE DEF turned
    <3>3. Effects(turned) \in Page /\ \A q \in Effects(turned).asked : Seen(q.of, q.rows)
      BY <3>1, <3>2, EffectsFit
    <3>4. past' = Forgotten(Effects(turned), n)
      BY <2>2 DEF JumpToHost, turned
    <3>5. QED
      BY <3>3, <3>4
  <2>3. QED
    BY <2>1, <2>2
<1>4. /\ past' \in Page /\ past'.host = {n} /\ past'.tab = "realtime" /\ past'.asked = p.asked
      /\ past'.listed.of = {} /\ past'.timeline = {} /\ past'.selected = 0
  BY <1>3, ForgottenFits DEF PastInv
<1>5. QED
  BY <1>1, <1>3, <1>4 DEF PastInv, PastTypeOK, KeptWasTaken, ChosenIsTaken, NewestIsForThePage, Seen, World

\* Asking for a tab or a range leaves the list and the choice alone.
LEMMA AskPastStep ==
  ASSUME PastInv, World, NEW p \in Page, p.asked = past.asked, p.host = past.host,
         p.listed = past.listed, p.timeline = past.timeline, p.selected = past.selected,
         p.strange = past.strange, past' = Effects(p)
  PROVE  PastInv'
<1>1. \A q \in p.asked : Seen(q.of, q.rows)
  BY DEF PastInv
<1>2. /\ past' \in Page /\ past'.host = past.host /\ past'.listed = past.listed
      /\ past'.timeline = past.timeline /\ past'.selected = past.selected
      /\ past'.strange = past.strange
      /\ \A r \in past'.asked : Seen(r.of, r.rows)
      /\ past'.tab = "history" => NewestRange(past')
      /\ past'.tab = "snapshot" => NewestList(past')
  BY <1>1, EffectsFit
<1>3. \A of, rows : Seen(of, rows)' <=> Seen(of, rows)
  BY DEF World, Seen
<1>4. (\A r \in past.asked : Seen(r.of, r.rows))' /\ Seen(past.listed.of, past.timeline)'
  BY <1>2 DEF PastInv, World, Seen
<1>5. NewestIsForThePage'
  BY <1>2 DEF NewestIsForThePage, NewestRange, NewestList
<1>6. QED
  BY <1>2, <1>4, <1>5 DEF PastInv, PastTypeOK, KeptWasTaken, ChosenIsTaken, World


\* Choosing a tab, a range or a snapshot, and leaving.
LEMMA UserStep ==
  ASSUME PastInv,
         \/ LeaveHost
         \/ \E shown \in {"realtime", looks} : setTab(shown)
         \/ \E p \in {FirstPreset, OtherPreset} : applyPreset(p)
         \/ \E from, to \in 1 .. LastTime : applyCustomRange(from, to)
         \/ \E t \in 1 .. LastTime : selectSnapshot(t)
  PROVE  PastInv'
<1>1. CASE LeaveHost
  <2>1. World /\ past' = ClosedPast
    BY <1>1 DEF LeaveHost
  <2>2. /\ past' \in Page /\ past'.asked = {} /\ past'.tab = "realtime" /\ past'.selected = 0
        /\ past'.timeline = {} /\ past'.listed.of = {}
    BY <2>1, PastAssumption DEF ClosedPast, Page, OneAtMost, NothingShown, Shown, Everything, Span
  <2>3. QED
    BY <2>1, <2>2 DEF PastInv, PastTypeOK, KeptWasTaken, ChosenIsTaken, NewestIsForThePage, Seen, World
<1>2. CASE \E shown \in {"realtime", looks} : setTab(shown)
  <2>1. PICK shown \in {"realtime", looks} : setTab(shown)
    BY <1>2
  <2> DEFINE p == [past EXCEPT !.tab = shown]
  <2>2. /\ p \in Page /\ p.asked = past.asked /\ p.host = past.host /\ p.listed = past.listed
        /\ p.timeline = past.timeline /\ p.selected = past.selected /\ p.strange = past.strange
    BY DEF PastInv, PastTypeOK, Page
  <2>3. World /\ past' = Effects(p)
    BY <2>1 DEF setTab
  <2> HIDE DEF p
  <2>4. QED
    BY <2>2, <2>3, AskPastStep
<1>3. ASSUME NEW range \in Span, applyRange(range)
      PROVE  PastInv'
  <2> DEFINE p == [past EXCEPT !.range = range]
  <2>2. /\ p \in Page /\ p.asked = past.asked /\ p.host = past.host /\ p.listed = past.listed
        /\ p.timeline = past.timeline /\ p.selected = past.selected /\ p.strange = past.strange
    BY DEF PastInv, PastTypeOK, Page
  <2>3. World /\ past' = Effects(p)
    BY <1>3 DEF applyRange
  <2> HIDE DEF p
  <2>4. QED
    BY <2>2, <2>3, AskPastStep
<1>4. CASE \E p \in {FirstPreset, OtherPreset} : applyPreset(p)
  <2>1. PICK p \in {FirstPreset, OtherPreset} : applyPreset(p)
    BY <1>4
  <2>2. Range24(p) \in Span
    BY PastAssumption DEF PastInv, PastTypeOK, Range24, Span
  <2>3. QED
    BY <1>3, <2>1, <2>2 DEF applyPreset
<1>5. CASE \E from, to \in 1 .. LastTime : applyCustomRange(from, to)
  <2>1. PICK from, to \in 1 .. LastTime : applyCustomRange(from, to)
    BY <1>5
  <2>2. [from |-> from, to |-> to] \in Span
    BY PastAssumption DEF Span
  <2>3. QED
    BY <1>3, <2>1, <2>2 DEF applyCustomRange
<1>6. CASE \E t \in 1 .. LastTime : selectSnapshot(t)
  <2>1. PICK t \in 1 .. LastTime : selectSnapshot(t)
    BY <1>6
  <2> DEFINE odd == past.strange \/ past.listed.of # past.host
  <2>2. /\ past' = [past EXCEPT !.selected = t, !.strange = odd]
        /\ World /\ t \in past.timeline /\ past.tab = "snapshot"
    BY <2>1 DEF selectSnapshot
  <2>3. /\ odd \in BOOLEAN /\ t \in Nat /\ t # 0
        /\ ~odd => ~past.strange /\ past.listed.of = past.host
    BY PastAssumption DEF PastInv, PastTypeOK, Page
  <2> HIDE DEF odd
  <2>4. /\ past' \in Page /\ past'.selected = t /\ past'.strange = odd
        /\ past'.tab = past.tab /\ past'.asked = past.asked /\ past'.host = past.host
        /\ past'.listed = past.listed /\ past'.timeline = past.timeline
    BY <2>2, <2>3 DEF PastInv, PastTypeOK, Page
  <2>5. ChosenIsTaken'
    BY <2>2, <2>3, <2>4 DEF PastInv, ChosenIsTaken, Seen, World
  <2>6. (\A r \in past.asked : Seen(r.of, r.rows))' /\ Seen(past.listed.of, past.timeline)'
    BY <2>2, <2>4 DEF PastInv, World, Seen
  <2>7. NewestIsForThePage'
    BY <2>2, <2>4 DEF PastInv, NewestIsForThePage, NewestList
  <2>8. QED
    BY <2>2, <2>4, <2>5, <2>6, <2>7 DEF PastInv, PastTypeOK, KeptWasTaken, World
<1>7. QED
  BY <1>1, <1>2, <1>4, <1>5, <1>6

\* The server takes snapshots and drops the oldest; whatever it drops, what it keeps is
\* among the rows of an answer or newer than them.
LEMMA ServerPastStep ==
  ASSUME PastInv, NEW n \in Host, SnapshotSaved(n) \/ SnapshotDropped(n)
  PROVE  PastInv'
<1>1. past' = past /\ looks' = looks
  BY DEF SnapshotSaved, SnapshotDropped
<1>2. CASE SnapshotSaved(n)
  <2> DEFINE new == today + 1
  <2>1. /\ today' = new /\ kept' = [kept EXCEPT ![n] = @ \cup {new}]
        /\ taken' = [taken EXCEPT ![n] = @ \cup {new}]
    BY <1>2 DEF SnapshotSaved
  <2>2. new \in Nat /\ new > today /\ 1 .. today \subseteq 1 .. new /\ new \in 1 .. new
    BY DEF PastInv, PastTypeOK
  <2> HIDE DEF new
  <2>3. KeptWasTaken' /\ kept' \in [Host -> SUBSET Nat] /\ taken' \in [Host -> SUBSET Nat]
    BY <2>1, <2>2 DEF PastInv, PastTypeOK, KeptWasTaken
  <2>4. ASSUME NEW of \in OneAtMost, NEW rows, Seen(of, rows) PROVE Seen(of, rows)'
    <3>1. of \subseteq Host
      BY DEF OneAtMost
    <3>2. \A u \in rows : u < new
      <4>1. today \in Nat /\ rows \subseteq 1 .. today
        BY <2>4 DEF Seen, PastInv, PastTypeOK
      <4>2. QED
        BY <2>2, <4>1
    <3>3. rows \subseteq 1 .. today'
      BY <2>1, <2>2, <2>4 DEF Seen
    <3>4. \A h \in Host : /\ kept'[h] \subseteq kept[h] \cup {new}
                          /\ taken[h] \subseteq taken'[h]
      BY <2>1 DEF PastInv, PastTypeOK
    <3>5. QED
      BY <2>4, <3>1, <3>2, <3>3, <3>4 DEF Seen
  <2>5. (\A r \in past.asked : Seen(r.of, r.rows))' /\ Seen(past.listed.of, past.timeline)'
    BY <1>1, <2>4 DEF PastInv, PastTypeOK, Page, Asked, Shown
  <2>6. ChosenIsTaken'
    BY <1>1, <2>1 DEF PastInv, PastTypeOK, ChosenIsTaken, Page, OneAtMost
  <2>7. QED
    BY <1>1, <2>1, <2>2, <2>3, <2>5, <2>6
       DEF PastInv, PastTypeOK, NewestIsForThePage, NewestRange, NewestList
<1>3. CASE SnapshotDropped(n)
  <2> DEFINE rest == kept[n] \ {Sets!Min(kept[n])}
  <2>1. today' = today /\ taken' = taken /\ kept' = [kept EXCEPT ![n] = rest]
    BY <1>3 DEF SnapshotDropped
  <2>2. rest \subseteq kept[n]
    OBVIOUS
  <2> HIDE DEF rest
  <2>3. /\ kept' \in [Host -> SUBSET Nat] /\ KeptWasTaken'
        /\ \A h \in Host : kept'[h] \subseteq kept[h]
    BY <2>1, <2>2 DEF PastInv, PastTypeOK, KeptWasTaken
  <2>4. ASSUME NEW of \in OneAtMost, NEW rows, Seen(of, rows) PROVE Seen(of, rows)'
    BY <2>1, <2>3, <2>4 DEF Seen, OneAtMost
  <2>5. (\A r \in past.asked : Seen(r.of, r.rows))' /\ Seen(past.listed.of, past.timeline)'
    BY <1>1, <2>4 DEF PastInv, PastTypeOK, Page, Asked, Shown
  <2>6. ChosenIsTaken'
    BY <1>1, <2>1 DEF PastInv, ChosenIsTaken
  <2>7. QED
    BY <1>1, <2>1, <2>3, <2>5, <2>6
       DEF PastInv, PastTypeOK, NewestIsForThePage, NewestRange, NewestList
<1>4. QED
  BY <1>2, <1>3


\* An answer is made of what the server keeps.
LEMMA ServePastStep ==
  ASSUME PastInv, NEW q \in past.asked, getMetricsHistory(q)
  PROVE  PastInv'
<1> PICK n \in q.of :
      past' = [past EXCEPT !.asked = (@ \ {q}) \cup
        {[q EXCEPT !.served = TRUE, !.rows = IF q.kind = "history" THEN {} ELSE kept[n]]}]
  BY DEF getMetricsHistory
<1> DEFINE rows == IF q.kind = "history" THEN {} ELSE kept[n]
           answer == [q EXCEPT !.served = TRUE, !.rows = rows]
           asked == (past.asked \ {q}) \cup {answer}
<1>1. q \in Asked /\ n \in Host /\ q.of = {n}
  BY DEF PastInv, PastTypeOK, Page, Asked, OneAtMost
<1>2. rows \subseteq kept[n] /\ (rows = {} \/ rows = kept[n]) /\ rows \in SUBSET Nat
  BY <1>1 DEF PastInv, PastTypeOK
<1>3. Seen(q.of, rows)
  BY <1>1, <1>2 DEF Seen, PastInv, KeptWasTaken
<1> HIDE DEF rows
<1>4. /\ answer \in Asked /\ answer.kind = q.kind /\ answer.of = q.of /\ answer.range = q.range
      /\ answer.late = q.late /\ answer.rows = rows
  BY <1>1, <1>2 DEF Asked
<1>5. past' = [past EXCEPT !.asked = asked] /\ World
  BY DEF getMetricsHistory, rows
<1> HIDE DEF answer
<1>6. asked \in SUBSET Asked
  BY <1>4 DEF PastInv, PastTypeOK, Page
<1>7. /\ \A r \in asked : \E b \in past.asked :
           r.kind = b.kind /\ r.of = b.of /\ r.range = b.range /\ (r.late <=> b.late)
      /\ \A b \in past.asked : \E r \in asked : r.kind = b.kind /\ (r.late <=> b.late)
  BY <1>4
<1>8. \A r \in asked : Seen(r.of, r.rows)
  BY <1>3, <1>4 DEF PastInv
<1> HIDE DEF asked
<1>9. /\ past' \in Page /\ past'.asked = asked
      /\ past'.host = past.host /\ past'.tab = past.tab /\ past'.range = past.range
      /\ past'.drawn = past.drawn /\ past'.missed = past.missed
      /\ past'.listed = past.listed /\ past'.timeline = past.timeline
      /\ past'.selected = past.selected /\ past'.strange = past.strange
  BY <1>5, <1>6 DEF PastInv, PastTypeOK, Page
<1>10. (\A r \in past.asked : Seen(r.of, r.rows))' /\ Seen(past.listed.of, past.timeline)'
  BY <1>5, <1>8, <1>9 DEF PastInv, World, Seen
<1>11. ChosenIsTaken'
  BY <1>5, <1>9 DEF PastInv, ChosenIsTaken, World
<1>12. past.tab = "history" => NewestRange(past)'
  <2> SUFFICES ASSUME past.tab = "history" PROVE NewestRange(past)'
    OBVIOUS
  <2>1. NewestRange(past)
    BY DEF PastInv, NewestIsForThePage
  <2>2. \A r \in asked : r.kind = "history" /\ ~r.late => r.of = past.host /\ r.range = past.range
    BY <1>7, <2>1 DEF NewestRange
  <2>3. \/ \E r \in asked : r.kind = "history" /\ ~r.late
        \/ "history" \in past.missed \/ past.drawn.late
        \/ past.drawn.of = past.host /\ past.drawn.range = past.range
    BY <1>7, <2>1 DEF NewestRange
  <2>4. QED
    BY <1>9, <2>2, <2>3 DEF NewestRange
<1>13. past.tab = "snapshot" => NewestList(past)'
  <2> SUFFICES ASSUME past.tab = "snapshot" PROVE NewestList(past)'
    OBVIOUS
  <2>1. NewestList(past)
    BY DEF PastInv, NewestIsForThePage
  <2>2. \A r \in asked : r.kind = "snapshot" /\ ~r.late => r.of = past.host
    BY <1>7, <2>1 DEF NewestList
  <2>3. \/ \E r \in asked : r.kind = "snapshot" /\ ~r.late
        \/ past.listed.late \/ past.listed.of = past.host
    BY <1>7, <2>1 DEF NewestList
  <2>4. QED
    BY <1>9, <2>2, <2>3 DEF NewestList
<1>14. QED
  BY <1>5, <1>9, <1>10, <1>11, <1>12, <1>13
     DEF PastInv, PastTypeOK, KeptWasTaken, NewestIsForThePage, World

\* An answer that is drawn is that to the newest request, or is late.
LEMMA HistoryStep ==
  ASSUME PastInv, NEW q \in past.asked, HistoryArrives(q)
  PROVE  PastInv'
<1> DEFINE asked == past.asked \ {q}  label == Label(q)
<1>1. q \in Asked /\ q.kind = "history" /\ World
  BY DEF PastInv, PastTypeOK, Page, HistoryArrives
<1>2. past' = [past EXCEPT !.asked = asked, !.drawn = label]
  BY DEF HistoryArrives, Answered
<1>3. /\ label \in Shown /\ label.of = q.of /\ label.range = q.range /\ label.late = q.late
      /\ asked \in SUBSET Asked /\ asked \subseteq past.asked
      /\ \A r \in past.asked : r.kind = "snapshot" => r \in asked
  BY <1>1 DEF Label, Shown, Asked, PastInv, PastTypeOK, Page
<1> HIDE DEF asked, label
<1>4. /\ past' \in Page /\ past'.asked = asked /\ past'.drawn = label
      /\ past'.host = past.host /\ past'.tab = past.tab /\ past'.range = past.range
      /\ past'.listed = past.listed /\ past'.timeline = past.timeline
      /\ past'.selected = past.selected /\ past'.strange = past.strange
  BY <1>2, <1>3 DEF PastInv, PastTypeOK, Page
<1>5. (\A r \in past.asked : Seen(r.of, r.rows))' /\ Seen(past.listed.of, past.timeline)'
  BY <1>1, <1>3, <1>4 DEF PastInv, World, Seen
<1>6. ChosenIsTaken'
  BY <1>1, <1>4 DEF PastInv, ChosenIsTaken, World
<1>7. past.tab = "history" => NewestRange(past)'
  <2> SUFFICES ASSUME past.tab = "history" PROVE NewestRange(past)'
    OBVIOUS
  <2>1. NewestRange(past)
    BY DEF PastInv, NewestIsForThePage
  <2>2. \A r \in asked : r.kind = "history" /\ ~r.late => r.of = past.host /\ r.range = past.range
    BY <1>3, <2>1 DEF NewestRange
  <2>3. label.late \/ (label.of = past.host /\ label.range = past.range)
    BY <1>1, <1>3, <2>1 DEF NewestRange
  <2>4. QED
    BY <1>4, <2>2, <2>3 DEF NewestRange
<1>8. past.tab = "snapshot" => NewestList(past)'
  BY <1>3, <1>4 DEF PastInv, NewestIsForThePage, NewestList
<1>9. QED
  BY <1>1, <1>4, <1>5, <1>6, <1>7, <1>8
     DEF PastInv, PastTypeOK, KeptWasTaken, NewestIsForThePage, World

\* A list that arrives has been seen; of it the newest is chosen, if nothing was.
LEMMA TimelineStep ==
  ASSUME PastInv, NEW q \in past.asked, TimelineArrives(q)
  PROVE  PastInv'
<1> DEFINE asked == past.asked \ {q}  label == Label(q)  first == past.selected = 0 /\ q.rows # {}
           selected == IF first THEN Sets!Max(q.rows) ELSE past.selected
           odd == past.strange \/ (past.selected = 0 /\ q.of # past.host)
<1>1. q \in Asked /\ q.kind = "snapshot" /\ World /\ Seen(q.of, q.rows)
  BY DEF PastInv, PastTypeOK, Page, TimelineArrives
<1>2. past' = [past EXCEPT !.asked = asked, !.listed = label, !.timeline = q.rows,
                           !.selected = selected, !.strange = odd]
  BY DEF TimelineArrives, Answered
<1>3. /\ label \in Shown /\ label.of = q.of /\ label.late = q.late
      /\ asked \in SUBSET Asked /\ asked \subseteq past.asked
      /\ \A r \in past.asked : r.kind = "history" => r \in asked
  BY <1>1 DEF Label, Shown, Asked, PastInv, PastTypeOK, Page
<1>4. q.rows \in SUBSET Nat /\ q.of \in OneAtMost
  BY <1>1 DEF Asked
<1>5. first => selected \in q.rows
  <2> SUFFICES ASSUME q.rows # {} PROVE Sets!Max(q.rows) \in q.rows
    OBVIOUS
  <2>1. today \in Nat /\ \A y \in q.rows : y <= today
    BY <1>1, <1>4 DEF Seen, PastInv, PastTypeOK
  <2>2. QED
    BY <1>4, <2>1, MaxIsGreatest
<1>6. /\ selected \in Nat /\ odd \in BOOLEAN
      /\ first => selected # 0
      /\ ~first => selected = past.selected
      /\ ~odd => ~past.strange /\ (first => q.of = past.host)
      /\ q.rows # {} => selected # 0
  BY <1>1, <1>4, <1>5 DEF PastInv, PastTypeOK, Page, Seen
<1> HIDE DEF asked, label, selected, odd
<1>7. /\ past' \in Page /\ past'.asked = asked /\ past'.listed = label
      /\ past'.timeline = q.rows /\ past'.selected = selected /\ past'.strange = odd
      /\ past'.host = past.host /\ past'.tab = past.tab /\ past'.range = past.range
      /\ past'.drawn = past.drawn /\ past'.missed = past.missed
  BY <1>2, <1>3, <1>4, <1>6 DEF PastInv, PastTypeOK, Page
<1>8. (\A r \in past.asked : Seen(r.of, r.rows))' /\ Seen(past.listed.of, past.timeline)'
  BY <1>1, <1>3, <1>7 DEF PastInv, World, Seen
<1>9. ChosenIsTaken'
  BY <1>1, <1>5, <1>6, <1>7 DEF PastInv, ChosenIsTaken, World, Seen
<1>10. past.tab = "history" => NewestRange(past)'
  BY <1>3, <1>7 DEF PastInv, NewestIsForThePage, NewestRange
<1>11. past.tab = "snapshot" => NewestList(past)'
  BY <1>1, <1>3, <1>7 DEF PastInv, NewestIsForThePage, NewestList
<1>12. QED
  BY <1>1, <1>7, <1>8, <1>9, <1>10, <1>11
     DEF PastInv, PastTypeOK, KeptWasTaken, NewestIsForThePage, World

\* A list that cannot be loaded is empty; a range that cannot be is known to be missing.
LEMMA FailStep ==
  ASSUME PastInv, NEW q \in past.asked, AskFails(q)
  PROVE  PastInv'
<1> DEFINE asked == past.asked \ {q}  label == Label(q)  none == {}
           missed == IF q.late THEN past.missed ELSE past.missed \cup {q.kind}
<1>1. q \in Asked /\ World
  BY DEF PastInv, PastTypeOK, Page, AskFails
<1>2. /\ label \in Shown /\ label.of = q.of /\ label.late = q.late
      /\ asked \in SUBSET Asked /\ asked \subseteq past.asked
      /\ \A r \in past.asked : r # q => r \in asked
      /\ none \in SUBSET Nat /\ none = {}
      /\ missed \in SUBSET {"history", "snapshot"} /\ past.missed \subseteq missed
      /\ q.late \/ q.kind \in missed
  BY <1>1 DEF Label, Shown, Asked, PastInv, PastTypeOK, Page
<1>4. CASE q.kind = "snapshot"
  <2>1. past' = [past EXCEPT !.asked = asked, !.timeline = none, !.listed = label]
    BY <1>4 DEF AskFails, Answered
  <2> HIDE DEF asked, label, none, missed
  <2>2. /\ past' \in Page /\ past'.asked = asked /\ past'.listed = label
        /\ past'.timeline = none /\ past'.selected = past.selected /\ past'.strange = past.strange
        /\ past'.host = past.host /\ past'.tab = past.tab /\ past'.range = past.range
        /\ past'.drawn = past.drawn /\ past'.missed = past.missed
    BY <1>2, <2>1 DEF PastInv, PastTypeOK, Page
  <2>3. (\A r \in past.asked : Seen(r.of, r.rows))' /\ Seen(past.listed.of, past.timeline)'
    BY <1>1, <1>2, <2>2 DEF PastInv, World, Seen
  <2>4. ChosenIsTaken'
    BY <1>1, <1>2, <2>2 DEF PastInv, ChosenIsTaken, World
  <2>5. past.tab = "history" => NewestRange(past)'
    BY <1>2, <1>4, <2>2 DEF PastInv, NewestIsForThePage, NewestRange
  <2>6. past.tab = "snapshot" => NewestList(past)'
    BY <1>2, <1>4, <2>2 DEF PastInv, NewestIsForThePage, NewestList
  <2>7. QED
    BY <1>1, <2>2, <2>3, <2>4, <2>5, <2>6
       DEF PastInv, PastTypeOK, KeptWasTaken, NewestIsForThePage, World
<1>5. CASE q.kind = "history"
  <2>1. past' = [past EXCEPT !.asked = asked, !.missed = missed]
    BY <1>5 DEF AskFails, Answered
  <2> HIDE DEF asked, label, none, missed
  <2>2. /\ past' \in Page /\ past'.asked = asked /\ past'.missed = missed
        /\ past'.timeline = past.timeline /\ past'.selected = past.selected
        /\ past'.strange = past.strange /\ past'.listed = past.listed
        /\ past'.host = past.host /\ past'.tab = past.tab /\ past'.range = past.range
        /\ past'.drawn = past.drawn
    BY <1>2, <2>1 DEF PastInv, PastTypeOK, Page
  <2>3. (\A r \in past.asked : Seen(r.of, r.rows))' /\ Seen(past.listed.of, past.timeline)'
    BY <1>1, <1>2, <2>2 DEF PastInv, World, Seen
  <2>4. ChosenIsTaken'
    BY <1>1, <2>2 DEF PastInv, ChosenIsTaken, World
  <2>5. past.tab = "history" => NewestRange(past)'
    BY <1>2, <1>5, <2>2 DEF PastInv, NewestIsForThePage, NewestRange
  <2>6. past.tab = "snapshot" => NewestList(past)'
    BY <1>2, <1>5, <2>2 DEF PastInv, NewestIsForThePage, NewestList
  <2>7. QED
    BY <1>1, <2>2, <2>3, <2>4, <2>5, <2>6
       DEF PastInv, PastTypeOK, KeptWasTaken, NewestIsForThePage, World
<1>6. QED
  BY <1>1, <1>4, <1>5 DEF Asked

-----------------------------------------------------------------------------
(* The invariant and the theorem. *)

\* Every step keeps it.
LEMMA PastStep == PastInv /\ [PastNext]_pastVars => PastInv'
<1> SUFFICES ASSUME PastInv, [PastNext]_pastVars PROVE PastInv'
  OBVIOUS
<1>1. CASE PastNext
  BY <1>1, OpenStep, UserStep, ServerPastStep, ServePastStep, HistoryStep, TimelineStep, FailStep
     DEF PastNext
<1>2. CASE UNCHANGED pastVars
  BY <1>2 DEF pastVars, PastInv, PastTypeOK, KeptWasTaken, Seen, ChosenIsTaken,
              NewestIsForThePage, NewestRange, NewestList
<1>3. QED
  BY <1>1, <1>2

\* Nothing is asked for before a node is opened.
LEMMA PastInitInv == PastInit => PastInv
<1> SUFFICES ASSUME PastInit PROVE PastInv
  OBVIOUS
<1>1. past = ClosedPast /\ today = 2 /\ taken = kept
  BY DEF PastInit
<1>2. /\ past \in Page /\ past.asked = {} /\ past.tab = "realtime" /\ past.selected = 0
      /\ past.timeline = {} /\ past.listed.of = {}
  BY <1>1, PastAssumption DEF ClosedPast, Page, OneAtMost, NothingShown, Shown, Everything, Span
<1>3. kept \in [Host -> SUBSET Nat] /\ \A n \in Host : kept[n] \subseteq 1 .. 2
  BY DEF PastInit
<1>4. QED
  BY <1>1, <1>2, <1>3
     DEF PastInit, PastInv, PastTypeOK, KeptWasTaken, Seen, ChosenIsTaken, NewestIsForThePage

\* What a tab that looks back shows is of the node and the range it names, and the
\* snapshot chosen is one of that node's, but for the causes that are named.
THEOREM PastAlwaysAsAsked == PastSpec => []PastIsWhatWasAsked
<1>1. PastInv => PastIsWhatWasAsked
  <2> SUFFICES ASSUME PastInv PROVE PastIsWhatWasAsked
    OBVIOUS
  <2>1. past.tab = "history" /\ Under(past, "history") = {} /\ "history" \notin past.missed
          /\ ~past.drawn.late => past.drawn.of = past.host /\ past.drawn.range = past.range
    BY DEF PastInv, NewestIsForThePage, NewestRange, Under
  <2>2. ASSUME past.tab = "snapshot", Under(past, "snapshot") = {}, ~past.listed.late
        PROVE  past.listed.of = past.host
    BY <2>2 DEF PastInv, NewestIsForThePage, NewestList, Under
  <2>3. ASSUME past.listed.of = past.host, NEW n \in past.host, past.timeline # {}, ~past.strange
        PROVE  /\ past.selected \in taken[n]
               /\ \/ past.selected \in past.timeline
                  \/ past.selected \notin kept[n]
                  \/ past.selected > Sets!Max(past.timeline)
    <3>1. past.selected \in taken[n]
      BY <2>3 DEF PastInv, ChosenIsTaken
    <3>2. past.selected \in kept[n] /\ past.selected \notin past.timeline =>
            \A u \in past.timeline : u < past.selected
      BY <2>3 DEF PastInv, Seen
    <3>3. Sets!Max(past.timeline) \in past.timeline /\ past.timeline \in SUBSET Nat
      <4>1. today \in Nat /\ past.timeline \in SUBSET Nat /\ \A y \in past.timeline : y <= today
        BY DEF PastInv, PastTypeOK, Page, Seen
      <4>2. QED
        BY <2>3, <4>1, MaxIsGreatest
    <3>4. past.selected \in Nat
      BY DEF PastInv, PastTypeOK, Page
    <3>5. QED
      BY <3>1, <3>2, <3>3, <3>4
  <2>4. QED
    BY <2>1, <2>2, <2>3 DEF PastIsWhatWasAsked
<1>2. QED
  BY <1>1, PastInitInv, PastStep, PTL DEF PastSpec

-----------------------------------------------------------------------------
(***************************************************************************)
(* The page of alerts: an answer on its way is what the server has, unless it *)
(* is known to be late or an event is still to come.                       *)
(***************************************************************************)

\* What the bar acts upon, and the tabs it was selected under.
SelectionFits ==
  /\ desk.selected # {} => desk.under = {desk.tab}
  /\ desk.selected = {} => desk.under = {}

\* An answer on its way is what the server has, unless a later load or a change that
\* was answered has made it late, or an event is still to come.
AnswersAreCurrent ==
  bells = 0 => \A l \in asks : l.served /\ ~l.late => l.rows = getAlerts(l.tab, l.offset)

\* A list that is out of date will be loaded, or is known to be.
Coming == asks # {} \/ bells # 0 \/ \E x \in acts : x.kind = "done"
LoadIsComing == behindhand \/ Current \/ Coming

AskFields == {"tab", "offset", "late", "served", "rows"}
ActFields == {"kind", "ids", "batch", "tab", "offset"}

DeskTypeOK ==
  /\ bells \in Nat /\ behindhand \in BOOLEAN
  /\ DOMAIN desk = {"tab", "offset", "rows", "loading", "selected", "under"}
  /\ \A l \in asks : DOMAIN l = AskFields /\ l.late \in BOOLEAN /\ l.served \in BOOLEAN
  /\ \A x \in acts : /\ DOMAIN x = ActFields
                     /\ x.kind = "done" => x.ids = {}
  /\ status \in [Alarm -> AlertStatus]

DeskInv == DeskTypeOK /\ SelectionFits /\ AnswersAreCurrent /\ LoadIsComing

-----------------------------------------------------------------------------
(* Lemmas. *)

\* The excuse goes when the list is right, and comes only with its cause.
LEMMA BehindFits ==
  ASSUME NEW cause \in BOOLEAN, behindhand \in BOOLEAN, BehindIf(cause),
         ~behindhand /\ ~cause => Current' \/ Coming'
  PROVE  behindhand' \in BOOLEAN /\ LoadIsComing'
<1> DEFINE current == Current'
<1>1. behindhand' = ((behindhand \/ cause) /\ ~current)
  BY DEF BehindIf
<1>2. LoadIsComing' = (behindhand' \/ current \/ Coming')
  BY DEF LoadIsComing
<1>3. ~behindhand /\ ~cause => current \/ Coming'
  OBVIOUS
<1> HIDE DEF current
<1>4. QED
  BY <1>1, <1>2, <1>3

\* A load that is made is not late, and those before it are.
LEMMA LoadFits ==
  ASSUME DeskTypeOK, NEW t, NEW offset, load(t, offset)
  PROVE  /\ asks' # {}
         /\ \A l \in asks' : /\ DOMAIN l = AskFields /\ l.late \in BOOLEAN /\ l.served \in BOOLEAN
                             /\ l.served => l.late
<1> DEFINE new == [tab |-> t, offset |-> offset, late |-> FALSE, served |-> FALSE, rows |-> <<>>]
           Late(l) == [l EXCEPT !.late = TRUE]
<1>1. asks' = {Late(l) : l \in asks} \cup {new}
  BY DEF load
<1>2. ~new.served /\ DOMAIN new = AskFields /\ new.late \in BOOLEAN /\ new.served \in BOOLEAN
  BY DEF AskFields
<1>3. \A l \in asks : /\ DOMAIN Late(l) = AskFields
                      /\ Late(l).late = TRUE /\ Late(l).served = l.served
  BY DEF DeskTypeOK, AskFields
<1> HIDE DEF new, Late
<1>4. asks' # {}
  BY <1>1
<1>5. ASSUME NEW l \in asks'
      PROVE  /\ DOMAIN l = AskFields /\ l.late \in BOOLEAN /\ l.served \in BOOLEAN
             /\ l.served => l.late
  <2>1. CASE l = new
    BY <1>2, <2>1
  <2>2. ASSUME NEW m \in asks, l = Late(m)
        PROVE  /\ DOMAIN l = AskFields /\ l.late \in BOOLEAN /\ l.served \in BOOLEAN
               /\ l.served => l.late
    <3>1. l.late = TRUE /\ l.served = m.served /\ DOMAIN l = AskFields
      BY <1>3, <2>2
    <3>2. m.served \in BOOLEAN
      BY DEF DeskTypeOK
    <3>3. QED
      BY <3>1, <3>2
  <2>3. QED
    BY <1>1, <2>1, <2>2
<1>6. QED
  BY <1>4, <1>5

\* The list is that of the alerts in their order, whatever else changes.
LEMMA ListStays ==
  ASSUME UNCHANGED <<status, order>>, NEW t, NEW offset
  PROVE  getAlerts(t, offset)' = getAlerts(t, offset)
BY DEF getAlerts

-----------------------------------------------------------------------------
(* The steps. *)

\* A change at the server: an event comes.
LEMMA StatusStep ==
  ASSUME DeskInv, NEW a \in Alarm, StatusChanges(a)
  PROVE  DeskInv'
<1>1. bells' = bells + 1 /\ UNCHANGED <<desk, asks, acts>> /\ BehindIf(FALSE)
  BY DEF StatusChanges
<1>2. bells' \in Nat /\ bells' # 0
  BY <1>1 DEF DeskInv, DeskTypeOK
<1>3. behindhand' \in BOOLEAN /\ LoadIsComing'
  BY <1>1, <1>2, BehindFits DEF DeskInv, DeskTypeOK, Coming
<1> DEFINE next == IF status[a] = "active" THEN "resolved" ELSE "active"
<1>4. status' = [status EXCEPT ![a] = next] /\ next \in AlertStatus
  BY DEF StatusChanges, AlertStatus
<1> HIDE DEF next
<1>5. status' \in [Alarm -> AlertStatus]
  BY <1>4 DEF DeskInv, DeskTypeOK
<1>6. DeskTypeOK' /\ SelectionFits' /\ AnswersAreCurrent'
  BY <1>1, <1>2, <1>3, <1>5 DEF DeskInv, DeskTypeOK, SelectionFits, AnswersAreCurrent
<1>7. QED
  BY <1>3, <1>6 DEF DeskInv

\* What an action makes of a status is a status.
LEMMA AfterFits == \A kind, st : st \in AlertStatus => After(kind, st) \in AlertStatus
BY DEF After, AlertStatus

\* The answers that have missed a change are late.
LEMMA MissedFits ==
  ASSUME DeskTypeOK, asks' = Missed
  PROVE  \A l \in asks' : /\ DOMAIN l = AskFields /\ l.late \in BOOLEAN /\ l.served \in BOOLEAN
                          /\ l.served => l.late
<1> DEFINE Missing(l) == [l EXCEPT !.late = @ \/ l.served]
<1>1. asks' = {Missing(l) : l \in asks}
  BY DEF Missed
<1>2. ASSUME NEW l \in asks
      PROVE  /\ DOMAIN Missing(l) = AskFields /\ Missing(l).late \in BOOLEAN
             /\ Missing(l).served \in BOOLEAN /\ (Missing(l).served => Missing(l).late)
  <2> DEFINE late == l.late \/ l.served
  <2>1. late \in BOOLEAN /\ (l.served => late) /\ Missing(l) = [l EXCEPT !.late = late]
    BY DEF DeskTypeOK, AskFields
  <2> HIDE DEF late
  <2>2. QED
    BY <2>1 DEF DeskTypeOK, AskFields
<1> HIDE DEF Missing
<1>3. QED
  BY <1>1, <1>2

\* A change at the server: it is known that nobody is told.
LEMMA UnannouncedStep ==
  ASSUME DeskInv, NEW a \in Alarm, Unannounced(a)
  PROVE  DeskInv'
<1>1. asks' = Missed /\ UNCHANGED <<desk, acts, bells>> /\ BehindIf(TRUE)
  BY DEF Unannounced
<1>2. behindhand' \in BOOLEAN /\ LoadIsComing'
  BY <1>1, BehindFits DEF DeskInv, DeskTypeOK
<1>3. \A l \in asks' : /\ DOMAIN l = AskFields /\ l.late \in BOOLEAN /\ l.served \in BOOLEAN
                       /\ l.served => l.late
  BY <1>1, MissedFits DEF DeskInv
<1>4. status' \in [Alarm -> AlertStatus]
  <2>1. CASE UNCHANGED status
    BY <2>1 DEF DeskInv, DeskTypeOK
  <2>2. CASE \E kind \in {"silence", "unsilence"} : status' = [status EXCEPT ![a] = After(kind, @)]
    BY <2>2, AfterFits DEF DeskInv, DeskTypeOK
  <2>3. QED
    BY <2>1, <2>2 DEF Unannounced
<1>5. DeskTypeOK' /\ SelectionFits' /\ AnswersAreCurrent'
  BY <1>1, <1>2, <1>3, <1>4 DEF DeskInv, DeskTypeOK, SelectionFits, AnswersAreCurrent
<1>6. QED
  BY <1>2, <1>5 DEF DeskInv

\* A request for an action: refused, or a change that will be known to be done.
LEMMA ServeActStep ==
  ASSUME DeskInv, NEW x \in acts, ServeAct(x)
  PROVE  DeskInv'
<1> DEFINE none == {}
           done == [x EXCEPT !.kind = "done", !.ids = none]
           refused == acts' = acts \ {x} /\ UNCHANGED <<status, order, asks>>
           granted == /\ \E a \in x.ids : status' = [status EXCEPT ![a] = After(x.kind, @)]
                      /\ acts' = (acts \ {x}) \cup {done}
                      /\ asks' = Missed
<1>1. UNCHANGED <<desk, bells>> /\ BehindIf(FALSE) /\ x.ids # {} /\ (refused \/ granted)
  BY DEF ServeAct
<1>2. DOMAIN done = ActFields /\ done.kind = "done" /\ done.ids = none
  BY DEF DeskInv, DeskTypeOK, ActFields
<1> HIDE DEF done
<1>3. CASE refused
  <2>1. x.kind # "done"
    BY <1>1 DEF DeskInv, DeskTypeOK
  <2>2. Current => Current'
    BY <1>1, <1>3 DEF Current, getAlerts
  <2>3. Coming => Coming'
    BY <1>1, <1>3, <2>1 DEF Coming
  <2>4. behindhand' \in BOOLEAN /\ LoadIsComing'
    BY <1>1, <2>2, <2>3, BehindFits DEF DeskInv, DeskTypeOK, LoadIsComing
  <2>5. DeskTypeOK' /\ SelectionFits'
    BY <1>1, <1>3, <2>4 DEF DeskInv, DeskTypeOK, SelectionFits
  <2>6. AnswersAreCurrent'
    BY <1>1, <1>3 DEF DeskInv, AnswersAreCurrent, getAlerts
  <2>7. QED
    BY <2>4, <2>5, <2>6 DEF DeskInv
<1>4. CASE granted
  <2>1. \A y \in acts' : DOMAIN y = ActFields /\ (y.kind = "done" => y.ids = {})
    BY <1>2, <1>4 DEF DeskInv, DeskTypeOK
  <2>2. \A l \in asks' : /\ DOMAIN l = AskFields /\ l.late \in BOOLEAN /\ l.served \in BOOLEAN
                         /\ l.served => l.late
    BY <1>4, MissedFits DEF DeskInv
  <2>3. status' \in [Alarm -> AlertStatus]
    <3>1. PICK a \in x.ids : status' = [status EXCEPT ![a] = After(x.kind, @)]
      BY <1>4
    <3>2. DEFINE st == After(x.kind, status[a])
    <3>3. a \in Alarm => st \in AlertStatus
      BY AfterFits DEF DeskInv, DeskTypeOK
    <3>4. status' = [status EXCEPT ![a] = st]
      BY <3>1
    <3> HIDE DEF st
    <3>5. QED
      BY <3>3, <3>4 DEF DeskInv, DeskTypeOK
  <2>4. done \in acts'
    BY <1>4
  <2>5. behindhand' \in BOOLEAN /\ LoadIsComing'
    BY <1>1, <1>2, <2>4, BehindFits DEF DeskInv, DeskTypeOK, Coming
  <2>6. DeskTypeOK' /\ SelectionFits' /\ AnswersAreCurrent'
    BY <1>1, <2>1, <2>2, <2>3, <2>5 DEF DeskInv, DeskTypeOK, SelectionFits, AnswersAreCurrent
  <2>7. QED
    BY <2>5, <2>6 DEF DeskInv
<1>5. QED
  BY <1>1, <1>3, <1>4

\* The list is read as it is at this moment.
LEMMA ServeListStep ==
  ASSUME DeskInv, NEW l \in asks, ServeList(l)
  PROVE  DeskInv'
<1> DEFINE rows == getAlerts(l.tab, l.offset)
           served == [l EXCEPT !.served = TRUE, !.rows = rows]
<1>1. /\ asks' = (asks \ {l}) \cup {served}
      /\ UNCHANGED <<status, order, desk, acts, bells, behindhand>>
  BY DEF ServeList
<1> HIDE DEF rows
<1>2. /\ DOMAIN served = AskFields /\ served.late = l.late /\ served.served = TRUE
      /\ served.rows = rows /\ served.tab = l.tab /\ served.offset = l.offset
  BY DEF DeskInv, DeskTypeOK, AskFields
<1>3. \A t, offset : getAlerts(t, offset)' = getAlerts(t, offset)
  BY <1>1 DEF getAlerts
<1> HIDE DEF served
<1>4. DeskTypeOK' /\ SelectionFits'
  BY <1>1, <1>2 DEF DeskInv, DeskTypeOK, SelectionFits
<1>5. AnswersAreCurrent'
  <2>1. \A m \in asks' : bells = 0 /\ m.served /\ ~m.late => m.rows = getAlerts(m.tab, m.offset)
    BY <1>1, <1>2 DEF DeskInv, AnswersAreCurrent, rows
  <2>2. QED
    BY <1>1, <2>1 DEF AnswersAreCurrent, getAlerts
<1>6. LoadIsComing'
  <2>1. asks' # {}
    BY <1>1
  <2>2. QED
    BY <2>1 DEF LoadIsComing, Coming
<1>7. QED
  BY <1>4, <1>5, <1>6 DEF DeskInv

\* An answer is shown: it is right, or it was known not to be the last.
LEMMA AnsweredStep ==
  ASSUME DeskInv, NEW l \in asks, ListAnswered(l)
  PROVE  DeskInv'
<1> DEFINE cause == l.late \/ l.tab # desk.tab \/ l.offset # desk.offset
<1>1. /\ asks' = asks \ {l} /\ UNCHANGED <<status, order, acts, bells>>
      /\ desk' = [desk EXCEPT !.rows = l.rows, !.loading = FALSE]
      /\ BehindIf(cause) /\ l.served
  BY DEF ListAnswered
<1>2. cause \in BOOLEAN
  OBVIOUS
<1>3. /\ DOMAIN desk' = DOMAIN desk /\ desk'.rows = l.rows
      /\ desk'.tab = desk.tab /\ desk'.offset = desk.offset
      /\ desk'.selected = desk.selected /\ desk'.under = desk.under
  BY <1>1 DEF DeskInv, DeskTypeOK
<1>4. ~cause => Current' \/ bells' # 0
  <2> SUFFICES ASSUME ~cause, bells = 0
               PROVE  Current'
    BY <1>1
  <2>1. l.rows = getAlerts(desk.tab, desk.offset)
    BY <1>1 DEF DeskInv, AnswersAreCurrent
  <2>2. QED
    BY <1>1, <1>3, <2>1 DEF Current, getAlerts
<1> HIDE DEF cause
<1>5. behindhand' \in BOOLEAN /\ LoadIsComing'
  BY <1>1, <1>2, <1>4, BehindFits DEF DeskInv, DeskTypeOK, Coming
<1>6. DeskTypeOK' /\ SelectionFits'
  BY <1>1, <1>3, <1>5 DEF DeskInv, DeskTypeOK, SelectionFits
<1>7. AnswersAreCurrent'
  BY <1>1 DEF DeskInv, AnswersAreCurrent, getAlerts
<1>8. QED
  BY <1>5, <1>6, <1>7 DEF DeskInv

\* A load that failed is known to have failed.
LEMMA FailedStep ==
  ASSUME DeskInv, NEW l \in asks, ListFails(l)
  PROVE  DeskInv'
<1>1. /\ asks' = asks \ {l} /\ UNCHANGED <<status, order, acts, bells>>
      /\ desk' = [desk EXCEPT !.loading = FALSE] /\ BehindIf(TRUE)
  BY DEF ListFails
<1>2. behindhand' \in BOOLEAN /\ LoadIsComing'
  BY <1>1, BehindFits DEF DeskInv, DeskTypeOK
<1>3. /\ DOMAIN desk' = DOMAIN desk /\ desk'.tab = desk.tab
      /\ desk'.selected = desk.selected /\ desk'.under = desk.under
  BY <1>1 DEF DeskInv, DeskTypeOK
<1>4. DeskTypeOK' /\ SelectionFits'
  BY <1>1, <1>2, <1>3 DEF DeskInv, DeskTypeOK, SelectionFits
<1>5. AnswersAreCurrent'
  BY <1>1 DEF DeskInv, AnswersAreCurrent, getAlerts
<1>6. QED
  BY <1>2, <1>4, <1>5 DEF DeskInv

\* Whatever makes a load keeps the invariant, if the selection fits and nothing else
\* changes but an action that has come to its end.
LEMMA NewLoadStep ==
  ASSUME DeskInv, NEW t, NEW offset, load(t, offset), BehindIf(FALSE),
         UNCHANGED <<status, order>>, bells' \in Nat, acts' \subseteq acts,
         DOMAIN desk' = DOMAIN desk, SelectionFits'
  PROVE  DeskInv'
<1>1. /\ asks' # {}
      /\ \A l \in asks' : /\ DOMAIN l = AskFields /\ l.late \in BOOLEAN /\ l.served \in BOOLEAN
                          /\ l.served => l.late
  BY LoadFits DEF DeskInv
<1>2. behindhand' \in BOOLEAN /\ LoadIsComing'
  BY <1>1, BehindFits DEF DeskInv, DeskTypeOK, Coming
<1>3. DeskTypeOK' /\ AnswersAreCurrent'
  BY <1>1, <1>2 DEF DeskInv, DeskTypeOK, AnswersAreCurrent
<1>4. QED
  BY <1>2, <1>3 DEF DeskInv

LEMMA BellStep ==
  ASSUME DeskInv, BellRings
  PROVE  DeskInv'
<1>1. /\ bells > 0 /\ bells' = bells - 1 /\ UNCHANGED <<status, order, acts>>
      /\ load(desk.tab, desk.offset) /\ desk' = [desk EXCEPT !.loading = TRUE] /\ BehindIf(FALSE)
  BY DEF BellRings
<1>2. bells' \in Nat
  BY <1>1 DEF DeskInv, DeskTypeOK
<1>3. DOMAIN desk' = DOMAIN desk /\ SelectionFits'
  BY <1>1 DEF DeskInv, DeskTypeOK, SelectionFits
<1>4. QED
  BY <1>1, <1>2, <1>3, NewLoadStep

LEMMA TabStep ==
  ASSUME DeskInv, NEW t \in Tabs, ChooseTab(t)
  PROVE  DeskInv'
<1>1. /\ UNCHANGED <<status, order, acts, bells>> /\ load(t, 0) /\ BehindIf(FALSE)
      /\ desk' = [desk EXCEPT !.tab = t, !.offset = 0, !.loading = TRUE,
                              !.selected = {}, !.under = {}]
  BY DEF ChooseTab, handleTabChange
<1> DEFINE none == {}
<1>2. desk' = [desk EXCEPT !.tab = t, !.offset = 0, !.loading = TRUE,
                           !.selected = none, !.under = none]
  BY <1>1
<1> HIDE DEF none
<1>3. DOMAIN desk' = DOMAIN desk /\ desk'.selected = none /\ desk'.under = none
  BY <1>2 DEF DeskInv, DeskTypeOK
<1>4. SelectionFits'
  BY <1>3 DEF SelectionFits, none
<1>5. QED
  BY <1>1, <1>3, <1>4, NewLoadStep DEF DeskInv, DeskTypeOK

LEMMA TurnStep ==
  ASSUME DeskInv, TurnPage
  PROVE  DeskInv'
<1>1. PICK offset : /\ desk' = [desk EXCEPT !.offset = offset, !.loading = TRUE]
                    /\ load(desk.tab, offset)
  BY DEF TurnPage
<1>2. UNCHANGED <<status, order, acts, bells>> /\ BehindIf(FALSE)
  BY DEF TurnPage
<1>3. DOMAIN desk' = DOMAIN desk /\ SelectionFits'
  BY <1>1 DEF DeskInv, DeskTypeOK, SelectionFits
<1>4. QED
  BY <1>1, <1>2, <1>3, NewLoadStep DEF DeskInv, DeskTypeOK

\* An action that is known to be done is followed by a load.
LEMMA ActDoneStep ==
  ASSUME DeskInv, NEW x \in acts, ActDone(x)
  PROVE  DeskInv'
<1>1. /\ UNCHANGED <<status, order, bells>> /\ acts' = acts \ {x}
      /\ load(x.tab, x.offset) /\ BehindIf(FALSE)
      /\ desk' = [desk EXCEPT !.loading = TRUE]
  BY DEF ActDone
<1>2. /\ DOMAIN desk' = DOMAIN desk /\ desk'.tab = desk.tab
      /\ desk'.selected = desk.selected /\ desk'.under = desk.under
  BY <1>1 DEF DeskInv, DeskTypeOK
<1>3. SelectionFits'
  BY <1>2 DEF DeskInv, SelectionFits
<1>4. QED
  BY <1>1, <1>2, <1>3, NewLoadStep DEF DeskInv, DeskTypeOK

\* One that is not known to be done is not what the list waits for.
LEMMA ActFailsStep ==
  ASSUME DeskInv, NEW x \in acts, ActFails(x)
  PROVE  DeskInv'
<1> DEFINE cause == x.kind = "done"
<1>1. /\ acts' = acts \ {x} /\ UNCHANGED <<status, order, desk, asks, bells>>
      /\ BehindIf(cause)
  BY DEF ActFails
<1>2. Current => Current'
  BY <1>1 DEF Current, getAlerts
<1>3. ~cause /\ Coming => Coming'
  BY <1>1 DEF Coming
<1>4. cause \in BOOLEAN
  OBVIOUS
<1> HIDE DEF cause
<1>5. behindhand' \in BOOLEAN /\ LoadIsComing'
  BY <1>1, <1>2, <1>3, <1>4, BehindFits DEF DeskInv, DeskTypeOK, LoadIsComing
<1>6. DeskTypeOK' /\ SelectionFits' /\ AnswersAreCurrent'
  BY <1>1, <1>5 DEF DeskInv, DeskTypeOK, SelectionFits, AnswersAreCurrent, getAlerts
<1>7. QED
  BY <1>5, <1>6 DEF DeskInv

LEMMA ActStep ==
  ASSUME DeskInv, NEW kind, NEW ids, NEW batch, Act(kind, ids, batch), kind # "done"
  PROVE  DeskInv'
<1> DEFINE new == [kind |-> kind, ids |-> ids, batch |-> batch, tab |-> desk.tab,
                   offset |-> desk.offset]
<1>1. acts' = acts \cup {new} /\ UNCHANGED <<status, order, desk, asks, bells, behindhand>>
  BY DEF Act
<1>2. DOMAIN new = ActFields /\ new.kind # "done"
  BY DEF ActFields
<1> HIDE DEF new
<1>3. DeskTypeOK' /\ SelectionFits' /\ AnswersAreCurrent'
  BY <1>1, <1>2 DEF DeskInv, DeskTypeOK, SelectionFits, AnswersAreCurrent, getAlerts
<1>4. LoadIsComing'
  BY <1>1 DEF DeskInv, LoadIsComing, Coming, Current, getAlerts
<1>5. QED
  BY <1>3, <1>4 DEF DeskInv

\* What is selected is selected under the tab on display.
LEMMA ToggleStep ==
  ASSUME DeskInv, Toggle
  PROVE  DeskInv'
<1>1. PICK next : desk' = [desk EXCEPT !.selected = next,
                             !.under = IF next = {} THEN {} ELSE @ \cup {desk.tab}]
  BY DEF Toggle
<1>2. UNCHANGED <<status, order, asks, acts, bells, behindhand>>
  BY DEF Toggle
<1> DEFINE under == IF next = {} THEN {} ELSE desk.under \cup {desk.tab}
<1>3. desk' = [desk EXCEPT !.selected = next, !.under = under]
  BY <1>1 DEF DeskInv, DeskTypeOK
<1>4. /\ next # {} => under = {desk.tab}
      /\ next = {} => under = {}
  BY DEF DeskInv, SelectionFits
<1> HIDE DEF under
<1>5. /\ DOMAIN desk' = DOMAIN desk /\ desk'.tab = desk.tab /\ desk'.offset = desk.offset
      /\ desk'.rows = desk.rows /\ desk'.selected = next /\ desk'.under = under
  BY <1>3 DEF DeskInv, DeskTypeOK
<1>6. SelectionFits'
  BY <1>4, <1>5 DEF SelectionFits
<1>7. DeskTypeOK' /\ AnswersAreCurrent'
  BY <1>2, <1>5 DEF DeskInv, DeskTypeOK, AnswersAreCurrent, getAlerts
<1>8. LoadIsComing'
  BY <1>2, <1>5 DEF DeskInv, LoadIsComing, Coming, Current, getAlerts
<1>9. QED
  BY <1>6, <1>7, <1>8 DEF DeskInv

LEMMA DeskStarts == DeskInit => DeskInv
<1> SUFFICES ASSUME DeskInit PROVE DeskInv
  OBVIOUS
<1> DEFINE first == [tab |-> "all", offset |-> 0, late |-> FALSE, served |-> FALSE, rows |-> <<>>]
           none == {}
<1>1. /\ asks = {first} /\ acts = {} /\ bells = 0 /\ behindhand = FALSE
      /\ status \in [Alarm -> AlertStatus]
      /\ desk = [tab |-> "all", offset |-> 0, rows |-> <<>>, loading |-> TRUE,
                 selected |-> none, under |-> none]
  BY DEF DeskInit
<1>2. DOMAIN first = AskFields /\ ~first.served /\ first.served \in BOOLEAN /\ first.late \in BOOLEAN
  BY DEF AskFields
<1> HIDE DEF first, none
<1>3. /\ DOMAIN desk = {"tab", "offset", "rows", "loading", "selected", "under"}
      /\ desk.selected = none /\ desk.under = none
  BY <1>1
<1>4. DeskTypeOK
  BY <1>1, <1>2, <1>3 DEF DeskTypeOK
<1>5. SelectionFits
  BY <1>3 DEF SelectionFits, none
<1>6. AnswersAreCurrent /\ LoadIsComing
  BY <1>1, <1>2 DEF AnswersAreCurrent, LoadIsComing, Coming
<1>7. QED
  BY <1>4, <1>5, <1>6 DEF DeskInv

-----------------------------------------------------------------------------
\* Whatever the order of answers, events and clicks: what the bar acts upon was
\* selected under the tab on display, and when nothing is under way the list is the
\* server's, unless the page could know better or nobody was told.
THEOREM AlertsAlwaysTrue == DeskSpec => []AlertsPageIsTrue
<1>1. DeskInit => DeskInv
  BY DeskStarts
<1>2. DeskInv /\ [DeskNext]_deskVars => DeskInv'
  <2> SUFFICES ASSUME DeskInv, [DeskNext]_deskVars
               PROVE  DeskInv'
    OBVIOUS
  <2>1. CASE UNCHANGED deskVars
    BY <2>1 DEF deskVars, DeskInv, DeskTypeOK, SelectionFits, AnswersAreCurrent,
                LoadIsComing, Coming, Current, getAlerts
  <2>2. CASE \E a \in Alarm : StatusChanges(a) \/ Unannounced(a)
    BY <2>2, StatusStep, UnannouncedStep
  <2>3. CASE \E l \in asks : ServeList(l) \/ ListAnswered(l) \/ ListFails(l)
    BY <2>3, ServeListStep, AnsweredStep, FailedStep
  <2>4. CASE \E t \in Tabs : ChooseTab(t)
    BY <2>4, TabStep
  <2>5. CASE BellRings \/ TurnPage \/ Toggle
    BY <2>5, BellStep, TurnStep, ToggleStep
  <2>6. CASE handleBatchSilence \/ \E r \in sorted : handleSilence(r)
    BY <2>6, ActStep DEF handleBatchSilence, handleSilence
  <2>7. CASE \E x \in acts : ServeAct(x) \/ ActDone(x) \/ ActFails(x)
    BY <2>7, ServeActStep, ActDoneStep, ActFailsStep
  <2>8. QED
    BY <2>1, <2>2, <2>3, <2>4, <2>5, <2>6, <2>7 DEF DeskNext
<1>3. DeskInv => AlertsPageIsTrue
  BY DEF DeskInv, SelectionFits, LoadIsComing, Coming, AlertsPageIsTrue,
         SelectionIsOfTheTab, ListIsCurrent
<1>4. QED
  BY <1>1, <1>2, <1>3, PTL DEF DeskSpec

-----------------------------------------------------------------------------
(***************************************************************************)
(* The directory of persons and the page of one person.                    *)
(***************************************************************************)

Someone   == Human \cup {Blank}
TokenRow  == [of : Human, active : BOOLEAN]
Listed    == [id : Nat, active : BOOLEAN]
Texts     == Human \X Nat
SheetType ==
  [at : Human \cup {"away", "directory"}, rows : SUBSET Human, texts : SUBSET Texts,
   issuing : BOOLEAN, loading : BOOLEAN, person : SUBSET Someone, form : Someone,
   tokens : SUBSET Listed, mixed : BOOLEAN]
LoadType ==
  [of : Human, late : BOOLEAN, served : BOOLEAN, is : Someone, tokens : SUBSET Listed]
PostType ==
  [n : 1 .. MaxUnderWay, kind : {"save", "issue", "revoke", "rotate"}, of : Human,
   key : Nat, form : Someone, new : Nat, stage : {"asked", "done"}, here : BOOLEAN,
   jumped : BOOLEAN]
BatchType ==
  [n : 1 .. MaxUnderWay, todo : SUBSET Human, made : SUBSET Texts, here : BOOLEAN]

\* The variables hold what the code keeps in them.
SheetTypeOK ==
  /\ route \in {"directory", "person"}
  /\ data \in [Human -> Someone]
  /\ keys \in Seq(TokenRow)
  /\ sheet \in SheetType
  /\ loads \in SUBSET LoadType /\ IsFiniteSet(loads)
  /\ posts \in SUBSET PostType /\ IsFiniteSet(posts)
  /\ batches \in SUBSET BatchType /\ IsFiniteSet(batches)
  /\ stale \in BOOLEAN /\ spoiled \in BOOLEAN

\* The page of this behaviour is the only one that is opened, and what is under
\* way belongs to it.
OnePage ==
  /\ route = "directory" => ~OnPerson
  /\ route = "person" => sheet.at # "directory" /\ batches = {}
  /\ \A l \in loads : OnPerson /\ (~l.late => l.of = sheet.at)
  /\ \A p \in posts : p.here => OnPerson /\ (~p.jumped => p.of = sheet.at)

\* A list of new tokens names each person once, with a token of their own.
Theirs(list, table) ==
  /\ \A t \in list : t[2] \in DOMAIN table /\ table[t[2]].of = t[1]
  /\ \A t, u \in list : t[1] = u[1] => t = u
IssuedOnce ==
  /\ Theirs(sheet.texts, keys)
  /\ \A b \in batches : Theirs(b.made, keys) /\ \A t \in b.made : t[1] \notin b.todo

\* Until somebody saves what was filled in for another: the rows are their
\* persons' own, and so is all that is on its way to them; the form is for the
\* person of the page, unless an answer for another was taken since, or nothing
\* can be sent yet.
StillOwn ==
  /\ \A h \in Human : data[h] = h
  /\ \A l \in loads : l.served => l.is = l.of
  /\ \A p \in posts : p.kind = "save" => p.form = p.of
  /\ OnPerson /\ ~sheet.mixed /\ sheet.form # sheet.at =>
       /\ sheet.loading \/ sheet.person = {}
       /\ \A p \in posts : p.here => p.jumped
Own == ~spoiled => StillOwn

\* A token that is revoked stays so, and one that was issued stays.
Numbered ==
  /\ \A k \in sheet.tokens : k.id \in DOMAIN keys
  /\ \A l \in loads : \A k \in l.tokens : k.id \in DOMAIN keys
  /\ \A p \in posts :
       /\ p.kind \in {"revoke", "rotate"} => p.key \in DOMAIN keys
       /\ p.kind \in {"revoke", "rotate"} /\ p.stage = "done" => ~keys[p.key].active
       /\ p.kind \in {"issue", "rotate"} /\ p.stage = "done" => p.new \in DOMAIN keys
       /\ p.kind \in {"save", "revoke"} => p.new = 0
       /\ p.kind \in {"save", "issue"} => p.key = 0

\* What the list of the page lacks, a reply on its way will add.
Revokes(p, i) == p.kind \in {"revoke", "rotate"} /\ p.key = i
Adds(p, i)    == p.kind \in {"issue", "rotate"} /\ p.new = i
SeenAs(k, table, waiting) ==
  \/ k.active = table[k.id].active
  \/ k.active /\ \E p \in waiting : Revokes(p, k.id)
Fits(inList, table, h, waiting) ==
  /\ \A i \in DOMAIN table : table[i].of = h =>
       \/ \E p \in waiting : Adds(p, i)
       \/ \E k \in inList : k.id = i /\ SeenAs(k, table, waiting)
  /\ \A k \in inList :
       k.id \in DOMAIN table /\ table[k.id].of = h /\ SeenAs(k, table, waiting)
Underway == {p \in posts : p.here /\ p.stage = "done"}

\* A page that is not known to be out of date is about to be filled, or shows its
\* person as the replies on their way will make it.
Filling == \E l \in loads : ~l.late
AsPromised == /\ sheet.person = {data[sheet.at]}
         /\ Fits(sheet.tokens, keys, sheet.at, Underway)
Follows == OnPerson /\ ~stale => Filling \/ AsPromised

SheetInv == SheetTypeOK /\ OnePage /\ IssuedOnce /\ Own /\ Numbered /\ Follows

-----------------------------------------------------------------------------
(* Lists of tokens. *)

ListOf(h, table) ==
  {[id |-> i, active |-> table[i].active] : i \in {j \in DOMAIN table : table[j].of = h}}

\* The tokens of a person, as the server lists them, fit whatever is on its way.
LEMMA AllFits ==
  ASSUME NEW h, NEW table, NEW waiting
  PROVE  Fits(ListOf(h, table), table, h, waiting)
<1>1. ASSUME NEW i \in DOMAIN table, table[i].of = h
      PROVE  \E k \in ListOf(h, table) : k.id = i /\ SeenAs(k, table, waiting)
  <2> DEFINE k == [id |-> i, active |-> table[i].active]
  <2>1. k \in ListOf(h, table) /\ k.id = i /\ k.active = table[k.id].active
    BY <1>1 DEF ListOf
  <2> HIDE DEF k
  <2>2. QED
    BY <2>1 DEF SeenAs
<1>2. ASSUME NEW k \in ListOf(h, table)
      PROVE  k.id \in DOMAIN table /\ table[k.id].of = h /\ SeenAs(k, table, waiting)
  BY DEF ListOf, SeenAs
<1>3. QED
  BY <1>1, <1>2 DEF Fits

\* A page that is up to date will be so when the replies have come.
LEMMA CurrentIsShown == UpToDate' => AsPromised'
<1> SUFFICES ASSUME UpToDate' PROVE AsPromised'
  OBVIOUS
<1>1. sheet'.tokens = ListOf(sheet'.at, keys')
  BY DEF UpToDate, KeysOf, ListOf
<1>2. Fits(sheet'.tokens, keys', sheet'.at, Underway')
  BY <1>1, AllFits
<1>3. QED
  BY <1>2 DEF UpToDate, AsPromised

\* A list that fits when nothing is on its way is the server's.
LEMMA FitsIsAll ==
  ASSUME NEW h, NEW inList \in SUBSET Listed, Fits(inList, keys, h, {})
  PROVE  inList = KeysOf(h)
<1>1. ASSUME NEW k \in inList PROVE k \in KeysOf(h)
  <2>1. k \in Listed /\ k.id \in DOMAIN keys /\ keys[k.id].of = h /\ k.active = keys[k.id].active
    BY <1>1 DEF Fits, SeenAs
  <2>2. k = [id |-> k.id, active |-> keys[k.id].active]
    BY <2>1 DEF Listed
  <2>3. QED
    BY <2>1, <2>2 DEF KeysOf
<1>2. ASSUME NEW i \in DOMAIN keys, keys[i].of = h
      PROVE  [id |-> i, active |-> keys[i].active] \in inList
  <2>1. PICK k \in inList : k.id = i /\ k.active = keys[k.id].active
    BY <1>2 DEF Fits, SeenAs
  <2>2. k \in Listed
    OBVIOUS
  <2>3. k = [id |-> i, active |-> keys[i].active]
    BY <2>1, <2>2 DEF Listed
  <2>4. QED
    BY <2>1, <2>3
<1>3. \A k \in KeysOf(h) : k \in inList
  BY <1>2 DEF KeysOf
<1>4. QED
  BY <1>1, <1>3

\* The tokens of a person have numbers.
LEMMA KeysAreListed ==
  ASSUME NEW h, keys \in Seq(TokenRow)
  PROVE  KeysOf(h) \in SUBSET Listed /\ \A k \in KeysOf(h) : k.id \in DOMAIN keys
<1>1. \A i \in DOMAIN keys : i \in Nat /\ keys[i].active \in BOOLEAN
  <2> TAKE i \in DOMAIN keys
  <2>1. i \in Nat /\ keys[i] \in TokenRow
    OBVIOUS
  <2>2. QED
    BY <2>1 DEF TokenRow
<1>2. QED
  BY <1>1 DEF KeysOf, Listed

-----------------------------------------------------------------------------
(* The table of tokens. *)

\* Tokens are added and revoked, and never given away or valid again.
Grown(before, after) ==
  /\ after \in Seq(TokenRow) /\ DOMAIN before \subseteq DOMAIN after
  /\ \A i \in DOMAIN before : /\ after[i].of = before[i].of
                              /\ after[i].active => before[i].active
GrownBy(before, after, h) ==
  /\ Grown(before, after)
  /\ Len(after) \in DOMAIN after
  /\ after[Len(after)].of = h /\ after[Len(after)].active
  /\ \A i \in DOMAIN after : i # Len(after) => i \in DOMAIN before

\* A new token is the last one.
LEMMA CreateAdds ==
  ASSUME NEW table \in Seq(TokenRow), NEW h \in Human
  PROVE  LET after == Append(table, [of |-> h, active |-> TRUE])
         IN  /\ GrownBy(table, after, h)
             /\ \A i \in DOMAIN table : after[i] = table[i]
<1> DEFINE r == [of |-> h, active |-> TRUE]
           after == Append(table, r)
<1>1. r \in TokenRow /\ r.of = h /\ r.active
  BY DEF TokenRow
<1> HIDE DEF r
<1>2. /\ after \in Seq(TokenRow) /\ Len(after) = Len(table) + 1 /\ Len(table) \in Nat
      /\ after[Len(after)] = r
      /\ \A i \in 1 .. Len(table) : after[i] = table[i]
  BY <1>1, AppendProperties
<1> HIDE DEF after
<1>3. DOMAIN table = 1 .. Len(table) /\ DOMAIN after = 1 .. Len(after)
  BY <1>2
<1>4. QED
  BY <1>1, <1>2, <1>3 DEF GrownBy, Grown, after, r

\* To revoke a token changes no other.
LEMMA RevokeChangesOne ==
  ASSUME NEW table \in Seq(TokenRow), NEW k \in DOMAIN table
  PROVE  LET after == [table EXCEPT ![k].active = FALSE]
         IN  /\ Grown(table, after) /\ DOMAIN after = DOMAIN table
             /\ ~after[k].active /\ after[k].of = table[k].of
             /\ \A i \in DOMAIN table : i # k => after[i] = table[i]
<1> DEFINE r == [table[k] EXCEPT !.active = FALSE]
           after == [table EXCEPT ![k].active = FALSE]
<1>1. table[k] \in TokenRow
  OBVIOUS
<1>2. r \in TokenRow /\ r.of = table[k].of /\ r.active = FALSE
  BY <1>1 DEF TokenRow
<1>3. after = [table EXCEPT ![k] = r]
  OBVIOUS
<1> HIDE DEF r, after
<1>4. /\ after \in Seq(TokenRow) /\ DOMAIN after = DOMAIN table
      /\ after[k] = r /\ \A i \in DOMAIN table : i # k => after[i] = table[i]
  BY <1>2, <1>3
<1>5. QED
  BY <1>2, <1>4 DEF Grown, after

\* To rotate a token is to revoke it and to issue one to its owner.
LEMMA RotateDoesBoth ==
  ASSUME NEW k \in DOMAIN keys, keys \in Seq(TokenRow)
  PROVE  LET after == rotateKey(k)
         IN  /\ GrownBy(keys, after, keys[k].of)
             /\ ~after[k].active /\ k # Len(after)
             /\ \A i \in DOMAIN keys : i # k => after[i] = keys[i]
<1> DEFINE mid == [keys EXCEPT ![k].active = FALSE]
           h == keys[k].of
           after == Append(mid, [of |-> h, active |-> TRUE])
<1>1. /\ Grown(keys, mid) /\ DOMAIN mid = DOMAIN keys /\ ~mid[k].active
      /\ \A i \in DOMAIN keys : i # k => mid[i] = keys[i]
  BY RevokeChangesOne
<1>2. keys[k] \in TokenRow
  OBVIOUS
<1>3. h \in Human /\ mid \in Seq(TokenRow)
  BY <1>1, <1>2 DEF TokenRow, Grown
<1> HIDE DEF mid, h
<1>4. /\ GrownBy(mid, after, h)
      /\ \A i \in DOMAIN mid : after[i] = mid[i]
  BY <1>3, CreateAdds
<1>5. after = rotateKey(k)
  BY DEF rotateKey, mid, h
<1> HIDE DEF after
<1>6. k # Len(after)
  BY <1>1, <1>4 DEF GrownBy
<1>7. QED
  BY <1>1, <1>4, <1>5, <1>6 DEF GrownBy, Grown, h

\* A list of new tokens stays right while the table grows.
LEMMA TheirsStay ==
  ASSUME NEW list, NEW before, NEW after, Grown(before, after), Theirs(list, before)
  PROVE  Theirs(list, after)
BY DEF Grown, Theirs

-----------------------------------------------------------------------------
(* The types. *)

\* A number is free as long as fewer than MaxUnderWay are in use.
LEMMA NumberIsFree ==
  ASSUME NEW S, IsFiniteSet(S), Cardinality(S) < MaxUnderWay
  PROVE  Number(S) \in 1 .. MaxUnderWay
<1> DEFINE I == 1 .. MaxUnderWay
           used == {x.n : x \in S}
<1>1. IsFiniteSet(used) /\ Cardinality(used) <= Cardinality(S)
  <2> DEFINE f == [x \in S |-> x.n]
  <2>1. f \in Surjection(S, used)
    BY DEF Surjection
  <2>2. QED
    BY <2>1, FS_Surjection
<1>2. IsFiniteSet(I) /\ Cardinality(I) = MaxUnderWay
  BY SheetAssumption, FS_Interval
<1>3. ~(I \subseteq used)
  <2>1. SUFFICES ASSUME I \subseteq used PROVE FALSE
    OBVIOUS
  <2>2. Cardinality(I) <= Cardinality(used)
    BY <1>1, <2>1, FS_Subset
  <2>3. Cardinality(used) \in Nat /\ Cardinality(S) \in Nat /\ MaxUnderWay \in Nat
    BY <1>1, FS_CardinalityType, SheetAssumption
  <2> HIDE DEF used, I
  <2>4. QED
    BY <1>1, <1>2, <2>2, <2>3
<1>4. \E n \in I : \A x \in S : x.n # n
  BY <1>3
<1>5. QED
  BY <1>4 DEF Number

\* The requests under way are few enough for one more to have a number.
LEMMA AskingLeavesANumber ==
  ASSUME SheetTypeOK, MayAsk
  PROVE  Number(posts) \in 1 .. MaxUnderWay
<1>1. /\ IsFiniteSet(posts) /\ IsFiniteSet(loads)
      /\ Cardinality(loads) + Cardinality(posts) < MaxUnderWay
  BY DEF SheetTypeOK, MayAsk
<1>2. Cardinality(posts) \in Nat /\ Cardinality(loads) \in Nat /\ MaxUnderWay \in Nat
  BY <1>1, FS_CardinalityType, SheetAssumption
<1>3. Cardinality(posts) < MaxUnderWay
  BY <1>1, <1>2
<1>4. QED
  BY <1>1, <1>3, NumberIsFree

\* One more load makes the others late.
LEMMA OneMoreTyped ==
  ASSUME NEW h \in Human, NEW before \in SUBSET LoadType, IsFiniteSet(before)
  PROVE  /\ OneMore(h, before) \in SUBSET LoadType /\ IsFiniteSet(OneMore(h, before))
         /\ \A l \in OneMore(h, before) : ~l.late => l.of = h
         /\ \E l \in OneMore(h, before) : ~l.late
         /\ \A l \in OneMore(h, before) : \/ ~l.served /\ l.tokens = {}
                                          \/ \E m \in before : /\ l.served = m.served /\ l.of = m.of
                                                               /\ l.is = m.is /\ l.tokens = m.tokens
<1> DEFINE new == [of |-> h, late |-> FALSE, served |-> FALSE, is |-> Blank, tokens |-> {}]
           old == {[l EXCEPT !.late = TRUE] : l \in before}
<1>1. new \in LoadType /\ new.of = h /\ ~new.late /\ ~new.served /\ new.tokens = {}
  BY DEF LoadType, Someone
<1>2. ASSUME NEW m \in before
      PROVE  LET l == [m EXCEPT !.late = TRUE]
             IN  /\ l \in LoadType /\ l.late
                 /\ l.served = m.served /\ l.of = m.of /\ l.is = m.is /\ l.tokens = m.tokens
  <2>1. m \in LoadType
    OBVIOUS
  <2>2. QED
    BY <2>1 DEF LoadType
<1>3. IsFiniteSet(old)
  <2> DEFINE f == [l \in before |-> [l EXCEPT !.late = TRUE]]
  <2>1. f \in Surjection(before, old)
    BY DEF Surjection
  <2>2. QED
    BY <2>1, FS_Surjection
<1>4. OneMore(h, before) = old \cup {new}
  BY DEF OneMore
<1> HIDE DEF new
<1>5. old \in SUBSET LoadType /\ \A l \in old : l.late
  BY <1>2
<1>6. IsFiniteSet(old \cup {new})
  BY <1>3, FS_AddElement
<1>7. \A l \in old : \E m \in before : /\ l.served = m.served /\ l.of = m.of
                                       /\ l.is = m.is /\ l.tokens = m.tokens
  BY <1>2
<1> HIDE DEF old
<1>8. QED
  BY <1>1, <1>4, <1>5, <1>6, <1>7


-----------------------------------------------------------------------------
(* Steps that end away from the pages of persons. *)

\* Away from the pages of persons the invariant says little.
LEMMA OffThePage ==
  ASSUME SheetTypeOK', IssuedOnce', Numbered', ~OnPerson', loads' = {},
         \A p \in posts' : ~p.here,
         route' = "person" => sheet'.at # "directory" /\ batches' = {},
         ~spoiled' => /\ \A h \in Human : data'[h] = h
                      /\ \A p \in posts' : p.kind = "save" => p.form = p.of
  PROVE  SheetInv'
<1>1. OnePage'
  BY DEF OnePage
<1>2. Own'
  BY DEF Own, StillOwn
<1>3. Follows'
  BY DEF Follows
<1>4. QED
  BY <1>1, <1>2, <1>3 DEF SheetInv

\* Which pages are no person's.
LEMMA OtherPages == "away" \notin Human /\ "directory" \notin Human /\ Blank \notin Human
BY SheetAssumption DEF Blank

\* A page that is opened is empty.
LEMMA EmptySheet ==
  ASSUME NEW at \in Human \cup {"away", "directory"}, NEW busy \in BOOLEAN
  PROVE  LET s == [NoSheet EXCEPT !.at = at, !.loading = busy]
         IN  /\ s \in SheetType /\ s.at = at /\ s.loading = busy /\ s.texts = {}
             /\ s.tokens = {} /\ s.person = {} /\ ~s.mixed
BY DEF NoSheet, SheetType, Someone

\* Away from the pages of persons nothing is loaded and no reply finds its page.
LEMMA NothingComes ==
  ASSUME SheetInv, ~OnPerson
  PROVE  loads = {} /\ \A p \in posts : ~p.here
BY DEF SheetInv, OnePage

\* The directory is opened.
LEMMA OpenDirectoryKeeps ==
  ASSUME SheetInv, ~spoiled, OpenDirectory
  PROVE  SheetInv'
<1>1. /\ route = "directory" /\ sheet.at = "away"
      /\ sheet' = [NoSheet EXCEPT !.at = "directory", !.loading = TRUE]
      /\ route' = route /\ data' = data /\ keys' = keys /\ loads' = loads /\ posts' = posts
      /\ batches' = batches /\ stale' = stale /\ spoiled' = spoiled
  BY DEF OpenDirectory, Tables, Requests
<1>2. /\ sheet' \in SheetType /\ sheet'.at = "directory"
      /\ sheet'.texts = {} /\ sheet'.tokens = {}
  BY <1>1, EmptySheet
<1>3. ~OnPerson /\ ~OnPerson'
  BY <1>1, <1>2, OtherPages DEF OnPerson
<1>4. loads = {} /\ \A p \in posts : ~p.here
  BY <1>3, NothingComes
<1>5. SheetTypeOK'
  BY <1>1, <1>2 DEF SheetInv, SheetTypeOK
<1>6. IssuedOnce' /\ Numbered'
  <2>1. Theirs(sheet'.texts, keys')
    BY <1>2 DEF Theirs
  <2>2. QED
    BY <1>1, <1>2, <2>1 DEF SheetInv, IssuedOnce, Numbered
<1>7. /\ \A h \in Human : data'[h] = h
      /\ \A p \in posts' : p.kind = "save" => p.form = p.of
  BY <1>1 DEF SheetInv, Own, StillOwn
<1>8. QED
  BY <1>1, <1>3, <1>4, <1>5, <1>6, <1>7, OffThePage

\* The directory has its rows.
LEMMA DirectoryArrivesKeeps ==
  ASSUME SheetInv, ~spoiled, DirectoryArrives
  PROVE  SheetInv'
<1>1. PICK some \in SUBSET Human : sheet' = [sheet EXCEPT !.rows = some, !.loading = FALSE]
  BY DEF DirectoryArrives
<1>2. /\ sheet.at = "directory"
      /\ route' = route /\ data' = data /\ keys' = keys /\ loads' = loads /\ posts' = posts
      /\ batches' = batches /\ stale' = stale /\ spoiled' = spoiled
  BY DEF DirectoryArrives, Tables, Requests
<1>3. sheet \in SheetType
  BY DEF SheetInv, SheetTypeOK
<1>4. /\ sheet' \in SheetType /\ sheet'.at = "directory"
      /\ sheet'.texts = sheet.texts /\ sheet'.tokens = sheet.tokens
  BY <1>1, <1>2, <1>3 DEF SheetType
<1>5. ~OnPerson /\ ~OnPerson'
  BY <1>2, <1>4, OtherPages DEF OnPerson
<1>6. loads = {} /\ \A p \in posts : ~p.here
  BY <1>5, NothingComes
<1>7. SheetTypeOK'
  BY <1>2, <1>4 DEF SheetInv, SheetTypeOK
<1>8. IssuedOnce' /\ Numbered'
  BY <1>2, <1>4 DEF SheetInv, IssuedOnce, Numbered
<1>9. /\ \A h \in Human : data'[h] = h
      /\ \A p \in posts' : p.kind = "save" => p.form = p.of
  BY <1>2 DEF SheetInv, Own, StillOwn
<1>10. route' = "person" => sheet'.at # "directory" /\ batches' = {}
  BY <1>2, <1>4 DEF SheetInv, OnePage
<1>11. QED
  BY <1>2, <1>5, <1>6, <1>7, <1>8, <1>9, <1>10, OffThePage

\* Everything under way loses its page.
LEMMA LeaveKeeps ==
  ASSUME SheetInv, ~spoiled, Leave
  PROVE  SheetInv'
<1> DEFINE asked == {q \in posts : q.stage = "asked"}
<1>1. /\ sheet' = NoSheet /\ loads' = {} /\ stale' = FALSE
      /\ posts' = {[p EXCEPT !.here = FALSE] : p \in asked}
      /\ batches' = {[b EXCEPT !.here = FALSE] : b \in batches}
      /\ route' = route /\ data' = data /\ keys' = keys /\ spoiled' = spoiled
  BY DEF Leave, Tables
<1>2. /\ sheet' \in SheetType /\ sheet'.at = "away" /\ sheet'.texts = {} /\ sheet'.tokens = {}
  BY <1>1 DEF NoSheet, SheetType, Someone
<1>3. ~OnPerson'
  BY <1>2, OtherPages DEF OnPerson
<1>4. /\ posts' \in SUBSET PostType
      /\ \A q \in posts' : ~q.here /\ \E p \in posts : /\ q.kind = p.kind /\ q.key = p.key /\ q.stage = p.stage
                                                       /\ q.new = p.new /\ q.form = p.form /\ q.of = p.of
  <2>1. ASSUME NEW p \in asked
        PROVE  LET q == [p EXCEPT !.here = FALSE]
               IN  /\ q \in PostType /\ ~q.here /\ q.kind = p.kind /\ q.key = p.key /\ q.stage = p.stage
                   /\ q.new = p.new /\ q.form = p.form /\ q.of = p.of
    <3>1. p \in PostType
      BY DEF SheetInv, SheetTypeOK
    <3>2. QED
      BY <3>1 DEF PostType
  <2>2. asked \subseteq posts
    OBVIOUS
  <2> HIDE DEF asked
  <2>3. ASSUME NEW q \in posts'
        PROVE  /\ q \in PostType /\ ~q.here
               /\ \E p \in posts : /\ q.kind = p.kind /\ q.key = p.key /\ q.stage = p.stage
                                  /\ q.new = p.new /\ q.form = p.form /\ q.of = p.of
    <3>1. PICK p \in asked : q = [p EXCEPT !.here = FALSE]
      BY <1>1, <2>3
    <3>2. /\ q \in PostType /\ ~q.here /\ q.kind = p.kind /\ q.key = p.key /\ q.stage = p.stage
          /\ q.new = p.new /\ q.form = p.form /\ q.of = p.of
      BY <2>1, <3>1
    <3>3. QED
      BY <2>2, <3>2
  <2>4. QED
    BY <2>3
<1>5. IsFiniteSet(posts')
  <2> DEFINE f == [p \in asked |-> [p EXCEPT !.here = FALSE]]
  <2>1. IsFiniteSet(asked)
    BY FS_Subset DEF SheetInv, SheetTypeOK
  <2>2. f \in Surjection(asked, posts')
    BY <1>1 DEF Surjection
  <2>3. QED
    BY <2>1, <2>2, FS_Surjection
<1>6. /\ batches' \in SUBSET BatchType
      /\ \A c \in batches' : \E b \in batches : c.made = b.made /\ c.todo = b.todo
  <2>1. ASSUME NEW b \in batches
        PROVE  LET c == [b EXCEPT !.here = FALSE]
               IN  c \in BatchType /\ c.made = b.made /\ c.todo = b.todo
    <3>1. b \in BatchType
      BY DEF SheetInv, SheetTypeOK
    <3>2. QED
      BY <3>1 DEF BatchType
  <2>2. QED
    BY <1>1, <2>1
<1>7. IsFiniteSet(batches')
  <2> DEFINE f == [b \in batches |-> [b EXCEPT !.here = FALSE]]
  <2>1. IsFiniteSet(batches)
    BY DEF SheetInv, SheetTypeOK
  <2>2. f \in Surjection(batches, batches')
    BY <1>1 DEF Surjection
  <2>3. QED
    BY <2>1, <2>2, FS_Surjection
<1>8. SheetTypeOK'
  <2>1. IsFiniteSet(loads')
    BY <1>1, FS_EmptySet
  <2>2. QED
    BY <1>1, <1>2, <1>4, <1>5, <1>6, <1>7, <2>1 DEF SheetInv, SheetTypeOK
<1>9. IssuedOnce'
  <2>1. Theirs(sheet'.texts, keys')
    BY <1>2 DEF Theirs
  <2>2. QED
    BY <1>1, <1>6, <2>1 DEF SheetInv, IssuedOnce
<1>10. Numbered'
  <2>1. \A p \in posts' : /\ p.kind \in {"revoke", "rotate"} => p.key \in DOMAIN keys
                          /\ p.kind \in {"revoke", "rotate"} /\ p.stage = "done" => ~keys[p.key].active
                          /\ p.kind \in {"issue", "rotate"} /\ p.stage = "done" => p.new \in DOMAIN keys
                          /\ p.kind \in {"save", "revoke"} => p.new = 0
                          /\ p.kind \in {"save", "issue"} => p.key = 0
    BY <1>4 DEF SheetInv, Numbered
  <2>2. QED
    BY <1>1, <1>2, <2>1 DEF Numbered
<1>11. /\ \A h \in Human : data'[h] = h
       /\ \A p \in posts' : p.kind = "save" => p.form = p.of
  BY <1>1, <1>4 DEF SheetInv, Own, StillOwn
<1>12. route' = "person" => sheet'.at # "directory" /\ batches' = {}
  BY <1>1, <1>2, <1>6 DEF SheetInv, OnePage
<1>13. QED
  BY <1>1, <1>3, <1>4, <1>8, <1>9, <1>10, <1>11, <1>12, OffThePage


\* The directory issues tokens for its rows.
LEMMA BatchStartKeeps ==
  ASSUME SheetInv, ~spoiled, handleBatchTokenGenerate
  PROVE  SheetInv'
<1> DEFINE b == [n |-> Number(batches), todo |-> sheet.rows, made |-> {}, here |-> TRUE]
<1>1. /\ sheet.at = "directory" /\ Cardinality(batches) < MaxUnderWay
      /\ sheet' = [sheet EXCEPT !.issuing = TRUE] /\ batches' = batches \cup {b}
      /\ route' = route /\ data' = data /\ keys' = keys /\ loads' = loads /\ posts' = posts
      /\ stale' = stale /\ spoiled' = spoiled
  BY DEF handleBatchTokenGenerate, Tables
<1>2. sheet \in SheetType /\ IsFiniteSet(batches)
  BY DEF SheetInv, SheetTypeOK
<1>3. /\ sheet' \in SheetType /\ sheet'.at = "directory"
      /\ sheet'.texts = sheet.texts /\ sheet'.tokens = sheet.tokens
  BY <1>1, <1>2 DEF SheetType
<1>4. b \in BatchType /\ b.made = {}
  <2>1. sheet.rows \in SUBSET Human
    BY <1>2 DEF SheetType
  <2>2. Number(batches) \in 1 .. MaxUnderWay
    BY <1>1, <1>2, NumberIsFree
  <2>3. QED
    BY <2>1, <2>2 DEF BatchType
<1> HIDE DEF b
<1>5. ~OnPerson /\ ~OnPerson'
  BY <1>1, <1>3, OtherPages DEF OnPerson
<1>6. loads = {} /\ \A p \in posts : ~p.here
  BY <1>5, NothingComes
<1>7. SheetTypeOK'
  <2>1. IsFiniteSet(batches')
    BY <1>1, <1>2, FS_AddElement
  <2>2. QED
    BY <1>1, <1>3, <1>4, <2>1 DEF SheetInv, SheetTypeOK
<1>8. IssuedOnce'
  <2>1. Theirs(b.made, keys) /\ \A t \in b.made : t[1] \notin b.todo
    BY <1>4 DEF Theirs
  <2>2. QED
    BY <1>1, <1>3, <2>1 DEF SheetInv, IssuedOnce
<1>9. Numbered'
  BY <1>1, <1>3 DEF SheetInv, Numbered
<1>10. /\ \A h \in Human : data'[h] = h
       /\ \A p \in posts' : p.kind = "save" => p.form = p.of
  BY <1>1 DEF SheetInv, Own, StillOwn
<1>11. ~(route' = "person")
  BY <1>1 DEF SheetInv, OnePage
<1>12. QED
  BY <1>1, <1>5, <1>6, <1>7, <1>8, <1>9, <1>10, <1>11, OffThePage

\* What is known of the numbers stays known while the table grows.
LEMMA NumberedStays ==
  ASSUME SheetInv, Grown(keys, keys'), sheet'.tokens = sheet.tokens, loads' = loads, posts' = posts
  PROVE  Numbered'
BY DEF SheetInv, Numbered, Grown

\* A token is issued by the loop, and after the last one the list is shown.
LEMMA IssueOneKeeps ==
  ASSUME SheetInv, ~spoiled, NEW b \in batches, NEW h \in Human, IssueOne(b, h)
  PROVE  SheetInv'
<1>1. PICK issued \in {keys, createKey(h)}, answered \in BOOLEAN :
        LET made == IF answered THEN b.made \cup {<<h, Len(issued)>>} ELSE b.made
            over == b.todo = {h}
        IN  /\ Len(issued) <= MaxKeys /\ keys' = issued
            /\ issued = keys => ~answered
            /\ batches' = (batches \ {b}) \cup
                 IF over THEN {} ELSE {[b EXCEPT !.todo = @ \ {h}, !.made = made]}
            /\ sheet' = IF over /\ b.here
                          THEN [sheet EXCEPT !.texts = made, !.issuing = FALSE] ELSE sheet
  BY DEF IssueOne
<1> DEFINE made == IF answered THEN b.made \cup {<<h, Len(issued)>>} ELSE b.made
           c == [b EXCEPT !.todo = @ \ {h}, !.made = made]
           s == [sheet EXCEPT !.texts = made, !.issuing = FALSE]
<1>2. /\ h \in b.todo /\ route' = route /\ data' = data /\ loads' = loads /\ posts' = posts
      /\ stale' = stale /\ spoiled' = spoiled
  BY DEF IssueOne
<1>3. /\ keys' = issued /\ (issued = keys => ~answered)
      /\ \/ batches' = batches \ {b}
         \/ batches' = (batches \ {b}) \cup {c}
      /\ sheet' = sheet \/ sheet' = s
  BY <1>1
<1>4. /\ sheet \in SheetType /\ b \in BatchType /\ keys \in Seq(TokenRow)
      /\ Theirs(b.made, keys) /\ (\A t \in b.made : t[1] \notin b.todo)
      /\ Theirs(sheet.texts, keys)
  BY DEF SheetInv, SheetTypeOK, IssuedOnce
<1>5. /\ Grown(keys, issued)
      /\ answered => Len(issued) \in DOMAIN issued /\ issued[Len(issued)].of = h
  <2>1. CASE issued = keys
    BY <1>3, <1>4, <2>1 DEF Grown
  <2>2. CASE issued = createKey(h)
    BY <1>4, <2>2, CreateAdds DEF GrownBy, createKey
  <2>3. QED
    BY <2>1, <2>2
<1>6. made \in SUBSET Texts /\ Theirs(made, issued) /\ \A t \in made : t[1] \in {h} \/ t[1] \notin b.todo
  <2>1. Theirs(b.made, issued)
    BY <1>4, <1>5, TheirsStay
  <2>2. b.made \in SUBSET Texts
    BY <1>4 DEF BatchType
  <2>3. CASE ~answered
    BY <1>4, <2>1, <2>2, <2>3
  <2>4. CASE answered
    <3> DEFINE t == <<h, Len(issued)>>
    <3>1. t \in Texts /\ t[1] = h /\ t[2] = Len(issued)
      BY <1>5, <2>4 DEF Texts, Grown
    <3>2. made = b.made \cup {t}
      BY <2>4
    <3> HIDE DEF t, made
    <3>3. Theirs(made, issued)
      <4>1. ASSUME NEW u \in made PROVE u[2] \in DOMAIN issued /\ issued[u[2]].of = u[1]
        BY <1>5, <2>1, <2>4, <3>1, <3>2 DEF Theirs
      <4>2. ASSUME NEW u \in made, NEW v \in made, u[1] = v[1] PROVE u = v
        <5>1. \A w \in b.made : w[1] # t[1]
          BY <1>2, <1>4, <3>1
        <5>2. QED
          BY <2>1, <3>2, <4>2, <5>1 DEF Theirs
      <4>3. QED
        BY <4>1, <4>2 DEF Theirs
    <3>4. QED
      BY <1>4, <2>2, <3>1, <3>2, <3>3
  <2>5. QED
    BY <2>3, <2>4
<1> HIDE DEF made
<1>7. c \in BatchType /\ c.made = made /\ c.todo = b.todo \ {h}
  BY <1>4, <1>6 DEF BatchType
<1>8. /\ s \in SheetType /\ s.at = sheet.at /\ s.texts = made /\ s.tokens = sheet.tokens
  BY <1>4, <1>6 DEF SheetType
<1> HIDE DEF c, s
<1>9. /\ sheet' \in SheetType /\ sheet'.at = sheet.at /\ sheet'.tokens = sheet.tokens
      /\ sheet'.texts = sheet.texts \/ sheet'.texts = made
  BY <1>3, <1>4, <1>8
<1>10. ~OnPerson /\ ~OnPerson' /\ ~(route' = "person")
  <2>1. route \in {"directory", "person"} /\ batches # {}
    BY DEF SheetInv, SheetTypeOK
  <2>2. route = "directory" /\ ~OnPerson
    BY <2>1 DEF SheetInv, OnePage
  <2>3. QED
    BY <1>2, <1>9, <2>2 DEF OnPerson
<1>11. loads = {} /\ \A p \in posts : ~p.here
  BY <1>10, NothingComes
<1>12. SheetTypeOK'
  <2>1. IsFiniteSet(batches')
    <3>1. IsFiniteSet(batches \ {b})
      BY FS_Subset DEF SheetInv, SheetTypeOK
    <3>2. IsFiniteSet((batches \ {b}) \cup {c})
      BY <3>1, FS_AddElement
    <3>3. QED
      BY <1>3, <3>1, <3>2
  <2>2. batches' \in SUBSET BatchType
    BY <1>3, <1>7 DEF SheetInv, SheetTypeOK
  <2>3. keys' \in Seq(TokenRow)
    BY <1>3, <1>5 DEF Grown
  <2>4. QED
    BY <1>2, <1>9, <2>1, <2>2, <2>3 DEF SheetInv, SheetTypeOK
<1>13. IssuedOnce'
  <2>1. Theirs(sheet'.texts, keys')
    BY <1>3, <1>4, <1>5, <1>6, <1>9, TheirsStay
  <2>2. ASSUME NEW d \in batches'
        PROVE  Theirs(d.made, keys') /\ \A t \in d.made : t[1] \notin d.todo
    <3>1. CASE d \in batches
      <4>1. Theirs(d.made, keys) /\ \A t \in d.made : t[1] \notin d.todo
        BY <3>1 DEF SheetInv, IssuedOnce
      <4>2. QED
        BY <1>3, <1>5, <4>1, TheirsStay
    <3>2. CASE d = c
      BY <1>3, <1>6, <1>7, <3>2
    <3>3. QED
      BY <1>3, <3>1, <3>2
  <2>3. QED
    BY <2>1, <2>2 DEF IssuedOnce
<1>14. Numbered'
  BY <1>2, <1>3, <1>5, <1>9, NumberedStays
<1>15. /\ \A k \in Human : data'[k] = k
       /\ \A p \in posts' : p.kind = "save" => p.form = p.of
  BY <1>2 DEF SheetInv, Own, StillOwn
<1>16. QED
  BY <1>2, <1>10, <1>11, <1>12, <1>13, <1>14, <1>15, OffThePage


-----------------------------------------------------------------------------
(* Steps of the page of a person. *)

\* Own is kept where no row and no change under way is touched and the page is
\* not yet usable, or shows what was for its person.
LEMMA OwnStays ==
  ASSUME SheetInv, ~spoiled, data' = data,
         \A l \in loads' : l.served => l.is = l.of,
         \A p \in posts' : p.kind = "save" => p.form = p.of,
         OnPerson' /\ ~sheet'.mixed /\ sheet'.form # sheet'.at =>
           /\ sheet'.loading \/ sheet'.person = {}
           /\ \A p \in posts' : p.here => p.jumped
  PROVE  Own'
BY DEF SheetInv, Own, StillOwn

\* The page of a person is opened.
LEMMA OpenPersonKeeps ==
  ASSUME SheetInv, ~spoiled, NEW h \in Human, OpenPerson(h)
  PROVE  SheetInv'
<1>1. /\ route = "person" /\ sheet.at = "away" /\ loads' = OneMore(h, {})
      /\ sheet' = [NoSheet EXCEPT !.at = h, !.loading = TRUE]
      /\ route' = route /\ data' = data /\ keys' = keys /\ posts' = posts
      /\ batches' = batches /\ spoiled' = spoiled
  BY DEF OpenPerson, Tables
<1>2. /\ sheet' \in SheetType /\ sheet'.at = h /\ sheet'.loading
      /\ sheet'.texts = {} /\ sheet'.tokens = {}
  BY <1>1, EmptySheet
<1>3. ~OnPerson /\ OnPerson'
  BY <1>1, <1>2, OtherPages DEF OnPerson
<1>4. \A p \in posts : ~p.here
  BY <1>3, NothingComes
<1>5. /\ loads' \in SUBSET LoadType /\ IsFiniteSet(loads')
      /\ \A l \in loads' : (~l.late => l.of = h) /\ ~l.served /\ l.tokens = {}
      /\ \E l \in loads' : ~l.late
  <2>1. IsFiniteSet({}) /\ {} \in SUBSET LoadType
    BY FS_EmptySet
  <2>2. QED
    BY <1>1, <2>1, OneMoreTyped
<1>6. stale' \in BOOLEAN
  BY DEF OpenPerson, StaleBy
<1>7. SheetTypeOK'
  BY <1>1, <1>2, <1>5, <1>6 DEF SheetInv, SheetTypeOK
<1>8. OnePage'
  BY <1>1, <1>2, <1>3, <1>4, <1>5, OtherPages DEF SheetInv, OnePage
<1>9. IssuedOnce'
  <2>1. Theirs(sheet'.texts, keys')
    BY <1>2 DEF Theirs
  <2>2. QED
    BY <1>1, <2>1 DEF SheetInv, IssuedOnce
<1>10. Own'
  BY <1>1, <1>2, <1>4, <1>5, OwnStays DEF SheetInv, Own, StillOwn
<1>11. Numbered'
  BY <1>1, <1>2, <1>5 DEF SheetInv, Numbered
<1>12. Follows'
  BY <1>5 DEF Follows, Filling
<1>13. QED
  BY <1>7, <1>8, <1>9, <1>10, <1>11, <1>12 DEF SheetInv

\* The browser jumps to another person.
LEMMA JumpKeeps ==
  ASSUME SheetInv, ~spoiled, NEW h \in Human, JumpToPerson(h)
  PROVE  SheetInv'
<1>1. /\ OnPerson /\ loads' = OneMore(h, loads)
      /\ sheet' = [sheet EXCEPT !.at = h, !.loading = TRUE]
      /\ posts' = {[p EXCEPT !.jumped = TRUE] : p \in posts}
      /\ route' = route /\ data' = data /\ keys' = keys
      /\ batches' = batches /\ spoiled' = spoiled
  BY DEF JumpToPerson, Tables
<1>2. sheet \in SheetType
  BY DEF SheetInv, SheetTypeOK
<1>3. /\ sheet' \in SheetType /\ sheet'.at = h /\ sheet'.loading
      /\ sheet'.texts = sheet.texts /\ sheet'.tokens = sheet.tokens
  BY <1>1, <1>2 DEF SheetType
<1>4. OnPerson'
  BY <1>3 DEF OnPerson
<1>5. /\ loads' \in SUBSET LoadType /\ IsFiniteSet(loads')
      /\ \A l \in loads' : ~l.late => l.of = h
      /\ \E l \in loads' : ~l.late
      /\ \A l \in loads' : \/ ~l.served /\ l.tokens = {}
                           \/ \E m \in loads : /\ l.served = m.served /\ l.of = m.of
                                               /\ l.is = m.is /\ l.tokens = m.tokens
  <2>1. loads \in SUBSET LoadType /\ IsFiniteSet(loads)
    BY DEF SheetInv, SheetTypeOK
  <2>2. QED
    BY <1>1, <2>1, OneMoreTyped
<1>6. ASSUME NEW q \in posts'
      PROVE  /\ q \in PostType /\ q.jumped
             /\ \E p \in posts : /\ q.kind = p.kind /\ q.key = p.key /\ q.stage = p.stage
                                 /\ q.new = p.new /\ q.form = p.form /\ q.of = p.of
  <2>1. PICK p \in posts : q = [p EXCEPT !.jumped = TRUE]
    BY <1>1, <1>6
  <2>2. p \in PostType
    BY DEF SheetInv, SheetTypeOK
  <2>3. /\ q \in PostType /\ q.jumped /\ q.kind = p.kind /\ q.key = p.key /\ q.stage = p.stage
        /\ q.new = p.new /\ q.form = p.form /\ q.of = p.of
    BY <2>1, <2>2 DEF PostType
  <2>4. QED
    BY <2>3
<1>7. IsFiniteSet(posts')
  <2> DEFINE f == [p \in posts |-> [p EXCEPT !.jumped = TRUE]]
  <2>1. IsFiniteSet(posts)
    BY DEF SheetInv, SheetTypeOK
  <2>2. f \in Surjection(posts, posts')
    BY <1>1 DEF Surjection
  <2>3. QED
    BY <2>1, <2>2, FS_Surjection
<1>8. stale' \in BOOLEAN
  BY DEF JumpToPerson, StaleBy
<1>9. SheetTypeOK'
  BY <1>1, <1>3, <1>5, <1>6, <1>7, <1>8 DEF SheetInv, SheetTypeOK
<1>10. OnePage'
  BY <1>1, <1>3, <1>4, <1>5, <1>6, OtherPages DEF SheetInv, OnePage
<1>11. IssuedOnce'
  BY <1>1, <1>3 DEF SheetInv, IssuedOnce
<1>12. Own'
  <2>1. \A l \in loads' : l.served => l.is = l.of
    BY <1>5 DEF SheetInv, Own, StillOwn
  <2>2. \A p \in posts' : p.kind = "save" => p.form = p.of
    BY <1>6 DEF SheetInv, Own, StillOwn
  <2>3. QED
    BY <1>1, <1>3, <1>6, <2>1, <2>2, OwnStays
<1>13. Numbered'
  <2>1. \A l \in loads' : \A k \in l.tokens : k.id \in DOMAIN keys
    BY <1>5 DEF SheetInv, Numbered
  <2>2. \A p \in posts' : /\ p.kind \in {"revoke", "rotate"} => p.key \in DOMAIN keys
                          /\ p.kind \in {"revoke", "rotate"} /\ p.stage = "done" => ~keys[p.key].active
                          /\ p.kind \in {"issue", "rotate"} /\ p.stage = "done" => p.new \in DOMAIN keys
                          /\ p.kind \in {"save", "revoke"} => p.new = 0
                          /\ p.kind \in {"save", "issue"} => p.key = 0
    BY <1>6 DEF SheetInv, Numbered
  <2>3. QED
    BY <1>1, <1>3, <2>1, <2>2 DEF SheetInv, Numbered
<1>14. Follows'
  BY <1>5 DEF Follows, Filling
<1>15. QED
  BY <1>9, <1>10, <1>11, <1>12, <1>13, <1>14 DEF SheetInv

\* A load is answered.
LEMMA ServeLoadKeeps ==
  ASSUME SheetInv, ~spoiled, NEW l \in loads, ServeLoad(l)
  PROVE  SheetInv'
<1> DEFINE m == [l EXCEPT !.served = TRUE, !.is = data[l.of], !.tokens = KeysOf(l.of)]
<1>1. /\ loads' = (loads \ {l}) \cup {m}
      /\ route' = route /\ data' = data /\ keys' = keys /\ posts' = posts /\ sheet' = sheet
      /\ batches' = batches /\ stale' = stale /\ spoiled' = spoiled
  BY DEF ServeLoad, Tables
<1>2. /\ l \in LoadType /\ data \in [Human -> Someone] /\ keys \in Seq(TokenRow)
  BY DEF SheetInv, SheetTypeOK
<1>3. /\ KeysOf(l.of) \in SUBSET Listed /\ \A k \in KeysOf(l.of) : k.id \in DOMAIN keys
  BY <1>2, KeysAreListed
<1>4. l.of \in Human
  BY <1>2 DEF LoadType
<1>5. /\ m \in LoadType /\ m.of = l.of /\ m.late = l.late /\ m.served
      /\ m.is = data[l.of] /\ m.tokens = KeysOf(l.of)
  BY <1>2, <1>3, <1>4 DEF LoadType
<1> HIDE DEF m
<1>6. SheetTypeOK'
  <2>1. IsFiniteSet((loads \ {l}) \cup {m})
    <3>1. IsFiniteSet(loads \ {l})
      BY FS_Subset DEF SheetInv, SheetTypeOK
    <3>2. QED
      BY <3>1, FS_AddElement
  <2>2. QED
    BY <1>1, <1>5, <2>1 DEF SheetInv, SheetTypeOK
<1>7. OnePage'
  BY <1>1, <1>5 DEF SheetInv, OnePage, OnPerson
<1>8. IssuedOnce'
  BY <1>1 DEF SheetInv, IssuedOnce
<1>9. Own'
  <2>1. data[l.of] = l.of
    BY <1>4 DEF SheetInv, Own, StillOwn
  <2>2. \A x \in loads' : x.served => x.is = x.of
    BY <1>1, <1>5, <2>1 DEF SheetInv, Own, StillOwn
  <2>3. QED
    BY <1>1, <2>2, OwnStays DEF SheetInv, Own, StillOwn, OnPerson
<1>10. Numbered'
  BY <1>1, <1>3, <1>5 DEF SheetInv, Numbered
<1>11. Follows'
  <2>1. Filling => Filling'
    BY <1>1, <1>5 DEF Filling
  <2>2. AsPromised => AsPromised'
    BY <1>1 DEF AsPromised, Underway
  <2>3. QED
    BY <1>1, <2>1, <2>2 DEF SheetInv, Follows, OnPerson
<1>12. QED
  BY <1>6, <1>7, <1>8, <1>9, <1>10, <1>11 DEF SheetInv


\* The page takes an answer.
LEMMA LoadArrivesKeeps ==
  ASSUME SheetInv, ~spoiled, NEW l \in loads, LoadArrives(l)
  PROVE  SheetInv'
<1>1. /\ l.served /\ loads' = loads \ {l}
      /\ route' = route /\ data' = data /\ keys' = keys /\ posts' = posts
      /\ batches' = batches /\ spoiled' = spoiled
  BY DEF LoadArrives, Tables
<1>2. PICK got \in {l, [l EXCEPT !.tokens = {}]} :
        sheet' = [Filled(sheet, got) EXCEPT !.loading = FALSE]
  BY DEF LoadArrives
<1>3. l \in LoadType /\ sheet \in SheetType
  BY DEF SheetInv, SheetTypeOK
<1>4. /\ got \in LoadType /\ got.of = l.of /\ got.is = l.is
      /\ got.tokens = l.tokens \/ got.tokens = {}
  BY <1>3 DEF LoadType
<1>5. /\ sheet' \in SheetType /\ sheet'.at = sheet.at /\ sheet'.texts = sheet.texts
      /\ sheet'.tokens = got.tokens /\ sheet'.person = {l.is} /\ sheet'.form = l.is
      /\ sheet'.mixed = (l.of # sheet.at)
  <2>1. got.tokens \in SUBSET Listed /\ got.is \in Someone /\ (got.of # sheet.at) \in BOOLEAN
    BY <1>4 DEF LoadType
  <2>2. Filled(sheet, got) = [sheet EXCEPT !.person = {got.is}, !.tokens = got.tokens,
                                           !.form = got.is, !.mixed = got.of # sheet.at]
    BY DEF Filled
  <2>3. sheet' = [sheet EXCEPT !.person = {got.is}, !.tokens = got.tokens, !.form = got.is,
                               !.mixed = (got.of # sheet.at), !.loading = FALSE]
    BY <1>2, <1>3, <2>2 DEF SheetType
  <2> DEFINE x == got.is
             y == got.tokens
             z == got.of # sheet.at
  <2>4. /\ x \in Someone /\ y \in SUBSET Listed /\ z \in BOOLEAN
        /\ sheet' = [sheet EXCEPT !.person = {x}, !.tokens = y, !.form = x, !.mixed = z,
                                  !.loading = FALSE]
    BY <2>1, <2>3
  <2> HIDE DEF x, y, z
  <2>5. /\ sheet' \in SheetType /\ sheet'.at = sheet.at /\ sheet'.texts = sheet.texts
        /\ sheet'.tokens = y /\ sheet'.person = {x} /\ sheet'.form = x /\ sheet'.mixed = z
    BY <1>3, <2>4 DEF SheetType
  <2>6. QED
    BY <1>4, <2>5 DEF x, y, z
<1>6. StaleBy(l.late \/ sheet'.tokens # l.tokens \/ l.tokens # KeysOf(l.of) \/ l.is # data[l.of])
  BY DEF LoadArrives
<1>7. stale' \in BOOLEAN /\ OnPerson' = OnPerson
  BY <1>5, <1>6 DEF StaleBy, OnPerson
<1>8. SheetTypeOK'
  <2>1. IsFiniteSet(loads')
    BY <1>1, FS_Subset DEF SheetInv, SheetTypeOK
  <2>2. QED
    BY <1>1, <1>5, <1>7, <2>1 DEF SheetInv, SheetTypeOK
<1>9. OnePage'
  BY <1>1, <1>5, <1>7 DEF SheetInv, OnePage
<1>10. IssuedOnce'
  BY <1>1, <1>5 DEF SheetInv, IssuedOnce
<1>11. Own'
  <2>1. l.is = l.of
    BY <1>1 DEF SheetInv, Own, StillOwn
  <2>2. ~sheet'.mixed => sheet'.form = sheet'.at
    BY <1>5, <2>1
  <2>3. QED
    BY <1>1, <2>2, OwnStays DEF SheetInv, Own, StillOwn
<1>12. Numbered'
  <2>1. \A k \in sheet'.tokens : k.id \in DOMAIN keys
    BY <1>4, <1>5 DEF SheetInv, Numbered
  <2>2. QED
    BY <1>1, <2>1 DEF SheetInv, Numbered
<1>13. Follows'
  <2>1. CASE UpToDate'
    BY <2>1, CurrentIsShown DEF Follows
  <2>2. CASE ~UpToDate' /\ OnPerson' /\ ~stale'
    <3>1. /\ ~l.late /\ sheet'.tokens = l.tokens /\ l.tokens = KeysOf(l.of) /\ l.is = data[l.of]
      BY <1>6, <2>2 DEF StaleBy
    <3>2. l.of = sheet.at
      BY <3>1 DEF SheetInv, OnePage
    <3>3. UpToDate'
      BY <1>1, <1>5, <3>1, <3>2 DEF UpToDate, KeysOf
    <3>4. QED
      BY <2>2, <3>3
  <2>3. QED
    BY <2>1, <2>2 DEF Follows
<1>14. QED
  BY <1>8, <1>9, <1>10, <1>11, <1>12, <1>13 DEF SheetInv

\* A load fails, and the page knows no person any more.
LEMMA LoadFailsKeeps ==
  ASSUME SheetInv, ~spoiled, NEW l \in loads, LoadFails(l)
  PROVE  SheetInv'
<1>1. /\ loads' = loads \ {l} /\ StaleBy(TRUE)
      /\ sheet' = [sheet EXCEPT !.person = {}, !.loading = FALSE]
      /\ route' = route /\ data' = data /\ keys' = keys /\ posts' = posts
      /\ batches' = batches /\ spoiled' = spoiled
  BY DEF LoadFails, Tables
<1>2. sheet \in SheetType
  BY DEF SheetInv, SheetTypeOK
<1>3. /\ sheet' \in SheetType /\ sheet'.at = sheet.at /\ sheet'.texts = sheet.texts
      /\ sheet'.tokens = sheet.tokens /\ sheet'.person = {} /\ sheet'.form = sheet.form
      /\ sheet'.mixed = sheet.mixed
  BY <1>1, <1>2 DEF SheetType
<1>4. stale' \in BOOLEAN /\ OnPerson' = OnPerson
  BY <1>1, <1>3 DEF StaleBy, OnPerson
<1>5. SheetTypeOK'
  <2>1. IsFiniteSet(loads')
    BY <1>1, FS_Subset DEF SheetInv, SheetTypeOK
  <2>2. QED
    BY <1>1, <1>3, <1>4, <2>1 DEF SheetInv, SheetTypeOK
<1>6. OnePage'
  BY <1>1, <1>3, <1>4 DEF SheetInv, OnePage
<1>7. IssuedOnce'
  BY <1>1, <1>3 DEF SheetInv, IssuedOnce
<1>8. Own'
  BY <1>1, <1>3, <1>4, OwnStays DEF SheetInv, Own, StillOwn
<1>9. Numbered'
  BY <1>1, <1>3 DEF SheetInv, Numbered
<1>10. Follows'
  <2>1. OnPerson' /\ ~stale' => UpToDate'
    BY <1>1 DEF StaleBy
  <2>2. QED
    BY <2>1, CurrentIsShown DEF Follows
<1>11. QED
  BY <1>5, <1>6, <1>7, <1>8, <1>9, <1>10 DEF SheetInv

\* The form is filled in for the person of the page.
LEMMA TypeInFormKeeps ==
  ASSUME SheetInv, ~spoiled, TypeInForm
  PROVE  SheetInv'
<1>1. /\ OnPerson /\ sheet' = [sheet EXCEPT !.form = sheet.at]
      /\ route' = route /\ data' = data /\ keys' = keys /\ posts' = posts /\ loads' = loads
      /\ batches' = batches /\ stale' = stale /\ spoiled' = spoiled
  BY DEF TypeInForm, Usable, Tables, Requests
<1>2. sheet \in SheetType /\ sheet.at \in Someone
  BY <1>1 DEF SheetInv, SheetTypeOK, OnPerson, Someone
<1>3. /\ sheet' \in SheetType /\ sheet'.at = sheet.at /\ sheet'.texts = sheet.texts
      /\ sheet'.tokens = sheet.tokens /\ sheet'.person = sheet.person /\ sheet'.form = sheet'.at
  BY <1>1, <1>2 DEF SheetType
<1>4. OnPerson'
  BY <1>1, <1>3 DEF OnPerson
<1>5. SheetTypeOK'
  BY <1>1, <1>3 DEF SheetInv, SheetTypeOK
<1>6. OnePage'
  BY <1>1, <1>3, <1>4 DEF SheetInv, OnePage
<1>7. IssuedOnce'
  BY <1>1, <1>3 DEF SheetInv, IssuedOnce
<1>8. Own'
  BY <1>1, <1>3, OwnStays DEF SheetInv, Own, StillOwn
<1>9. Numbered'
  BY <1>1, <1>3 DEF SheetInv, Numbered
<1>10. Follows'
  <2>1. AsPromised => AsPromised'
    BY <1>1, <1>3 DEF AsPromised, Underway
  <2>2. Filling => Filling'
    BY <1>1 DEF Filling
  <2>3. QED
    BY <1>1, <2>1, <2>2 DEF SheetInv, Follows
<1>11. QED
  BY <1>5, <1>6, <1>7, <1>8, <1>9, <1>10 DEF SheetInv

-----------------------------------------------------------------------------
(* Changes that are sent. *)

\* A change is sent, if it is right.
LEMMA PostKeeps ==
  ASSUME SheetInv, ~spoiled, NEW kind \in {"save", "issue", "revoke", "rotate"}, NEW key \in Nat,
         NEW form \in Someone, Post(kind, key, form), spoiled' \in BOOLEAN,
         kind = "save" /\ ~spoiled' => form = sheet.at,
         kind \in {"save", "issue"} => key = 0,
         kind \in {"revoke", "rotate"} => key \in DOMAIN keys
  PROVE  SheetInv'
<1> DEFINE p == [n |-> Number(posts), kind |-> kind, of |-> sheet.at, key |-> key,
                 form |-> form, new |-> 0, stage |-> "asked", here |-> TRUE, jumped |-> FALSE]
<1>1. /\ Usable /\ MayAsk /\ posts' = posts \cup {p}
      /\ route' = route /\ data' = data /\ keys' = keys /\ loads' = loads /\ sheet' = sheet
      /\ batches' = batches /\ stale' = stale
  BY DEF Post, Tables
<1>2. OnPerson /\ ~sheet.loading /\ sheet.person # {}
  BY <1>1 DEF Usable
<1>3. /\ p \in PostType /\ p.kind = kind /\ p.of = sheet.at /\ p.key = key /\ p.form = form
      /\ p.new = 0 /\ p.stage = "asked" /\ p.here /\ ~p.jumped
  <2>1. Number(posts) \in 1 .. MaxUnderWay
    BY <1>1, AskingLeavesANumber DEF SheetInv
  <2>2. QED
    BY <1>2, <2>1 DEF PostType, OnPerson
<1> HIDE DEF p
<1>4. SheetTypeOK'
  <2>1. IsFiniteSet(posts \cup {p})
    BY FS_AddElement DEF SheetInv, SheetTypeOK
  <2>2. QED
    BY <1>1, <1>3, <2>1 DEF SheetInv, SheetTypeOK
<1>5. OnePage'
  BY <1>1, <1>2, <1>3 DEF SheetInv, OnePage, OnPerson
<1>6. IssuedOnce'
  BY <1>1 DEF SheetInv, IssuedOnce
<1>7. Own'
  <2>1. sheet.mixed \/ sheet.form = sheet.at
    BY <1>2 DEF SheetInv, Own, StillOwn
  <2>2. ~spoiled' => \A x \in posts' : x.kind = "save" => x.form = x.of
    BY <1>1, <1>3 DEF SheetInv, Own, StillOwn
  <2>3. QED
    BY <1>1, <2>1, <2>2 DEF SheetInv, Own, StillOwn
<1>8. Numbered'
  BY <1>1, <1>3 DEF SheetInv, Numbered
<1>9. Follows'
  <2>1. Underway' = Underway
    BY <1>1, <1>3 DEF Underway
  <2>2. AsPromised => AsPromised'
    BY <1>1, <2>1 DEF AsPromised
  <2>3. Filling => Filling'
    BY <1>1 DEF Filling
  <2>4. QED
    BY <1>1, <2>2, <2>3 DEF SheetInv, Follows, OnPerson
<1>10. QED
  BY <1>4, <1>5, <1>6, <1>7, <1>8, <1>9 DEF SheetInv

\* The form is saved, a token issued, or one of the list revoked or rotated.
LEMMA PostsKeep ==
  ASSUME SheetInv, ~spoiled,
         handleSave \/ IssueToken \/ \E k \in sheet.tokens : RevokeOrRotate(k)
  PROVE  SheetInv'
<1>1. Blank \in Someone /\ sheet \in SheetType /\ spoiled \in BOOLEAN
  BY DEF SheetInv, SheetTypeOK, Someone
<1>2. CASE handleSave
  <2>1. Post("save", 0, sheet.form) /\ spoiled' = (spoiled \/ sheet.mixed)
    BY <1>2 DEF handleSave
  <2>2. sheet.form \in Someone /\ sheet.mixed \in BOOLEAN
    BY <1>1 DEF SheetType
  <2>3. Usable
    BY <2>1 DEF Post
  <2>4. sheet.mixed \/ sheet.form = sheet.at
    BY <2>3 DEF Usable, SheetInv, Own, StillOwn
  <2>5. spoiled' \in BOOLEAN /\ (~spoiled' => sheet.form = sheet.at)
    BY <2>1, <2>4
  <2>6. QED
    BY <2>1, <2>2, <2>5, PostKeeps
<1>3. CASE IssueToken
  <2>1. Post("issue", 0, Blank) /\ spoiled' = spoiled
    BY <1>3 DEF IssueToken
  <2>2. QED
    BY <1>1, <2>1, PostKeeps
<1>4. CASE \E k \in sheet.tokens : RevokeOrRotate(k)
  <2>1. PICK k \in sheet.tokens : RevokeOrRotate(k)
    BY <1>4
  <2>2. PICK kind \in {"revoke", "rotate"} : Post(kind, k.id, Blank)
    BY <2>1 DEF RevokeOrRotate
  <2>3. spoiled' = spoiled
    BY <2>1 DEF RevokeOrRotate
  <2>4. k.id \in DOMAIN keys /\ k.id \in Nat
    BY <1>1 DEF SheetInv, Numbered, SheetType, Listed
  <2>5. QED
    BY <1>1, <2>2, <2>3, <2>4, PostKeeps
<1>5. QED
  BY <1>2, <1>3, <1>4

-----------------------------------------------------------------------------
(* What replies do to a list. *)

\* A list still fits when the server has made a change whose reply is on its way.
LEMMA FitsServed ==
  ASSUME NEW inList, NEW table, NEW after, NEW h, NEW waiting, NEW q,
         table \in Seq(TokenRow), Grown(table, after), Fits(inList, table, h, waiting),
         \A i \in DOMAIN after \ DOMAIN table : after[i].of = h => Adds(q, i),
         \A i \in DOMAIN table : after[i].active # table[i].active => Revokes(q, i)
  PROVE  Fits(inList, after, h, waiting \cup {q})
<1>1. \A i \in DOMAIN table : table[i].active \in BOOLEAN
  <2> TAKE i \in DOMAIN table
  <2>1. table[i] \in TokenRow
    OBVIOUS
  <2>2. QED
    BY <2>1 DEF TokenRow
<1>2. \A i \in DOMAIN after : after[i].active \in BOOLEAN
  <2> TAKE i \in DOMAIN after
  <2>1. after[i] \in TokenRow
    BY DEF Grown
  <2>2. QED
    BY <2>1 DEF TokenRow
<1>3. ASSUME NEW k, k.id \in DOMAIN table, SeenAs(k, table, waiting)
      PROVE  SeenAs(k, after, waiting \cup {q})
  <2>1. CASE after[k.id].active = table[k.id].active
    BY <1>3, <2>1 DEF SeenAs
  <2>2. CASE after[k.id].active # table[k.id].active
    <3>1. Revokes(q, k.id) /\ table[k.id].active
      BY <1>1, <1>2, <1>3, <2>2 DEF Grown
    <3>2. k.active
      BY <1>3, <3>1 DEF SeenAs
    <3>3. QED
      BY <3>1, <3>2 DEF SeenAs
  <2>3. QED
    BY <2>1, <2>2
<1>4. ASSUME NEW i \in DOMAIN after, after[i].of = h
      PROVE  \/ \E p \in waiting \cup {q} : Adds(p, i)
             \/ \E k \in inList : k.id = i /\ SeenAs(k, after, waiting \cup {q})
  <2>1. CASE i \in DOMAIN table
    <3>1. table[i].of = h
      BY <1>4, <2>1 DEF Grown
    <3>2. CASE \E p \in waiting : Adds(p, i)
      BY <3>2
    <3>3. CASE \E k \in inList : k.id = i /\ SeenAs(k, table, waiting)
      BY <1>3, <2>1, <3>3
    <3>4. QED
      BY <2>1, <3>1, <3>2, <3>3 DEF Fits
  <2>2. CASE i \notin DOMAIN table
    BY <1>4, <2>2
  <2>3. QED
    BY <2>1, <2>2
<1>5. ASSUME NEW k \in inList
      PROVE  k.id \in DOMAIN after /\ after[k.id].of = h /\ SeenAs(k, after, waiting \cup {q})
  BY <1>3 DEF Fits, Grown
<1>6. QED
  BY <1>4, <1>5 DEF Fits

\* A list fits what is still on its way when it has taken a reply.
LEMMA FitsReplied ==
  ASSUME NEW inList, NEW table, NEW h, NEW waiting, NEW p \in waiting, NEW list,
         Fits(inList, table, h, waiting),
         \A i : Revokes(p, i) => table[i].active = FALSE,
         \A k \in inList : Revokes(p, k.id) => \E m \in list : m.id = k.id /\ m.active = FALSE,
         \A k \in inList : ~Revokes(p, k.id) => k \in list,
         \A i : Adds(p, i) => \E m \in list : m.id = i /\ m.active = table[i].active,
         \A m \in list : /\ m.id \in DOMAIN table /\ table[m.id].of = h
                         /\ \/ m \in inList /\ ~Revokes(p, m.id)
                            \/ m.active = table[m.id].active
  PROVE  Fits(list, table, h, waiting \ {p})
<1>1. ASSUME NEW k, ~Revokes(p, k.id), SeenAs(k, table, waiting)
      PROVE  SeenAs(k, table, waiting \ {p})
  BY <1>1 DEF SeenAs
<1>2. ASSUME NEW i \in DOMAIN table, table[i].of = h
      PROVE  \/ \E q \in waiting \ {p} : Adds(q, i)
             \/ \E m \in list : m.id = i /\ SeenAs(m, table, waiting \ {p})
  <2>1. CASE Adds(p, i)
    BY <2>1 DEF SeenAs
  <2>2. CASE \E q \in waiting \ {p} : Adds(q, i)
    BY <2>2
  <2>3. CASE \E k \in inList : k.id = i /\ SeenAs(k, table, waiting)
    <3>1. PICK k \in inList : k.id = i /\ SeenAs(k, table, waiting)
      BY <2>3
    <3>2. CASE Revokes(p, i)
      BY <3>1, <3>2 DEF SeenAs
    <3>3. CASE ~Revokes(p, i)
      BY <1>1, <3>1, <3>3
    <3>4. QED
      BY <3>2, <3>3
  <2>4. \/ \E q \in waiting : Adds(q, i)
        \/ \E k \in inList : k.id = i /\ SeenAs(k, table, waiting)
    BY <1>2 DEF Fits
  <2>5. (\E q \in waiting : Adds(q, i)) => Adds(p, i) \/ \E q \in waiting \ {p} : Adds(q, i)
    OBVIOUS
  <2>6. QED
    BY <2>1, <2>2, <2>3, <2>4, <2>5
<1>3. ASSUME NEW m \in list
      PROVE  m.id \in DOMAIN table /\ table[m.id].of = h /\ SeenAs(m, table, waiting \ {p})
  <2>1. CASE m \in inList /\ ~Revokes(p, m.id)
    BY <1>1, <2>1 DEF Fits
  <2>2. CASE m.active = table[m.id].active
    BY <2>2 DEF SeenAs
  <2>3. QED
    BY <2>1, <2>2
<1>4. QED
  BY <1>2, <1>3 DEF Fits

\* The list without the validity of one token.
RevokedIn(list, inList, i) ==
  /\ \A k \in inList : k.id # i => k \in list
  /\ \A k \in inList : k.id = i => \E m \in list : m.id = i /\ m.active = FALSE
  /\ \A m \in list : \/ m \in inList /\ m.id # i
                     \/ m.id = i /\ m.active = FALSE /\ \E k \in inList : k.id = i

\* To mark a token of a list as revoked changes no other.
\* To mark a token of a list as revoked changes no other.
LEMMA RevokedIs ==
  ASSUME NEW inList \in SUBSET Listed, NEW i
  PROVE  Revoked(inList, i) \in SUBSET Listed /\ RevokedIn(Revoked(inList, i), inList, i)
<1>1. ASSUME NEW k \in inList
      PROVE  LET m == [k EXCEPT !.active = @ /\ k.id # i]
             IN  /\ m \in Listed /\ m.id = k.id
                 /\ k.id # i => m = k
                 /\ k.id = i => m.active = FALSE
  <2>1. k \in Listed
    OBVIOUS
  <2> DEFINE a == k.active /\ k.id # i
             m == [k EXCEPT !.active = a]
  <2>2. a \in BOOLEAN /\ (k.id # i => a = k.active) /\ (k.id = i => a = FALSE)
    BY <2>1 DEF Listed
  <2> HIDE DEF a
  <2>3. m \in Listed /\ m.id = k.id /\ m.active = a
    BY <2>1, <2>2 DEF Listed
  <2>4. k.id # i => m = k
    <3>1. m = [id |-> m.id, active |-> m.active] /\ k = [id |-> k.id, active |-> k.active]
      BY <2>1, <2>3 DEF Listed
    <3> HIDE DEF m
    <3>2. QED
      BY <2>2, <2>3, <3>1
  <2>5. m = [k EXCEPT !.active = @ /\ k.id # i]
    BY DEF a
  <2>6. QED
    BY <2>2, <2>3, <2>4, <2>5
<1>2. ASSUME NEW k \in inList, k.id # i PROVE k \in Revoked(inList, i)
  BY <1>1, <1>2 DEF Revoked
<1>3. ASSUME NEW k \in inList, k.id = i
      PROVE  \E m \in Revoked(inList, i) : m.id = i /\ m.active = FALSE
  BY <1>1, <1>3 DEF Revoked
<1>4. ASSUME NEW m \in Revoked(inList, i)
      PROVE  /\ m \in Listed
             /\ \/ m \in inList /\ m.id # i
                \/ m.id = i /\ m.active = FALSE /\ \E k \in inList : k.id = i
  <2>1. PICK k \in inList : m = [k EXCEPT !.active = @ /\ k.id # i]
    BY DEF Revoked
  <2>2. QED
    BY <1>1, <2>1
<1>5. QED
  BY <1>2, <1>3, <1>4 DEF RevokedIn

-----------------------------------------------------------------------------
(* Changes that are made and answered. *)

\* The server makes the change.
LEMMA ServePostKeeps ==
  ASSUME SheetInv, ~spoiled, NEW p \in posts, ServePost(p)
  PROVE  SheetInv'
<1> DEFINE new  == IF p.kind \in {"issue", "rotate"} THEN Len(keys') ELSE 0
           form == IF p.kind = "save" THEN data'[p.of] ELSE Blank
           q    == [p EXCEPT !.stage = "done", !.new = new, !.form = form]
<1>1. /\ p.stage = "asked" /\ posts' = (posts \ {p}) \cup {q}
      /\ route' = route /\ sheet' = sheet /\ loads' = loads
      /\ batches' = batches /\ spoiled' = spoiled
      /\ StaleBy(OnPerson /\ ~p.here)
  BY DEF ServePost
<1>2. \/ p.kind = "save"   /\ data' = updatePerson(p.of, p.form) /\ keys' = keys
      \/ p.kind = "issue"  /\ keys' = createKey(p.of) /\ data' = data
      \/ p.kind = "revoke" /\ keys' = [keys EXCEPT ![p.key].active = FALSE] /\ data' = data
      \/ p.kind = "rotate" /\ keys' = rotateKey(p.key) /\ data' = data
  BY DEF ServePost
<1>3. /\ p \in PostType /\ keys \in Seq(TokenRow) /\ data \in [Human -> Someone]
      /\ \A h \in Human : data[h] = h
  BY DEF SheetInv, SheetTypeOK, Own, StillOwn
<1>4. p.of \in Human /\ p.kind \in {"save", "issue", "revoke", "rotate"}
  BY <1>3 DEF PostType
<1>5. data' = data
  <2>1. CASE p.kind = "save"
    <3>1. p.form = data[p.of]
      BY <1>3, <1>4, <2>1 DEF SheetInv, Own, StillOwn
    <3>2. data' = [data EXCEPT ![p.of] = p.form]
      BY <1>2, <2>1 DEF updatePerson
    <3>3. QED
      BY <1>3, <3>1, <3>2
  <2>2. CASE p.kind # "save"
    BY <1>2, <2>2
  <2>3. QED
    BY <2>1, <2>2
<1>6. /\ Grown(keys, keys')
      /\ p.kind \in {"issue", "rotate"} => Len(keys') \in DOMAIN keys' /\ Len(keys') \in Nat
      /\ \A i \in DOMAIN keys' \ DOMAIN keys : p.kind \in {"issue", "rotate"} /\ i = Len(keys')
      /\ \A i \in DOMAIN keys : keys'[i].active # keys[i].active =>
                                  p.kind \in {"revoke", "rotate"} /\ p.key = i
      /\ p.kind \in {"revoke", "rotate"} => ~keys'[p.key].active
  <2>1. CASE p.kind = "save"
    BY <1>2, <1>3, <2>1 DEF Grown
  <2>2. CASE p.kind = "issue"
    <3>1. GrownBy(keys, keys', p.of) /\ \A i \in DOMAIN keys : keys'[i] = keys[i]
      <4>1. keys' = Append(keys, [of |-> p.of, active |-> TRUE])
        BY <1>2, <2>2 DEF createKey
      <4>2. keys \in Seq(TokenRow) /\ p.of \in Human
        BY <1>3, <1>4
      <4>3. QED
        BY <4>1, <4>2, CreateAdds
    <3>2. Len(keys') \in Nat
      BY <3>1 DEF GrownBy, Grown
    <3>3. QED
      BY <2>2, <3>1, <3>2 DEF GrownBy
  <2>3. CASE p.kind = "revoke"
    <3>1. p.key \in DOMAIN keys
      BY <2>3 DEF SheetInv, Numbered
    <3>2. /\ Grown(keys, keys') /\ DOMAIN keys' = DOMAIN keys /\ ~keys'[p.key].active
          /\ \A i \in DOMAIN keys : i # p.key => keys'[i] = keys[i]
      BY <1>2, <1>3, <2>3, <3>1, RevokeChangesOne
    <3>3. QED
      BY <2>3, <3>2
  <2>4. CASE p.kind = "rotate"
    <3>1. p.key \in DOMAIN keys
      BY <2>4 DEF SheetInv, Numbered
    <3>2. /\ GrownBy(keys, keys', keys[p.key].of) /\ ~keys'[p.key].active
          /\ \A i \in DOMAIN keys : i # p.key => keys'[i] = keys[i]
      BY <1>2, <1>3, <2>4, <3>1, RotateDoesBoth
    <3>3. Len(keys') \in Nat
      BY <3>2 DEF GrownBy, Grown
    <3>4. QED
      BY <2>4, <3>2, <3>3 DEF GrownBy
  <2>5. QED
    BY <1>4, <2>1, <2>2, <2>3, <2>4
<1>7. /\ q \in PostType /\ q.kind = p.kind /\ q.of = p.of /\ q.key = p.key /\ q.here = p.here
      /\ q.jumped = p.jumped /\ q.stage = "done" /\ q.new = new /\ q.form = form
  <2>1. new \in Nat
    BY <1>6
  <2>2. form \in Someone
    BY <1>3, <1>4, <1>5 DEF Someone
  <2> HIDE DEF new, form
  <2>3. QED
    BY <1>3, <2>1, <2>2 DEF PostType
<1> HIDE DEF q
<1>8. stale' \in BOOLEAN
  BY <1>1 DEF StaleBy
<1>9. SheetTypeOK'
  <2>1. IsFiniteSet((posts \ {p}) \cup {q})
    <3>1. IsFiniteSet(posts \ {p})
      BY FS_Subset DEF SheetInv, SheetTypeOK
    <3>2. QED
      BY <3>1, FS_AddElement
  <2>2. keys' \in Seq(TokenRow)
    BY <1>6 DEF Grown
  <2>3. posts' \in SUBSET PostType
    BY <1>1, <1>7 DEF SheetInv, SheetTypeOK
  <2>4. QED
    BY <1>1, <1>5, <1>8, <2>1, <2>2, <2>3 DEF SheetInv, SheetTypeOK
<1>10. OnePage'
  <2>1. q.here => OnPerson /\ (~q.jumped => q.of = sheet.at)
    BY <1>7 DEF SheetInv, OnePage
  <2>2. QED
    BY <1>1, <2>1 DEF SheetInv, OnePage, OnPerson
<1>11. IssuedOnce'
  <2>1. Theirs(sheet'.texts, keys')
    BY <1>1, <1>6, TheirsStay DEF SheetInv, IssuedOnce
  <2>2. ASSUME NEW b \in batches' PROVE Theirs(b.made, keys') /\ \A t \in b.made : t[1] \notin b.todo
    <3>1. Theirs(b.made, keys) /\ \A t \in b.made : t[1] \notin b.todo
      BY <1>1, <2>2 DEF SheetInv, IssuedOnce
    <3>2. QED
      BY <1>6, <3>1, TheirsStay
  <2>3. QED
    BY <2>1, <2>2 DEF IssuedOnce
<1>12. Own'
  <2>1. q.kind = "save" => q.form = q.of
    BY <1>3, <1>4, <1>5, <1>7
  <2>2. \A x \in posts' : x.kind = "save" => x.form = x.of
    BY <1>1, <2>1 DEF SheetInv, Own, StillOwn
  <2>3. OnPerson /\ ~sheet.mixed /\ sheet.form # sheet.at =>
           /\ sheet.loading \/ sheet.person = {}
           /\ \A x \in posts' : x.here => x.jumped
    BY <1>1, <1>7 DEF SheetInv, Own, StillOwn
  <2>4. QED
    BY <1>1, <1>5, <2>2, <2>3, OwnStays DEF SheetInv, Own, StillOwn, OnPerson
<1>13. Numbered'
  <2>1. /\ q.kind \in {"revoke", "rotate"} => q.key \in DOMAIN keys'
        /\ q.kind \in {"revoke", "rotate"} /\ q.stage = "done" => ~keys'[q.key].active
        /\ q.kind \in {"issue", "rotate"} /\ q.stage = "done" => q.new \in DOMAIN keys'
        /\ q.kind \in {"save", "revoke"} => q.new = 0
        /\ q.kind \in {"save", "issue"} => q.key = 0
    <3>1. /\ p.kind \in {"revoke", "rotate"} => p.key \in DOMAIN keys'
          /\ p.kind \in {"save", "issue"} => p.key = 0
      BY <1>6 DEF SheetInv, Numbered, Grown
    <3>2. QED
      BY <1>4, <1>6, <1>7, <3>1
  <2>2. \A x \in posts : /\ x.kind \in {"revoke", "rotate"} => x.key \in DOMAIN keys'
                         /\ x.kind \in {"revoke", "rotate"} /\ x.stage = "done" => ~keys'[x.key].active
                         /\ x.kind \in {"issue", "rotate"} /\ x.stage = "done" => x.new \in DOMAIN keys'
                         /\ x.kind \in {"save", "revoke"} => x.new = 0
                         /\ x.kind \in {"save", "issue"} => x.key = 0
    BY <1>6 DEF SheetInv, Numbered, Grown
  <2>3. /\ \A k \in sheet.tokens : k.id \in DOMAIN keys'
        /\ \A l \in loads : \A k \in l.tokens : k.id \in DOMAIN keys'
    BY <1>6 DEF SheetInv, Numbered, Grown
  <2>4. QED
    BY <1>1, <2>1, <2>2, <2>3 DEF Numbered
<1>14. Follows'
  <2>1. CASE UpToDate'
    BY <2>1, CurrentIsShown DEF Follows
  <2>2. CASE ~UpToDate' /\ OnPerson' /\ ~stale'
    <3>1. ~stale /\ p.here /\ OnPerson
      BY <1>1, <2>2 DEF StaleBy, OnPerson
    <3>2. CASE Filling
      BY <1>1, <3>2 DEF Follows, Filling
    <3>3. CASE AsPromised
      <4>1. Underway' = Underway \cup {q}
        BY <1>1, <1>7, <3>1 DEF Underway
      <4>2. /\ \A i \in DOMAIN keys' \ DOMAIN keys : keys'[i].of = sheet.at => Adds(q, i)
            /\ \A i \in DOMAIN keys : keys'[i].active # keys[i].active => Revokes(q, i)
        BY <1>6, <1>7 DEF Adds, Revokes
      <4>3. Fits(sheet.tokens, keys', sheet.at, Underway \cup {q})
        BY <1>3, <1>6, <3>3, <4>2, FitsServed DEF AsPromised
      <4>4. QED
        BY <1>1, <1>5, <3>3, <4>1, <4>3 DEF AsPromised, Follows
    <3>4. QED
      BY <3>1, <3>2, <3>3 DEF SheetInv, Follows
  <2>3. QED
    BY <2>1, <2>2 DEF Follows
<1>15. QED
  BY <1>9, <1>10, <1>11, <1>12, <1>13, <1>14 DEF SheetInv

\* Of a change that failed nothing is shown.
LEMMA PostFailsKeeps ==
  ASSUME SheetInv, ~spoiled, NEW p \in posts, PostFails(p)
  PROVE  SheetInv'
<1>1. /\ posts' = posts \ {p} /\ StaleBy(OnPerson /\ p.stage = "done")
      /\ route' = route /\ data' = data /\ keys' = keys /\ loads' = loads /\ sheet' = sheet
      /\ batches' = batches /\ spoiled' = spoiled
  BY DEF PostFails, Tables
<1>2. stale' \in BOOLEAN
  BY <1>1 DEF StaleBy
<1>3. SheetTypeOK'
  <2>1. IsFiniteSet(posts')
    BY <1>1, FS_Subset DEF SheetInv, SheetTypeOK
  <2>2. QED
    BY <1>1, <1>2, <2>1 DEF SheetInv, SheetTypeOK
<1>4. OnePage' /\ IssuedOnce' /\ Numbered'
  BY <1>1 DEF SheetInv, OnePage, IssuedOnce, Numbered, OnPerson
<1>5. Own'
  BY <1>1, OwnStays DEF SheetInv, Own, StillOwn, OnPerson
<1>6. Follows'
  <2>1. CASE UpToDate'
    BY <2>1, CurrentIsShown DEF Follows
  <2>2. CASE ~UpToDate' /\ OnPerson' /\ ~stale'
    <3>1. ~stale /\ OnPerson /\ p.stage # "done"
      BY <1>1, <2>2 DEF StaleBy, OnPerson
    <3>2. Underway' = Underway
      BY <1>1, <3>1 DEF Underway
    <3>3. (Filling => Filling') /\ (AsPromised => AsPromised')
      BY <1>1, <3>2 DEF Filling, AsPromised
    <3>4. QED
      BY <3>1, <3>3 DEF SheetInv, Follows
  <2>3. QED
    BY <2>1, <2>2 DEF Follows
<1>7. QED
  BY <1>3, <1>4, <1>5, <1>6 DEF SheetInv

\* Others issue and revoke tokens.
LEMMA OthersChangeKeeps ==
  ASSUME SheetInv, ~spoiled, OthersChange
  PROVE  SheetInv'
<1>1. /\ StaleBy(OnPerson) /\ posts' = posts
      /\ route' = route /\ data' = data /\ loads' = loads /\ sheet' = sheet
      /\ batches' = batches /\ spoiled' = spoiled
  BY DEF OthersChange, Requests
<1>2. stale' \in BOOLEAN
  BY <1>1 DEF StaleBy
<1>3. Grown(keys, keys')
  <2>1. keys \in Seq(TokenRow)
    BY DEF SheetInv, SheetTypeOK
  <2>2. CASE \E h \in Human : keys' = createKey(h)
    BY <2>1, <2>2, CreateAdds DEF GrownBy, createKey
  <2>3. CASE \E i \in DOMAIN keys : keys' = [keys EXCEPT ![i].active = FALSE]
    BY <2>1, <2>3, RevokeChangesOne
  <2>4. QED
    BY <2>2, <2>3 DEF OthersChange
<1>4. SheetTypeOK'
  BY <1>1, <1>2, <1>3 DEF SheetInv, SheetTypeOK, Grown
<1>5. OnePage'
  BY <1>1 DEF SheetInv, OnePage, OnPerson
<1>6. IssuedOnce'
  <2>1. Theirs(sheet'.texts, keys')
    BY <1>1, <1>3, TheirsStay DEF SheetInv, IssuedOnce
  <2>2. ASSUME NEW b \in batches' PROVE Theirs(b.made, keys') /\ \A t \in b.made : t[1] \notin b.todo
    <3>1. Theirs(b.made, keys) /\ \A t \in b.made : t[1] \notin b.todo
      BY <1>1, <2>2 DEF SheetInv, IssuedOnce
    <3>2. QED
      BY <1>3, <3>1, TheirsStay
  <2>3. QED
    BY <2>1, <2>2 DEF IssuedOnce
<1>7. Own'
  BY <1>1, OwnStays DEF SheetInv, Own, StillOwn, OnPerson
<1>8. Numbered'
  BY <1>1, <1>3, NumberedStays
<1>9. Follows'
  <2>1. OnPerson' /\ ~stale' => UpToDate'
    BY <1>1 DEF StaleBy, OnPerson
  <2>2. QED
    BY <2>1, CurrentIsShown DEF Follows
<1>10. QED
  BY <1>4, <1>5, <1>6, <1>7, <1>8, <1>9 DEF SheetInv


\* A reply is on time for the page that is shown.
OnTime(p) ==
  /\ ~p.jumped
  /\ p.kind = "save" => p.form = data[p.of]
  /\ p.new # 0 => keys[p.new] = [of |-> sheet.at, active |-> TRUE]

\* A reply that finds its page, on time, takes it nearer to what the server has.
LEMMA ReplyBringsNearer ==
  ASSUME SheetInv, NEW p \in posts, p.stage = "done", p.here, OnTime(p), AsPromised
  PROVE  /\ Replied(sheet, p).person = {data[sheet.at]}
         /\ Fits(Replied(sheet, p).tokens, keys, sheet.at, Underway \ {p})
<1>1. /\ sheet \in SheetType /\ p \in PostType /\ keys \in Seq(TokenRow)
      /\ sheet.tokens \in SUBSET Listed
  BY DEF SheetInv, SheetTypeOK, SheetType
<1>2. /\ p \in Underway /\ p.of = sheet.at /\ sheet.at \in Human
      /\ sheet.person = {data[sheet.at]} /\ Fits(sheet.tokens, keys, sheet.at, Underway)
  BY DEF SheetInv, OnePage, OnTime, Underway, AsPromised, OnPerson
<1>3. /\ p.kind \in {"revoke", "rotate"} => p.key \in DOMAIN keys /\ keys[p.key].active = FALSE
      /\ p.kind \in {"issue", "rotate"} => p.new \in DOMAIN keys
      /\ p.kind \in {"save", "revoke"} => p.new = 0
      /\ p.kind \in {"save", "issue"} => p.key = 0
  <2>1. \A i \in DOMAIN keys : keys[i].active \in BOOLEAN
    <3> TAKE i \in DOMAIN keys
    <3>1. keys[i] \in TokenRow
      BY <1>1
    <3>2. QED
      BY <3>1 DEF TokenRow
  <2>2. QED
    BY <2>1 DEF SheetInv, Numbered
<1>4. p.kind \in {"issue", "rotate"} =>
        p.new \in DOMAIN keys /\ keys[p.new].of = sheet.at /\ keys[p.new].active = TRUE
  <2>1. p.kind \in {"issue", "rotate"} => p.new # 0
    BY <1>1, <1>3
  <2>2. QED
    BY <1>3, <2>1 DEF OnTime
<1>5. p.kind \in {"save", "issue", "revoke", "rotate"}
  BY <1>1 DEF PostType
<1>6. \A k \in sheet.tokens : k.id \in DOMAIN keys /\ keys[k.id].of = sheet.at
  BY <1>2 DEF Fits
<1>7. \A i : Revokes(p, i) => keys[i].active = FALSE
  BY <1>3 DEF Revokes
<1>8. CASE p.kind = "save"
  <2>1. Replied(sheet, p) = [sheet EXCEPT !.person = {p.form}]
    BY <1>8 DEF Replied
  <2>2. Replied(sheet, p).tokens = sheet.tokens /\ Replied(sheet, p).person = {p.form}
    BY <1>1, <2>1 DEF SheetType
  <2>3. \A i : ~Adds(p, i) /\ ~Revokes(p, i)
    BY <1>8 DEF Adds, Revokes
  <2>4. Fits(sheet.tokens, keys, sheet.at, Underway \ {p})
    BY <1>2, <1>6, <1>7, <2>3, FitsReplied
  <2>5. QED
    BY <1>2, <1>8, <2>2, <2>4 DEF OnTime
<1> DEFINE fresh == Fresh(p.new)
           cut   == Revoked(sheet.tokens, p.key)
<1>9. fresh.id = p.new /\ fresh.active = TRUE
  BY DEF Fresh
<1>10. cut \in SUBSET Listed /\ RevokedIn(cut, sheet.tokens, p.key)
  BY <1>1, RevokedIs
<1> HIDE DEF fresh, cut
<1>11. CASE p.kind = "issue"
  <2> DEFINE list == sheet.tokens \cup {fresh}
  <2>1. Replied(sheet, p).tokens = list /\ Replied(sheet, p).person = sheet.person
    <3>1. Replied(sheet, p) = [sheet EXCEPT !.tokens = list]
      BY <1>11 DEF Replied, fresh
    <3>2. QED
      BY <1>1, <3>1 DEF SheetType
  <2>2. /\ \A i : ~Revokes(p, i)
        /\ \A i : Adds(p, i) => i = p.new
    BY <1>11 DEF Adds, Revokes
  <2>3. \A i : Adds(p, i) => \E m \in list : m.id = i /\ m.active = keys[i].active
    BY <1>4, <1>9, <1>11, <2>2
  <2>4. \A m \in list : /\ m.id \in DOMAIN keys /\ keys[m.id].of = sheet.at
                        /\ \/ m \in sheet.tokens /\ ~Revokes(p, m.id)
                           \/ m.active = keys[m.id].active
    BY <1>4, <1>6, <1>9, <1>11, <2>2
  <2>5. \A k \in sheet.tokens : k \in list
    OBVIOUS
  <2> HIDE DEF list
  <2>6. Fits(list, keys, sheet.at, Underway \ {p})
    BY <1>2, <1>7, <2>2, <2>3, <2>4, <2>5, FitsReplied
  <2>7. QED
    BY <1>2, <2>1, <2>6
<1>12. CASE p.kind = "revoke"
  <2>1. Replied(sheet, p).tokens = cut /\ Replied(sheet, p).person = sheet.person
    <3>1. Replied(sheet, p) = [sheet EXCEPT !.tokens = cut]
      BY <1>12 DEF Replied, cut
    <3>2. QED
      BY <1>1, <3>1 DEF SheetType
  <2>2. /\ \A i : Revokes(p, i) <=> i = p.key
        /\ \A i : ~Adds(p, i)
    BY <1>12 DEF Adds, Revokes
  <2>3. \A m \in cut : /\ m.id \in DOMAIN keys /\ keys[m.id].of = sheet.at
                       /\ \/ m \in sheet.tokens /\ ~Revokes(p, m.id)
                          \/ m.active = keys[m.id].active
    BY <1>3, <1>6, <1>10, <1>12, <2>2 DEF RevokedIn
  <2>4. /\ \A k \in sheet.tokens : Revokes(p, k.id) => \E m \in cut : m.id = k.id /\ m.active = FALSE
        /\ \A k \in sheet.tokens : ~Revokes(p, k.id) => k \in cut
    BY <1>10, <2>2 DEF RevokedIn
  <2>5. \A i : Adds(p, i) => \E m \in cut : m.id = i /\ m.active = keys[i].active
    BY <2>2
  <2>6. Fits(cut, keys, sheet.at, Underway \ {p})
    BY <1>2, <1>7, <2>3, <2>4, <2>5, FitsReplied
  <2>7. QED
    BY <1>2, <2>1, <2>6
<1>13. CASE p.kind = "rotate"
  <2> DEFINE list == cut \cup {fresh}
  <2>1. Replied(sheet, p).tokens = list /\ Replied(sheet, p).person = sheet.person
    <3>1. Replied(sheet, p) = [sheet EXCEPT !.tokens = list]
      BY <1>13 DEF Replied, cut, fresh
    <3>2. QED
      BY <1>1, <3>1 DEF SheetType
  <2>2. /\ \A i : Revokes(p, i) <=> i = p.key
        /\ \A i : Adds(p, i) => i = p.new
    BY <1>13 DEF Adds, Revokes
  <2>3. \A i : Adds(p, i) => \E m \in list : m.id = i /\ m.active = keys[i].active
    BY <1>4, <1>9, <1>13, <2>2
  <2>4. \A m \in list : /\ m.id \in DOMAIN keys /\ keys[m.id].of = sheet.at
                        /\ \/ m \in sheet.tokens /\ ~Revokes(p, m.id)
                           \/ m.active = keys[m.id].active
    <3>1. \A m \in cut : /\ m.id \in DOMAIN keys /\ keys[m.id].of = sheet.at
                         /\ \/ m \in sheet.tokens /\ ~Revokes(p, m.id)
                            \/ m.active = keys[m.id].active
      BY <1>3, <1>6, <1>10, <1>13, <2>2 DEF RevokedIn
    <3>2. fresh.id \in DOMAIN keys /\ keys[fresh.id].of = sheet.at /\ fresh.active = keys[fresh.id].active
      BY <1>4, <1>9, <1>13
    <3>3. QED
      BY <3>1, <3>2
  <2>5. /\ \A k \in sheet.tokens : Revokes(p, k.id) => \E m \in list : m.id = k.id /\ m.active = FALSE
        /\ \A k \in sheet.tokens : ~Revokes(p, k.id) => k \in list
    BY <1>10, <2>2 DEF RevokedIn
  <2> HIDE DEF list
  <2>6. Fits(list, keys, sheet.at, Underway \ {p})
    BY <1>2, <1>7, <2>3, <2>4, <2>5, FitsReplied
  <2>7. QED
    BY <1>2, <2>1, <2>6
<1>14. QED
  BY <1>5, <1>8, <1>11, <1>12, <1>13


\* A reply leaves the place of the page and what belongs to the directory.
LEMMA RepliedTyped ==
  ASSUME SheetInv, NEW p \in posts, p.stage = "done", p.here
  PROVE  LET s == Replied(sheet, p)
         IN  /\ s \in SheetType /\ s.at = sheet.at /\ s.texts = sheet.texts
             /\ s.loading = sheet.loading /\ s.form = sheet.form
             /\ p.kind # "save" => s.person = sheet.person
             /\ \A k \in s.tokens : k.id \in DOMAIN keys
<1>1. /\ sheet \in SheetType /\ p \in PostType /\ keys \in Seq(TokenRow)
      /\ sheet.tokens \in SUBSET Listed /\ p.new \in Nat
  BY DEF SheetInv, SheetTypeOK, SheetType, PostType
<1> DEFINE fresh == Fresh(p.new)
           cut   == Revoked(sheet.tokens, p.key)
<1>2. p.kind \in {"issue", "rotate"} => p.new \in DOMAIN keys
  BY DEF SheetInv, Numbered
<1>3. fresh \in Listed /\ fresh.id = p.new
  BY <1>1 DEF Fresh, Listed
<1>4. cut \in SUBSET Listed /\ RevokedIn(cut, sheet.tokens, p.key)
  BY <1>1, RevokedIs
<1>5. p.form \in Someone
  BY <1>1 DEF PostType
<1>6. \A k \in sheet.tokens : k.id \in DOMAIN keys
  BY DEF SheetInv, Numbered
<1>7. \A k \in cut : k.id \in DOMAIN keys
  BY <1>4, <1>6 DEF RevokedIn
<1>8. p.kind \in {"save", "issue", "revoke", "rotate"}
  BY <1>1 DEF PostType
<1> HIDE DEF fresh, cut
<1>9. ASSUME NEW list \in SUBSET Listed, \A k \in list : k.id \in DOMAIN keys,
             Replied(sheet, p) = [sheet EXCEPT !.tokens = list]
      PROVE  LET s == Replied(sheet, p)
             IN  /\ s \in SheetType /\ s.at = sheet.at /\ s.texts = sheet.texts
                 /\ s.loading = sheet.loading /\ s.form = sheet.form
                 /\ p.kind # "save" => s.person = sheet.person
                 /\ \A k \in s.tokens : k.id \in DOMAIN keys
  <2> DEFINE s == [sheet EXCEPT !.tokens = list]
  <2>1. /\ s \in SheetType /\ s.at = sheet.at /\ s.texts = sheet.texts
        /\ s.loading = sheet.loading /\ s.form = sheet.form
        /\ s.person = sheet.person /\ s.tokens = list
    BY <1>1 DEF SheetType
  <2> HIDE DEF s
  <2>2. Replied(sheet, p) = s
    BY <1>9 DEF s
  <2>3. QED
    BY <1>9, <2>1, <2>2
<1>10. CASE p.kind = "save"
  <2>1. Replied(sheet, p) = [sheet EXCEPT !.person = {p.form}]
    BY <1>10 DEF Replied
  <2> DEFINE s == [sheet EXCEPT !.person = {p.form}]
  <2>2. /\ s \in SheetType /\ s.at = sheet.at /\ s.texts = sheet.texts
        /\ s.loading = sheet.loading /\ s.form = sheet.form /\ s.tokens = sheet.tokens
    BY <1>1, <1>5 DEF SheetType
  <2> HIDE DEF s
  <2>3. Replied(sheet, p) = s
    BY <2>1 DEF s
  <2>4. QED
    BY <1>6, <1>10, <2>2, <2>3
<1>11. CASE p.kind = "issue"
  <2> DEFINE list == sheet.tokens \cup {fresh}
  <2>1. Replied(sheet, p) = [sheet EXCEPT !.tokens = list]
    BY <1>11 DEF Replied, fresh
  <2>2. list \in SUBSET Listed /\ \A k \in list : k.id \in DOMAIN keys
    BY <1>1, <1>2, <1>3, <1>6, <1>11
  <2> HIDE DEF list
  <2>3. QED
    BY <1>9, <2>1, <2>2
<1>12. CASE p.kind = "revoke"
  <2>1. Replied(sheet, p) = [sheet EXCEPT !.tokens = cut]
    BY <1>12 DEF Replied, cut
  <2>2. QED
    BY <1>4, <1>7, <1>9, <2>1
<1>13. CASE p.kind = "rotate"
  <2> DEFINE list == cut \cup {fresh}
  <2>1. Replied(sheet, p) = [sheet EXCEPT !.tokens = list]
    BY <1>13 DEF Replied, cut, fresh
  <2>2. list \in SUBSET Listed /\ \A k \in list : k.id \in DOMAIN keys
    BY <1>2, <1>3, <1>4, <1>7, <1>13
  <2> HIDE DEF list
  <2>3. QED
    BY <1>9, <2>1, <2>2
<1>14. QED
  BY <1>8, <1>10, <1>11, <1>12, <1>13

\* The page takes the reply.
LEMMA ReplyKeeps ==
  ASSUME SheetInv, ~spoiled, NEW p \in posts, Reply(p)
  PROVE  SheetInv'
<1> DEFINE late  == p.kind = "save" /\ p.jumped
           cause == p.here /\ \/ p.jumped
                              \/ p.kind = "save" /\ p.form # data[p.of]
                              \/ p.new # 0 /\ keys[p.new] # [of |-> sheet.at, active |-> TRUE]
           base  == Replied(sheet, p)
           s     == [base EXCEPT !.mixed = @ \/ late]
<1>1. /\ p.stage = "done" /\ posts' = posts \ {p} /\ StaleBy(cause)
      /\ sheet' = IF p.here THEN s ELSE sheet
      /\ route' = route /\ data' = data /\ keys' = keys /\ loads' = loads
      /\ batches' = batches /\ spoiled' = spoiled
  BY DEF Reply, Tables
<1>2. p \in PostType /\ sheet \in SheetType
  BY DEF SheetInv, SheetTypeOK
<1>3. late \in BOOLEAN
  BY <1>2 DEF PostType
<1>4. p.here => /\ base \in SheetType /\ base.at = sheet.at /\ base.texts = sheet.texts
                /\ base.loading = sheet.loading /\ base.form = sheet.form
                /\ p.kind # "save" => base.person = sheet.person
                /\ \A k \in base.tokens : k.id \in DOMAIN keys
  BY <1>1, RepliedTyped
<1>5. ~late => ~(p.kind = "save" /\ p.jumped)
  OBVIOUS
<1>6. cause \/ ~p.here \/ OnTime(p)
  BY DEF OnTime
<1>7. p.here => base.mixed = sheet.mixed
  <2>1. p.kind \in {"save", "issue", "revoke", "rotate"}
    BY <1>2 DEF PostType
  <2>2. CASE p.kind = "save"
    BY <1>2, <2>2 DEF Replied, SheetType
  <2>3. CASE p.kind = "issue"
    BY <1>2, <2>3 DEF Replied, SheetType
  <2>4. CASE p.kind = "revoke"
    BY <1>2, <2>4 DEF Replied, SheetType
  <2>5. CASE p.kind = "rotate"
    BY <1>2, <2>5 DEF Replied, SheetType
  <2>6. QED
    BY <2>1, <2>2, <2>3, <2>4, <2>5
<1> HIDE DEF late, cause, base
<1>8. p.here => /\ s \in SheetType /\ s.at = base.at /\ s.texts = base.texts
                /\ s.loading = base.loading /\ s.form = base.form /\ s.person = base.person
                /\ s.tokens = base.tokens /\ (~s.mixed => ~base.mixed /\ ~late)
  BY <1>3, <1>4 DEF SheetType
<1> HIDE DEF s
<1>9. /\ sheet' \in SheetType /\ sheet'.at = sheet.at /\ sheet'.texts = sheet.texts
      /\ sheet'.loading = sheet.loading /\ sheet'.form = sheet.form
      /\ (~sheet'.mixed => ~sheet.mixed)
      /\ \A k \in sheet'.tokens : k.id \in DOMAIN keys
  <2>1. CASE p.here
    BY <1>1, <1>4, <1>7, <1>8, <2>1
  <2>2. CASE ~p.here
    BY <1>1, <1>2, <2>2 DEF SheetInv, Numbered
  <2>3. QED
    BY <2>1, <2>2
<1>10. stale' \in BOOLEAN
  BY <1>1 DEF StaleBy
<1>11. SheetTypeOK'
  <2>1. IsFiniteSet(posts')
    BY <1>1, FS_Subset DEF SheetInv, SheetTypeOK
  <2>2. QED
    BY <1>1, <1>9, <1>10, <2>1 DEF SheetInv, SheetTypeOK
<1>12. OnePage' /\ IssuedOnce' /\ Numbered'
  <2>1. OnePage'
    BY <1>1, <1>9 DEF SheetInv, OnePage, OnPerson
  <2>2. IssuedOnce'
    BY <1>1, <1>9 DEF SheetInv, IssuedOnce
  <2>3. Numbered'
    BY <1>1, <1>9 DEF SheetInv, Numbered
  <2>4. QED
    BY <2>1, <2>2, <2>3
<1>13. Own'
  <2>1. OnPerson' /\ ~sheet'.mixed /\ sheet'.form # sheet'.at =>
          /\ sheet'.loading \/ sheet'.person = {}
          /\ \A q \in posts' : q.here => q.jumped
    <3>1. SUFFICES ASSUME OnPerson', ~sheet'.mixed, sheet'.form # sheet'.at
                   PROVE  /\ sheet'.loading \/ sheet'.person = {}
                          /\ \A q \in posts' : q.here => q.jumped
      OBVIOUS
    <3>2. OnPerson /\ ~sheet.mixed /\ sheet.form # sheet.at
      BY <1>9, <3>1 DEF OnPerson
    <3>3. /\ sheet.loading \/ sheet.person = {}
          /\ \A q \in posts : q.here => q.jumped
      BY <3>2 DEF SheetInv, Own, StillOwn
    <3>4. p.here => p.kind # "save"
      BY <1>1, <1>5, <1>8, <3>1, <3>3
    <3>5. sheet'.person = sheet.person
      BY <1>1, <1>4, <1>8, <3>4
    <3>6. QED
      BY <1>1, <1>9, <3>3, <3>5
  <2>2. /\ \A l \in loads' : l.served => l.is = l.of
        /\ \A q \in posts' : q.kind = "save" => q.form = q.of
    BY <1>1 DEF SheetInv, Own, StillOwn
  <2>3. QED
    BY <1>1, <2>1, <2>2, OwnStays
<1>14. Follows'
  <2>1. CASE UpToDate'
    BY <2>1, CurrentIsShown DEF Follows
  <2>2. CASE ~UpToDate' /\ OnPerson' /\ ~stale'
    <3>1. ~stale /\ ~cause /\ OnPerson
      BY <1>1, <1>9, <2>2 DEF StaleBy, OnPerson
    <3>2. CASE Filling
      BY <1>1, <3>2 DEF Follows, Filling
    <3>3. CASE AsPromised /\ ~p.here
      <4>1. Underway' = Underway
        BY <1>1, <3>3 DEF Underway
      <4>2. QED
        BY <1>1, <3>3, <4>1 DEF AsPromised, Follows
    <3>4. CASE AsPromised /\ p.here
      <4>1. /\ base.person = {data[sheet.at]}
            /\ Fits(base.tokens, keys, sheet.at, Underway \ {p})
        BY <1>1, <1>6, <3>1, <3>4, ReplyBringsNearer DEF base
      <4>2. Underway' = Underway \ {p}
        BY <1>1 DEF Underway
      <4>3. sheet'.person = base.person /\ sheet'.tokens = base.tokens
        BY <1>1, <1>8, <3>4
      <4>4. QED
        BY <1>1, <1>9, <4>1, <4>2, <4>3 DEF AsPromised, Follows
    <3>5. QED
      BY <3>1, <3>2, <3>3, <3>4 DEF SheetInv, Follows
  <2>3. QED
    BY <2>1, <2>2 DEF Follows
<1>15. QED
  BY <1>11, <1>12, <1>13, <1>14 DEF SheetInv


-----------------------------------------------------------------------------
(* The theorem. *)

\* At the start no page is open.
LEMMA SheetInitKeeps == SheetInit => SheetInv
<1> SUFFICES ASSUME SheetInit PROVE SheetInv
  OBVIOUS
<1>1. /\ sheet \in SheetType /\ sheet.at = "away" /\ sheet.texts = {} /\ sheet.tokens = {}
  BY DEF SheetInit, NoSheet, SheetType, Someone
<1>2. ~OnPerson
  BY <1>1, OtherPages DEF OnPerson
<1>3. SheetTypeOK
  <2>1. IsFiniteSet({})
    BY FS_EmptySet
  <2>2. keys \in Seq(TokenRow)
    BY DEF SheetInit
  <2>3. QED
    BY <1>1, <2>1, <2>2 DEF SheetInit, SheetTypeOK, Someone
<1>4. OnePage /\ Numbered /\ Follows
  BY <1>1, <1>2 DEF SheetInit, OnePage, Numbered, Follows
<1>5. IssuedOnce
  BY <1>1 DEF SheetInit, IssuedOnce, Theirs
<1>6. Own
  BY <1>2 DEF SheetInit, Own, StillOwn
<1>7. QED
  BY <1>3, <1>4, <1>5, <1>6 DEF SheetInv

\* Nothing that happens breaks the invariant.
LEMMA SheetStep ==
  ASSUME SheetInv, [SheetNext]_sheetVars
  PROVE  SheetInv'
<1>1. CASE UNCHANGED sheetVars
  <2>1. /\ route' = route /\ data' = data /\ keys' = keys /\ sheet' = sheet /\ loads' = loads
        /\ posts' = posts /\ batches' = batches /\ stale' = stale /\ spoiled' = spoiled
    BY <1>1 DEF sheetVars
  <2>2. SheetTypeOK' /\ OnePage' /\ IssuedOnce' /\ Own' /\ Numbered'
    BY <2>1 DEF SheetInv, SheetTypeOK, OnePage, IssuedOnce, Own, StillOwn, Numbered, OnPerson
  <2>3. Follows'
    BY <2>1 DEF SheetInv, Follows, Filling, AsPromised, Underway, OnPerson
  <2>4. QED
    BY <2>2, <2>3 DEF SheetInv
<1>2. CASE SheetNext
  <2>1. ~spoiled
    BY <1>2 DEF SheetNext
  <2>2. CASE OpenDirectory
    BY <2>1, <2>2, OpenDirectoryKeeps
  <2>3. CASE DirectoryArrives
    BY <2>1, <2>3, DirectoryArrivesKeeps
  <2>4. CASE handleBatchTokenGenerate
    BY <2>1, <2>4, BatchStartKeeps
  <2>5. CASE \E b \in batches, h \in Human : IssueOne(b, h)
    BY <2>1, <2>5, IssueOneKeeps
  <2>6. CASE \E h \in Human : OpenPerson(h) \/ JumpToPerson(h)
    BY <2>1, <2>6, OpenPersonKeeps, JumpKeeps
  <2>7. CASE \E l \in loads : ServeLoad(l) \/ LoadArrives(l) \/ LoadFails(l)
    BY <2>1, <2>7, ServeLoadKeeps, LoadArrivesKeeps, LoadFailsKeeps
  <2>8. CASE Leave
    BY <2>1, <2>8, LeaveKeeps
  <2>9. CASE TypeInForm
    BY <2>1, <2>9, TypeInFormKeeps
  <2>10. CASE handleSave \/ IssueToken \/ \E k \in sheet.tokens : RevokeOrRotate(k)
    BY <2>1, <2>10, PostsKeep
  <2>11. CASE \E p \in posts : ServePost(p) \/ Reply(p) \/ PostFails(p)
    BY <2>1, <2>11, ServePostKeeps, ReplyKeeps, PostFailsKeeps
  <2>12. CASE OthersChange
    BY <2>1, <2>12, OthersChangeKeeps
  <2>13. QED
    BY <1>2, <2>2, <2>3, <2>4, <2>5, <2>6, <2>7, <2>8, <2>9, <2>10, <2>11, <2>12
       DEF SheetNext
<1>3. QED
  BY <1>1, <1>2

\* The invariant says of the page what is promised of it.
LEMMA SheetInvShows == SheetInv => PersonPageIsTrue
<1> SUFFICES ASSUME SheetInv PROVE PersonPageIsTrue
  OBVIOUS
<1>1. RowsStayOnesOwn
  BY DEF SheetInv, Own, StillOwn, RowsStayOnesOwn
<1>2. TextsAreTheirs
  BY DEF SheetInv, IssuedOnce, Theirs, TextsAreTheirs
<1>3. PageShowsItsPerson
  <2> SUFFICES ASSUME Usable, loads = {}, posts = {}, ~stale
               PROVE  UpToDate
    BY DEF PageShowsItsPerson
  <2>1. Underway = {} /\ ~Filling
    BY DEF Underway, Filling
  <2>2. AsPromised
    BY <2>1 DEF SheetInv, Follows, Usable
  <2>3. sheet.tokens \in SUBSET Listed
    BY DEF SheetInv, SheetTypeOK, SheetType
  <2>4. sheet.tokens = KeysOf(sheet.at)
    BY <2>1, <2>2, <2>3, FitsIsAll DEF AsPromised
  <2>5. QED
    BY <2>2, <2>4 DEF UpToDate, AsPromised
<1>4. QED
  BY <1>1, <1>2, <1>3 DEF PersonPageIsTrue

\* Whatever the order of clicks, jumps and answers: no row gets what was loaded
\* or typed for another person, unless a late answer was saved; a batch names
\* each person once with a token of their own; and a page to which nothing is on
\* its way, and which nothing made out of date, shows its person and tokens.
THEOREM PersonPagesAlwaysTrue == SheetSpec => []PersonPageIsTrue
<1>1. SheetInit => SheetInv
  BY SheetInitKeeps
<1>2. SheetInv /\ [SheetNext]_sheetVars => SheetInv'
  BY SheetStep
<1>3. SheetInv => PersonPageIsTrue
  BY SheetInvShows
<1>4. QED
  BY <1>1, <1>2, <1>3, PTL DEF SheetSpec
=============================================================================
