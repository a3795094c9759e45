----------------------------- MODULE WebSession -----------------------------
(***************************************************************************)
(* Who a tab of the web console acts for.  A tab remembers a token, shows  *)
(* a principal, and has a socket that the server accepted for a principal. *)
(* The tabs of a browser share localStorage, from which a tab reads only   *)
(* when it is loaded: one tab is modelled, the others by what they store.  *)
(* A token of an administrator is worthless after a restart of the server  *)
(* (no JWT_SECRET is configured), one of a person is looked up in          *)
(* person_tokens every time; a socket keeps the token it was made with and *)
(* is not made again when the server refuses it.                           *)
(*                                                                         *)
(* Left out: the expiry of a token after thirty days, and the pages        *)
(* themselves (see LivePages).                                             *)
(***************************************************************************)
EXTENDS Naturals, Sequences

CONSTANTS Person, Machine, Password,
          admin, guest,
          MaxTokens, MaxRestarts   \* bounds: rows of person_tokens, starts of the server

VARIABLES
  secret,    \* JWT_SECRET, as the number of the start that made it
  password,  \* the setting, or guest
  tokens,    \* person_tokens: [person, active] by row
  usable,    \* persons whose status is active
  access,    \* enabled bindings: <<person, machine>>
  stored,    \* localStorage "auth_token"
  tab        \* the tab, see ClosedTab

webVars == <<secret, password, tokens, usable, access, stored, tab>>
tables  == <<secret, password, tokens, usable, access>>

Jwt(n)   == [of |-> admin, row |-> n]
NoToken  == [of |-> guest, row |-> 0]
RowTokens == {[of |-> tokens[i].person, row |-> i] : i \in DOMAIN tokens}

(***************************************************************************)
(* The server.                                                             *)
(***************************************************************************)
verifyToken(token)       == token.of = admin /\ token.row = secret
verifyPersonToken(token) == token.of \in Person /\ tokens[token.row].active

\* The principal a token stands for at this moment.
authMiddleware(token) ==
  IF verifyToken(token) THEN admin
  ELSE IF verifyPersonToken(token) /\ token.of \in usable THEN token.of
  ELSE guest

canAccessServer(who, m) == who = admin \/ <<who, m>> \in access

createPersonToken(p) ==
  /\ Len(tokens) < MaxTokens
  /\ tokens' = Append(tokens, [person |-> p, active |-> TRUE])
  /\ UNCHANGED <<secret, password, usable, access, stored, tab>>
revokePersonToken(i) ==
  /\ tokens' = [tokens EXCEPT ![i].active = FALSE]
  /\ UNCHANGED <<secret, password, usable, access, stored, tab>>
rotatePersonToken(i) ==
  /\ Len(tokens) < MaxTokens
  /\ tokens' = Append([tokens EXCEPT ![i].active = FALSE],
                      [person |-> tokens[i].person, active |-> TRUE])
  /\ UNCHANGED <<secret, password, usable, access, stored, tab>>

\* What an administrator does to persons and bindings elsewhere.
PersonChanges(p) ==
  /\ usable' = IF p \in usable THEN usable \ {p} ELSE usable \cup {p}
  /\ UNCHANGED <<secret, password, tokens, access, stored, tab>>
BindingChanges(p, m) ==
  /\ access' = IF <<p, m>> \in access THEN access \ {<<p, m>>} ELSE access \cup {<<p, m>>}
  /\ UNCHANGED <<secret, password, tokens, usable, stored, tab>>

(***************************************************************************)
(* A tab.  Its one request in flight is checkAuth while it starts, login   *)
(* on the login page, any other fetch afterwards.                          *)
(***************************************************************************)
NoCall == [kind |-> "none", at |-> "none", token |-> NoToken, who |-> guest]
Sent(kind, token) == [kind |-> kind, at |-> "sent", token |-> token, who |-> guest]

ClosedTab ==
  [view |-> "closed", token |-> NoToken, call |-> NoCall,
   socket |-> "none", sent |-> NoToken, as |-> guest,   \* as: socket.data.principal
   shown |-> guest, leaving |-> FALSE,
   told |-> {}]    \* of what it was told: had the one shown access to it then?

connect(r) ==
  IF r.socket = "open" THEN r
  ELSE [r EXCEPT !.socket = "opening", !.sent = r.token, !.as = guest]
disconnect(r) == [r EXCEPT !.socket = "none", !.sent = NoToken, !.as = guest]

Loaded ==
  connect([ClosedTab EXCEPT
    !.token = stored,
    !.view = IF stored = NoToken THEN "login" ELSE "boot",
    !.call = IF stored = NoToken THEN NoCall ELSE Sent("check", stored)])

\* Opened, reloaded by the user, or sent to /login by a refused request.
Load ==
  /\ tab' = Loaded
  /\ UNCHANGED <<tables, stored>>
Close ==
  /\ tab.view # "closed"
  /\ tab' = ClosedTab
  /\ UNCHANGED <<tables, stored>>

Fetch ==
  /\ tab.view = "app" /\ tab.call = NoCall
  /\ tab' = [tab EXCEPT !.call = Sent("fetch", tab.token)]
  /\ UNCHANGED <<tables, stored>>

\* What is typed: a token, or a password, which the row stands for.
SubmitLogin(typed) ==
  /\ tab.view = "login" /\ tab.call = NoCall
  /\ tab' = [tab EXCEPT !.call = Sent("login", typed)]
  /\ UNCHANGED <<tables, stored>>

Served(token, who) ==
  tab' = [tab EXCEPT !.call = [@ EXCEPT !.at = "served", !.token = token, !.who = who]]
Waiting(kinds) == tab.call.at = "sent" /\ tab.call.kind \in kinds

ServeRequest ==
  /\ Waiting({"check", "fetch"})
  /\ Served(tab.call.token, authMiddleware(tab.call.token))
  /\ UNCHANGED <<tables, stored>>
\* The first password ever typed becomes the password.
ServePassword ==
  /\ Waiting({"login"}) /\ tab.call.token.of = admin
  /\ LET typed == tab.call.token.row
     IN  /\ password' = IF password = guest THEN typed ELSE password
         /\ IF password' = typed THEN Served(Jwt(secret), admin) ELSE Served(NoToken, guest)
  /\ UNCHANGED <<secret, tokens, usable, access, stored>>
ServeAccessToken ==
  /\ Waiting({"login"}) /\ tab.call.token.of \in Person
  /\ Served(tab.call.token, authMiddleware(tab.call.token))
  /\ UNCHANGED <<tables, stored>>

Arrived(kinds) == tab.call.at = "served" /\ tab.call.kind \in kinds

SessionArrives ==
  /\ Arrived({"check"}) /\ tab.call.who # guest
  /\ tab' = [tab EXCEPT !.view = "app", !.shown = tab.call.who, !.call = NoCall]
  /\ UNCHANGED <<tables, stored>>

\* 401: the tab forgets the token, for the other tabs too, and is on its way
\* to /login.
Unauthorized ==
  /\ Arrived({"check", "fetch"}) /\ tab.call.who = guest
  /\ stored' = NoToken
  /\ tab' = [tab EXCEPT !.token = NoToken, !.leaving = TRUE, !.call = NoCall,
                        !.view = IF @ = "boot" THEN "login" ELSE @]
  /\ UNCHANGED tables

\* Any other failure: checkAuth takes it for a missing session.
CallFails ==
  /\ tab.call # NoCall
  /\ tab' = [tab EXCEPT !.call = NoCall, !.view = IF @ = "boot" THEN "login" ELSE @]
  /\ UNCHANGED <<tables, stored>>

\* Mutant: the socket of the earlier session is kept.
WithTokenOnly(r) == connect(r)

WithNewSocket(r) == connect(disconnect(r))

LoginArrives ==
  /\ Arrived({"login"}) /\ tab.call.who # guest
  /\ stored' = tab.call.token
  /\ tab' = WithNewSocket([tab EXCEPT !.token = tab.call.token, !.shown = tab.call.who,
                                      !.view = "app", !.call = NoCall])
  /\ UNCHANGED tables

(***************************************************************************)
(* The socket of a tab.                                                    *)
(***************************************************************************)
socketAuthMiddleware ==
  /\ tab.socket = "opening"
  /\ LET who == authMiddleware(tab.sent)
     IN  tab' = [tab EXCEPT !.socket = IF who = guest THEN "refused" ELSE "open", !.as = who]
  /\ UNCHANGED <<tables, stored>>

Broken(r) == IF r.socket = "open" THEN [r EXCEPT !.socket = "opening", !.as = guest] ELSE r
ConnectionBreaks ==
  /\ tab.socket = "open"
  /\ tab' = Broken(tab)
  /\ UNCHANGED <<tables, stored>>

\* Requests that were not served fail, which CallFails allows at any time.
RestartServer ==
  /\ secret < MaxRestarts /\ secret' = secret + 1
  /\ tab' = Broken(tab)
  /\ UNCHANGED <<password, tokens, usable, access, stored>>

\* createUIBroadcast: the bindings are read for every event and socket; a tab
\* listens while its pages are up.
Deliver(audience) ==
  /\ tab.socket = "open" /\ tab.as \in audience /\ tab.view = "app"
  /\ tab' = [tab EXCEPT !.told = @ \cup {tab.shown \in audience}]
  /\ UNCHANGED <<tables, stored>>
metricsUpdate(m) == Deliver({who \in Person \cup {admin} : canAccessServer(who, m)})
alertStateChange == Deliver({admin})

(***************************************************************************)
(* Behaviours.                                                             *)
(***************************************************************************)
WebInit ==
  /\ secret = 1 /\ password = guest /\ tokens = <<>> /\ usable = Person /\ access = {}
  /\ stored = NoToken /\ tab = ClosedTab

Typed == {[of |-> admin, row |-> w] : w \in Password} \cup RowTokens

\* Another tab of the browser logs in, or is refused.
OtherTab ==
  /\ stored' \in {NoToken, Jwt(secret)} \cup {x \in RowTokens : authMiddleware(x) # guest}
  /\ UNCHANGED <<tables, tab>>

\* A tab that is leaving makes no calls before it is loaded again.
TabNext ==
  \/ Load \/ Close
  \/ /\ ~tab.leaving
     /\ \/ Fetch \/ (\E typed \in Typed : SubmitLogin(typed))
        \/ SessionArrives \/ LoginArrives \/ Unauthorized \/ CallFails
  \/ ServeRequest \/ ServePassword \/ ServeAccessToken
  \/ socketAuthMiddleware \/ ConnectionBreaks

WebNext ==
  \/ TabNext \/ OtherTab
  \/ \E p \in Person : createPersonToken(p) \/ PersonChanges(p)
  \/ \E p \in Person, m \in Machine : BindingChanges(p, m)
  \/ \E i \in DOMAIN tokens : revokePersonToken(i) \/ rotatePersonToken(i)
  \/ RestartServer
  \/ \E m \in Machine : metricsUpdate(m)
  \/ alertStateChange

WebSpec == WebInit /\ [][WebNext]_webVars

(***************************************************************************)
(* Properties.                                                             *)
(***************************************************************************)
\* The three identities of a tab are one: while pages are shown, the principal
\* they are shown for is the owner of the token the tab sends and the one the
\* server accepted its socket for, and everything the tab was told was for
\* that principal's eyes when it was told.
SessionIsOne ==
  tab.view = "app" =>
    /\ tab.shown # guest
    /\ ~tab.leaving => tab.token.of = tab.shown
    /\ tab.socket = "open" => tab.as = tab.shown
    /\ FALSE \notin tab.told
=============================================================================
