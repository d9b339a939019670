------------------------------ MODULE Browsing ------------------------------
(***************************************************************************)
(* The HTML side of oob: a tab of a browser, the guard in front of every   *)
(* page, the page and form handlers, and the CSRF tokens of the forms, on  *)
(* top of SessionContract (which Sessions implements).                     *)
(*                                                                         *)
(* A request carries the refresh cookie of the moment it is sent; the      *)
(* guard looks the session up, the handler may look it up again, and the   *)
(* answer changes the cookie when it arrives.  Redirects are followed.     *)
(*                                                                         *)
(* Other tabs of the browser, the JSON and OAuth routes and other clients  *)
(* are the environment: they use the session store as it allows, and the   *)
(* answers this browser is sent for them put a cookie into its jar, or     *)
(* delete it, at any moment.  What handlers do to accounts and products is *)
(* in Accounts and Products.                                               *)
(***************************************************************************)
EXTENDS Naturals, FiniteSets

CONSTANTS
  MaxSession,  \* bound on the sessions opened
  MaxToken,    \* bound on the refresh tokens issued
  None         \* no cookie, no token

ASSUME BrowsingAssumption == {MaxSession, MaxToken} \subseteq Nat /\ None \notin Nat

(* Both are random in the code; all that matters is that each is new.      *)
Session == 1 .. MaxSession
Credential == 1 .. MaxToken

Public == {"/login", "/register"}
Pages == {"/dashboard", "/products", "/products/new"}
Protected == Pages \cup {"/products/delete"}
Path == {"/", "/logout"} \cup Public \cup Protected

VARIABLES
  phase, cred, used,  \* the session store: see SessionContract
  expired,  \* sessions whose expires_at has passed
  onway,    \* cookies in answers to other requests of this browser
  cookie,   \* the refresh cookie of the browser
  tab       \* the page the tab shows, or the request it waits for

store == <<phase, cred, used, expired>>
vars == <<phase, cred, used, expired, onway, cookie, tab>>

Store == INSTANCE SessionContract
-----------------------------------------------------------------------------
Cookie == [sid : Session, cred : Credential]

(* "page": shown; "sent": the request is on its way; "handler": the guard  *)
(* let it pass; "opened": login_user_service between its two statements;   *)
(* "write": about to change products; "reply": the answer is on its way.   *)
View == [at : {"page", "sent", "handler", "opened", "write", "reply"},
         name : Path \cup {"error"},   \* page or path; target of a redirect
         post : BOOLEAN,               \* request: a form was submitted
         goto : BOOLEAN,               \* answer: a redirect
         token : {"valid", "stale", None},  \* the CSRF token of the forms: signed
                                       \* with the CSRF_SECRET of now, or before
         cookie : Cookie \cup {None},  \* sent with the request, set by the answer
         clear : BOOLEAN,              \* answer: deletes the refresh cookie
         user : BOOLEAN,               \* request.state.user; page of a signed-in user
         sid : Session \cup {None},    \* session opened by this login
         dead : BOOLEAN,               \* history: the cookie sent opened no session
                                       \* before the last look at it
         out : BOOLEAN]                \* history: logged out (or about to be), and no
                                       \* cookie received since

Shown(name) ==
  [at |-> "page", name |-> name, post |-> FALSE, goto |-> FALSE, token |-> None,
   cookie |-> None, clear |-> FALSE, user |-> FALSE, sid |-> None, dead |-> FALSE,
   out |-> FALSE]

ErrorPage == Shown("error")

Init ==
  /\ Store!Init
  /\ expired = {} /\ onway = {} /\ cookie = None
  /\ tab = ErrorPage
-----------------------------------------------------------------------------
(* The browser.                                                            *)

Usable(c) == c # None /\ Store!Admits(c.sid, c.cred) /\ c.sid \notin expired

Request(name, c) ==
  [Shown(name) EXCEPT !.at = "sent", !.cookie = c, !.dead = ~Usable(c)]

Navigate(name) ==
  /\ tab.at = "page"
  /\ tab' = [Request(name, cookie) EXCEPT !.out = tab.out]
  /\ UNCHANGED <<store, onway, cookie>>

(* The forms of a page: those of signed-in users have a logout button.     *)
Forms(v) ==
  (IF v.name \in Public \cup {"/products/new"} THEN {v.name} ELSE {})
    \cup (IF v.name = "/products" /\ v.user THEN {"/products/delete"} ELSE {})
    \cup (IF v.user THEN {"/logout"} ELSE {})

Submit(name) ==
  /\ tab.at = "page" /\ name \in Forms(tab)
  /\ tab' = [Request(name, cookie) EXCEPT !.post = TRUE, !.token = tab.token,
                                          !.out = tab.out \/ name = "/logout"]
  /\ UNCHANGED <<store, onway, cookie>>

(* An answer is shown, or the redirect followed with the cookie of now, c. *)
Arrived(q, c, out) ==
  IF q.goto THEN [Request(q.name, c) EXCEPT !.out = out]
  ELSE [q EXCEPT !.at = "page", !.out = out]

(* An answer without a refresh cookie arrives.                             *)
Deliver ==
  /\ tab.at = "reply" /\ tab.cookie = None /\ ~tab.clear
  /\ tab' = Arrived(tab, cookie, tab.out)
  /\ UNCHANGED <<store, onway, cookie>>

(* The answer to a login arrives, whoever the browser belonged to before.  *)
DeliverLogin ==
  /\ tab.at = "reply" /\ tab.cookie # None
  /\ cookie' = tab.cookie
  /\ tab' = Arrived(tab, cookie', FALSE)
  /\ UNCHANGED <<store, onway>>

(* A slip: the answer to a logout deletes nothing.                         *)
DeliverRedirect(hostOnly) ==
  /\ tab.at = "reply" /\ tab.clear
  /\ tab' = Arrived(tab, cookie, tab.out \/ hostOnly)
  /\ UNCHANGED <<store, onway, cookie>>

(* The answer to a logout arrives.  delete_cookie names no domain, so it   *)
(* misses a cookie set for COOKIE_DOMAIN (~hostOnly).                      *)
DeliverLogout(hostOnly) ==
  /\ tab.at = "reply" /\ tab.clear
  /\ cookie' = IF hostOnly THEN None ELSE cookie
  /\ tab' = Arrived(tab, cookie', tab.out \/ hostOnly)
  /\ UNCHANGED <<store, onway>>

(* The answer to another request of this browser sets its cookie.          *)
Land ==
  /\ \E c \in onway : cookie' = c /\ onway' = onway \ {c}
  /\ tab' = [tab EXCEPT !.out = FALSE]
  /\ UNCHANGED store

(* max_age has passed, another tab logs out, the user deletes cookies.     *)
Forget ==
  /\ cookie' = None
  /\ UNCHANGED <<store, onway, tab>>
-----------------------------------------------------------------------------
(* The guard.                                                              *)

(* _get_user_from_refresh_cookie finds a user.                             *)
Opens(c) == c # None /\ Store!Admits(c.sid, c.cred) /\ c.sid \notin expired

(* Answers to request q; a redirect makes the browser send a GET.          *)
Redirect(q, name) ==
  [q EXCEPT !.at = "reply", !.name = name, !.post = FALSE, !.goto = TRUE, !.token = None,
            !.cookie = None, !.sid = None, !.user = FALSE]

Page(q, name, token) ==
  [q EXCEPT !.at = "reply", !.name = name, !.post = FALSE, !.token = token, !.cookie = None]

Refusal(q) == [Page(q, "error", None) EXCEPT !.user = FALSE]

Answer(reply) ==
  /\ tab' = reply
  /\ UNCHANGED <<store, onway, cookie>>

(* A slip: whoever has a refresh cookie is sent from /login to /dashboard. *)
GuardByCookie ==
  LET q == [tab EXCEPT !.user = Opens(tab.cookie)] IN
  /\ q.at = "sent"
  /\ Answer(IF q.name = "/" THEN Redirect(q, IF q.user THEN "/dashboard" ELSE "/login")
            ELSE IF q.name \in Public /\ q.cookie # None THEN Redirect(q, "/dashboard")
            ELSE IF q.name \in Protected /\ ~q.user THEN Redirect(q, "/login")
            ELSE [q EXCEPT !.at = "handler"])

(* UiAuthRedirectMiddleware.dispatch; /logout is neither public nor        *)
(* protected.                                                              *)
Guard ==
  LET q == [tab EXCEPT !.user = Opens(tab.cookie)] IN
  /\ q.at = "sent"
  /\ Answer(IF q.name = "/" THEN Redirect(q, IF q.user THEN "/dashboard" ELSE "/login")
            ELSE IF q.name \in Public /\ q.user THEN Redirect(q, "/dashboard")
            ELSE IF q.name \in Protected /\ ~q.user THEN Redirect(q, "/login")
            ELSE [q EXCEPT !.at = "handler"])
-----------------------------------------------------------------------------
(* The handlers.                                                           *)

(* verify_csrf: signed with the secret of now.  The csrf_token cookie,     *)
(* which every answer with a new token sets, is ignored and left out here. *)
VerifyCsrf == tab.token = "valid"

Handled(name, post) == tab.at = "handler" /\ tab.name = name /\ tab.post = post

(* The handlers of GET.  /products/new is for sellers and administrators.  *)
GetPage ==
  \E name \in Public \cup Pages :
    /\ Handled(name, FALSE)
    /\ \/ Answer(Page(tab, name, "valid"))
       \/ name = "/products/new" /\ Answer(Refusal(tab))

(* POST /login that is refused: a bad token or an empty field renders the  *)
(* form without a token, wrong credentials render it with a new one.       *)
LoginRefused ==
  /\ Handled("/login", TRUE)
  /\ \/ Answer(Page(tab, "/login", None))
     \/ VerifyCsrf /\ Answer(Page(tab, "/login", "valid"))

NextSession == Cardinality({s \in Session : phase[s] # "absent"}) + 1
NextCredential == Cardinality(used) + 1

(* login_user_service inserts the session, ...                             *)
LoginOpens ==
  /\ Handled("/login", TRUE) /\ VerifyCsrf
  /\ NextSession \in Session /\ NextCredential \in Credential
  /\ Store!Open(NextSession)
  /\ tab' = [tab EXCEPT !.at = "opened", !.sid = NextSession]
  /\ UNCHANGED <<expired, onway, cookie>>

Install(s, c) == cred' = [cred EXCEPT ![s] = c] /\ Store!Install(s)

(* A slip: the answer carries the token that the row had before.           *)
LoginAnswersEarly ==
  /\ tab.at = "opened"
  /\ Install(tab.sid, NextCredential)
  /\ tab' = [Redirect(tab, "/dashboard") EXCEPT
               !.cookie = [sid |-> tab.sid, cred |-> cred[tab.sid]]]
  /\ UNCHANGED <<expired, onway, cookie>>

(* ... and stores its first refresh token, which goes into the cookie.     *)
LoginInstalls ==
  /\ tab.at = "opened"
  /\ Install(tab.sid, NextCredential)
  /\ tab' = [Redirect(tab, "/dashboard") EXCEPT
               !.cookie = [sid |-> tab.sid, cred |-> NextCredential]]
  /\ UNCHANGED <<expired, onway, cookie>>

(* POST /register: an account is made, or it is refused.                   *)
Register ==
  /\ Handled("/register", TRUE)
  /\ \/ ~VerifyCsrf /\ Answer(Page(tab, "/register", None))
     \/ VerifyCsrf /\ Answer(Page(tab, "/register", "valid"))
     \/ VerifyCsrf /\ Answer(Redirect(tab, "/login"))

(* POST /logout with a bad token changes nothing.                          *)
LogoutRefused ==
  /\ Handled("/logout", TRUE) /\ ~VerifyCsrf
  /\ Answer([Redirect(tab, "/login") EXCEPT !.out = FALSE])

(* POST /logout: the session the cookie names is revoked, whatever its     *)
(* token, and a failure (~ok) is swallowed; the cookie is deleted anyway.  *)
Logout(ok) ==
  LET c == tab.cookie IN
  /\ Handled("/logout", TRUE) /\ VerifyCsrf
  /\ Store!Close(IF ok /\ c # None /\ phase[c.sid] = "open" THEN {c.sid} ELSE {})
  /\ tab' = [Redirect(tab, "/login") EXCEPT !.clear = TRUE, !.out = @ /\ ok]
  /\ UNCHANGED <<expired, onway, cookie>>

(* A slip: the handler of a deletion relies on the guard.                  *)
DeleteFormGuarded ==
  /\ Handled("/products/delete", TRUE)
  /\ Answer(IF ~VerifyCsrf THEN Redirect(tab, "/products") ELSE [tab EXCEPT !.at = "write"])

(* POST /products/{id}/delete looks the session up again, POST             *)
(* /products/new trusts request.state.user and checks the role.            *)
DeleteForm ==
  /\ Handled("/products/delete", TRUE)
  /\ Answer(IF ~VerifyCsrf THEN Redirect(tab, "/products")
            ELSE IF ~Opens(tab.cookie) THEN Redirect(tab, "/login")
            ELSE [tab EXCEPT !.at = "write"])

NewForm ==
  /\ Handled("/products/new", TRUE)
  /\ \/ ~VerifyCsrf /\ Answer(Redirect(tab, "/products"))
     \/ VerifyCsrf /\ Answer([tab EXCEPT !.at = "write"])
     \/ VerifyCsrf /\ Answer(Refusal(tab))

(* The service writes, or refuses: 403, or the form again with the error.  *)
Write ==
  /\ tab.at = "write"
  /\ \/ Answer(Redirect(tab, "/products"))
     \/ Answer(Refusal(tab))
     \/ tab.name = "/products/new" /\ Answer(Page(tab, "/products/new", "valid"))

(* Whether a logout that gets no answer has been handled is not known.     *)
NoAnswer == [ErrorPage EXCEPT !.out = tab.out /\ tab.name # "/logout"]

(* The connection breaks or the worker dies.                               *)
Break ==
  /\ tab.at # "page"
  /\ Answer(NoAnswer)

(* A new CSRF_SECRET and a restart: handlers die, requests on their way    *)
(* reach the new process, tokens that are out are stale.                   *)
Rotate ==
  Answer(IF tab.at \in {"handler", "opened", "write"} THEN NoAnswer
         ELSE [tab EXCEPT !.token = IF @ = "valid" THEN "stale" ELSE @])
-----------------------------------------------------------------------------
(* Request q while session s is closed, expires or gets another token: the *)
(* guard looks at its cookie, and the handler of a deletion once more.     *)
Meanwhile(q, s) ==
  [q EXCEPT !.dead = \/ @
                     \/ /\ q.cookie # None /\ q.cookie.sid = s
                        /\ \/ q.at = "sent"
                           \/ q.at = "handler" /\ q.name = "/products/delete"]

(* Elsewhere: logins and refreshes of this or another browser, ...         *)
OpenElsewhere ==
  /\ NextSession \in Session /\ Store!Open(NextSession)
  /\ UNCHANGED <<expired, onway, cookie, tab>>

(* (the bound leaves a token for the login of this tab)                    *)
InstallElsewhere(s, ours) ==
  /\ tab.at = "opened" => tab.sid # s /\ NextCredential < MaxToken
  /\ NextCredential \in Credential /\ Install(s, NextCredential)
  /\ expired' = expired \ {s}
  /\ onway' = IF ours THEN onway \cup {[sid |-> s, cred |-> NextCredential]} ELSE onway
  /\ tab' = Meanwhile(tab, s)
  /\ UNCHANGED cookie

(* ... revocations, and time.                                              *)
CloseElsewhere(s) ==
  /\ Store!Close({s})
  /\ tab' = Meanwhile(tab, s)
  /\ UNCHANGED <<expired, onway, cookie>>

Expire(s) ==
  /\ phase[s] = "open" /\ s \notin expired
  /\ expired' = expired \cup {s}
  /\ tab' = Meanwhile(tab, s)
  /\ UNCHANGED <<phase, cred, used, onway, cookie>>
-----------------------------------------------------------------------------
Surf ==
  \/ \E name \in {"/"} \cup Public \cup Pages : Navigate(name)
  \/ \E name \in Path : Submit(name)

Handle ==
  \/ GetPage \/ LoginRefused \/ LoginOpens \/ LoginInstalls \/ Register
  \/ LogoutRefused \/ \E ok \in BOOLEAN : Logout(ok)
  \/ DeleteForm \/ NewForm \/ Write

Serve ==
  \/ Guard \/ Handle
  \/ Deliver \/ DeliverLogin \/ \E hostOnly \in BOOLEAN : DeliverLogout(hostOnly)

Elsewhere ==
  \/ OpenElsewhere \/ Land \/ Forget \/ Rotate
  \/ \E s \in Session, ours \in BOOLEAN : InstallElsewhere(s, ours)
  \/ \E s \in Session : CloseElsewhere(s) \/ Expire(s)

Next == Surf \/ Serve \/ Break \/ Elsewhere

(* The event loop of a worker runs every handler, and an answer that is    *)
(* not lost arrives.                                                       *)
Spec == Init /\ [][Next]_vars /\ WF_vars(Serve)
-----------------------------------------------------------------------------
(***************************************************************************)
(* Properties                                                              *)
(***************************************************************************)

(* The type of every variable.                                             *)
TypeOK ==
  /\ phase \in [Session -> {"absent", "open", "closed"}]
  /\ cred \in [Session -> Credential \cup {None}]
  /\ used \subseteq Credential /\ expired \subseteq Session
  /\ onway \subseteq Cookie /\ cookie \in Cookie \cup {None}
  /\ tab \in View

(* Every request ends on a page: guard and handlers never disagree so      *)
(* lastingly that the browser is sent from /login to /dashboard and back,  *)
(* whatever becomes of sessions and cookies meanwhile.                     *)
EveryNavigationLands == tab.at # "page" ~> tab.at = "page"

(* A cookie that opens no session when a request is sent, or no longer     *)
(* when the guard looks at it, gets no protected page and no change of a   *)
(* product; and if its session is closed, expires or gets another token    *)
(* between the guard's look and the second one of a deletion               *)
(* (product_delete_ui), it deletes nothing.                                *)
DeadCookieOpensNothing ==
  tab.dead =>
    /\ tab.at # "write"
    /\ tab.at \in {"page", "reply"} /\ ~tab.goto => tab.name \notin Pages

(* Who has logged out is shown no protected page and changes no product,   *)
(* whatever is requested next, until an answer to a login or refresh gives *)
(* the browser a cookie: also when the revocation failed (the cookie is    *)
(* gone), and also with COOKIE_DOMAIN (the cookie stays but its session is *)
(* revoked); only not with both.                                           *)
LogoutIsOut ==
  tab.out => /\ tab.at # "write"
             /\ tab.at = "page" => tab.name \notin Pages

(* README line 84, "For HTML forms use a hidden token with CSRF_SECRET":   *)
(* every page with a form has a token.                                     *)
EveryFormHasToken == tab.at = "page" /\ Forms(tab) # {} => tab.token # None
=============================================================================
