-------------------------------- MODULE OAuth --------------------------------
(***************************************************************************)
(* Sign-in through Google and Twitter: the start routes, which leave a     *)
(* signed state (and for Twitter a PKCE verifier) in cookies that live     *)
(* five minutes, the provider, and the callback routes, which compare the  *)
(* cookies with what comes back.                                           *)
(*                                                                         *)
(* Nothing of a sign-in is kept on the server between start and callback:  *)
(* everything is in the cookie jar of the browser, which its tabs share,   *)
(* and in the URLs, which can be reloaded or opened elsewhere.             *)
(***************************************************************************)
EXTENDS Naturals, Sequences

CONSTANTS
  Browser,    \* cookie jars
  Tab,        \* windows that can be in the middle of a sign-in
  Home,       \* Home[t]: the browser tab t belongs to
  CookieTTL,  \* max_age of the cookies (300 seconds)
  MaxStart,   \* bound on the sign-ins started
  MaxTime,    \* bound on the clock
  MaxSecret,  \* bound on the values of CSRF_SECRET
  None        \* no cookie, no parameter

ASSUME OAuthAssumption ==
  /\ Home \in [Tab -> Browser]
  /\ {CookieTTL, MaxStart, MaxTime, MaxSecret} \subseteq Nat
  /\ None \notin Nat

VARIABLES
  flows,    \* flows[n]: the n-th sign-in, the secret its state is signed with,
            \* and (history) who started it
  jar,      \* jar[b][c] is cookie c of browser b
  tab,      \* tab[t]: what tab t shows, or the request it waits for
  granted,  \* codes the provider has exchanged for tokens
  entered,  \* history: entered[b]: sign-ins whose session browser b was given
  due,      \* history: due[b][p]: the sign-in through p that browser b left for
            \* last, unless one through p has succeeded since
  secret,   \* the value of CSRF_SECRET, which also signs states
  hostOnly, \* COOKIE_DOMAIN is empty
  now

config == <<secret, hostOnly>>
vars == <<flows, jar, tab, granted, entered, due, secret, hostOnly, now>>
-----------------------------------------------------------------------------
Provider == {"google", "twitter"}

(* State, verifier, challenge and code of the n-th sign-in are n: all are  *)
(* random and as good as unique.                                           *)
Flow == [prov : Provider, by : Browser, key : Nat]

(* A slip: both providers use the cookie name oauth_state.                 *)
OneStateCookie == [google |-> "oauth_state", twitter |-> "oauth_state"]

StateCookie == [google |-> "oauth_state", twitter |-> "oauth_state_tw"]
PkceCookie == "oauth_tw_pkce"
CookieName == {"oauth_state", "oauth_state_tw", "oauth_tw_pkce"}

Cookie == [val : Nat, until : Nat]

(* "starting": the start route has answered, the answer is on its way;     *)
(* "consent": the provider's page; "callback": the request with code and   *)
(* state is on its way; "exchange", "profile": the handler awaits the      *)
(* provider; "reply": it has answered; "error": the answer was 400 or 401. *)
View == [at : {"home", "starting", "consent", "callback", "exchange", "profile", "reply", "error"},
         prov : Provider \cup {None},
         state : Nat \cup {None},      \* state (and code) of the URL
         code : BOOLEAN,               \* the URL carries a code
         sent : [CookieName -> Nat \cup {None}],  \* cookies that came with it
         due : BOOLEAN]       \* history: sent for the sign-in that was due

NoCookies == [c \in CookieName |-> None]

HomePage == [at |-> "home", prov |-> None, state |-> None, code |-> FALSE,
             sent |-> NoCookies, due |-> FALSE]

Init ==
  /\ flows = <<>>
  /\ jar = [b \in Browser |-> NoCookies]
  /\ tab = [t \in Tab |-> HomePage]
  /\ granted = {}
  /\ entered = [b \in Browser |-> {}]
  /\ due = [b \in Browser |-> [p \in Provider |-> None]]
  /\ secret = 0
  /\ hostOnly \in BOOLEAN
  /\ now = 0
-----------------------------------------------------------------------------
(* The cookies a browser sends: those whose max_age has not passed.        *)
Sent(b) == [c \in CookieName |->
              IF jar[b][c] # None /\ jar[b][c].until > now THEN jar[b][c].val ELSE None]

(* The cookies the answer of a start sets: state, for Twitter a verifier.  *)
StartCookies(p) == {StateCookie[p]} \cup IF p = "twitter" THEN {PkceCookie} ELSE {}

(* GET /oauth/{p}/start: state and verifier are drawn, the cookies and the *)
(* provider's URL go into the answer.                                      *)
Start(t, p) ==
  /\ tab[t].at \in {"home", "consent", "error"} /\ Len(flows) < MaxStart
  /\ flows' = Append(flows, [prov |-> p, by |-> Home[t], key |-> secret])
  /\ tab' = [tab EXCEPT ![t] = [HomePage EXCEPT !.at = "starting", !.prov = p,
                                                !.state = Len(flows) + 1]]
  /\ UNCHANGED <<jar, granted, entered, due, config, now>>

(* A slip: a verifier that is already there is kept.                       *)
KeepOldVerifier(t) ==
  LET b == Home[t] IN
  /\ tab[t].at = "starting"
  /\ jar' = [jar EXCEPT ![b] = [c \in CookieName |->
       IF c \in StartCookies(tab[t].prov) /\ ~(c = PkceCookie /\ Sent(b)[c] # None)
         THEN [val |-> tab[t].state, until |-> now + CookieTTL] ELSE jar[b][c]]]
  /\ due' = [due EXCEPT ![b][tab[t].prov] = [val |-> tab[t].state, until |-> now + CookieTTL]]
  /\ tab' = [tab EXCEPT ![t].at = "consent"]
  /\ UNCHANGED <<flows, granted, entered, config, now>>

(* The answer arrives; the browser stores the cookies and follows the URL. *)
Leave(t) ==
  LET b == Home[t] IN
  /\ tab[t].at = "starting"
  /\ jar' = [jar EXCEPT ![b] = [c \in CookieName |->
       IF c \in StartCookies(tab[t].prov)
         THEN [val |-> tab[t].state, until |-> now + CookieTTL] ELSE jar[b][c]]]
  /\ due' = [due EXCEPT ![b][tab[t].prov] = [val |-> tab[t].state, until |-> now + CookieTTL]]
  /\ tab' = [tab EXCEPT ![t].at = "consent"]
  /\ UNCHANGED <<flows, granted, entered, config, now>>

(* History: b left for n last, and less than CookieTTL ago.                *)
Due(b, p, n) == due[b][p] # None /\ due[b][p].val = n /\ due[b][p].until > now

(* A slip: an absent code is passed on as it is, not as "".                *)
NoCode(t, url, ok) ==
  [url EXCEPT !.at = "callback", !.code = IF ok THEN TRUE ELSE None, !.sent = Sent(Home[t]),
              !.due = Due(Home[t], url.prov, url.state)]

(* The request for the callback, with the cookies of the moment.           *)
Request(t, url, ok) ==
  [url EXCEPT !.at = "callback", !.code = ok, !.sent = Sent(Home[t]),
              !.due = Due(Home[t], url.prov, url.state)]

(* The provider sends the browser back, with a code if the user agreed.    *)
Return(t, ok) ==
  /\ tab[t].at = "consent"
  /\ tab' = [tab EXCEPT ![t] = Request(t, @, ok)]
  /\ UNCHANGED <<flows, jar, granted, entered, due, config, now>>

(* The callback URL of tab u is requested again: reloaded after an error,  *)
(* or opened in another tab of any browser.                                *)
Reopen(t, u) ==
  /\ tab[t].at \in {"home", "error"}
  /\ tab[u].at \notin {"home", "starting", "consent"} /\ (t = u \/ tab[t].at = "home")
  /\ tab' = [tab EXCEPT ![t] = Request(t, tab[u], tab[u].code)]
  /\ UNCHANGED <<flows, jar, granted, entered, due, config, now>>

(* A slip: the state is not compared with the cookie.                      *)
SignatureOnly(v) ==
  /\ v.code /\ v.state # None /\ flows[v.state].key = secret
  /\ v.prov = "twitter" => v.sent[PkceCookie] # None

(* verify_state: the state was signed with the secret of now; nothing says *)
(* when, or for which provider.                                            *)
Verifies(n) == flows[n].key = secret

(* The guard of the callbacks.                                             *)
Passes(v) ==
  /\ v.code /\ v.sent[StateCookie[v.prov]] # None
  /\ v.sent[StateCookie[v.prov]] = v.state /\ Verifies(v.state)
  /\ v.prov = "twitter" => v.sent[PkceCookie] # None

(* Passed on to the token endpoint, or answered 400.                       *)
Check(t) ==
  /\ tab[t].at = "callback"
  /\ tab' = [tab EXCEPT ![t].at = IF Passes(tab[t]) THEN "exchange" ELSE "error"]
  /\ UNCHANGED <<flows, jar, granted, entered, due, config, now>>

(* What the provider asks of a code: it is not used up, and for Twitter    *)
(* the verifier is the one whose challenge came with the code.             *)
Exchangeable(v) ==
  /\ v.state \notin granted
  /\ v.prov = "twitter" => v.sent[PkceCookie] = v.state

(* exchange_code_for_tokens: access token, refusal, or a timeout after the *)
(* provider has or has not used up the code; all but the first answer 401. *)
Exchange(t, heard) ==
  /\ tab[t].at = "exchange"
  /\ granted' = IF Exchangeable(tab[t]) THEN granted \cup {tab[t].state} ELSE granted
  /\ tab' = [tab EXCEPT ![t].at = IF Exchangeable(tab[t]) /\ heard THEN "profile" ELSE "error"]
  /\ UNCHANGED <<flows, jar, entered, due, config, now>>

(* fetch_userinfo and complete_..._login: a session is opened (Sessions,   *)
(* Accounts), or the profile is incomplete or a call fails (401).          *)
Complete(t, ok) ==
  /\ tab[t].at = "profile"
  /\ tab' = [tab EXCEPT ![t].at = IF ok THEN "reply" ELSE "error"]
  /\ UNCHANGED <<flows, jar, granted, entered, due, config, now>>

(* A slip: the cookies of the sign-in are left to expire.                  *)
ArriveOnly(t) ==
  LET b == Home[t] IN
  /\ tab[t].at = "reply"
  /\ entered' = [entered EXCEPT ![b] = @ \cup {tab[t].state}]
  /\ tab' = [tab EXCEPT ![t] = HomePage]
  /\ due' = [due EXCEPT ![b][tab[t].prov] = None]
  /\ UNCHANGED <<flows, jar, granted, config, now>>

(* The answer arrives: refresh cookie, and the cookies of the sign-in are  *)
(* deleted, by name, whichever sign-in they belong to by now.  The         *)
(* deletion names no domain, so it misses cookies set for COOKIE_DOMAIN.   *)
Arrive(t) ==
  LET b == Home[t] IN
  /\ tab[t].at = "reply"
  /\ entered' = [entered EXCEPT ![b] = @ \cup {tab[t].state}]
  /\ jar' = [jar EXCEPT ![b] = [c \in CookieName |->
       IF c \in StartCookies(tab[t].prov) /\ hostOnly THEN None ELSE jar[b][c]]]
  /\ tab' = [tab EXCEPT ![t] = HomePage]
  /\ due' = [due EXCEPT ![b][tab[t].prov] = None]
  /\ UNCHANGED <<flows, granted, config, now>>

(* A connection breaks or a worker dies: the tab shows an error, and may   *)
(* try its URL again.  A user gives up.                                    *)
Break(t) ==
  /\ tab[t].at \in {"callback", "exchange", "profile", "reply"}
  /\ tab' = [tab EXCEPT ![t].at = "error"]
  /\ UNCHANGED <<flows, jar, granted, entered, due, config, now>>

GiveUp(t) ==
  /\ tab[t].at \in {"starting", "consent", "error"}
  /\ tab' = [tab EXCEPT ![t] = HomePage]
  /\ UNCHANGED <<flows, jar, granted, entered, due, config, now>>

Tick ==
  /\ now < MaxTime
  /\ now' = now + 1
  /\ UNCHANGED <<flows, jar, tab, granted, entered, due, config>>

(* CSRF_SECRET is changed and the service restarted: handlers that await   *)
(* the provider die, requests on their way reach the new process.          *)
Rotate ==
  /\ secret < MaxSecret
  /\ secret' = secret + 1
  /\ tab' = [t \in Tab |-> IF tab[t].at \in {"exchange", "profile"}
                            THEN [tab[t] EXCEPT !.at = "error"] ELSE tab[t]]
  /\ UNCHANGED <<flows, jar, granted, entered, due, hostOnly, now>>
-----------------------------------------------------------------------------
Surf(t) ==
  \/ \E p \in Provider : Start(t, p)
  \/ \E ok \in BOOLEAN : Return(t, ok)
  \/ \E u \in Tab : Reopen(t, u)
  \/ Leave(t) \/ Arrive(t) \/ Break(t) \/ GiveUp(t)

Handle(t) ==
  \/ Check(t)
  \/ \E heard \in BOOLEAN : Exchange(t, heard)
  \/ \E ok \in BOOLEAN : Complete(t, ok)

Next == (\E t \in Tab : Surf(t) \/ Handle(t)) \/ Tick \/ Rotate

Spec == Init /\ [][Next]_vars
-----------------------------------------------------------------------------
(***************************************************************************)
(* Properties                                                              *)
(***************************************************************************)

(* The type of every variable.                                             *)
TypeOK ==
  /\ flows \in Seq(Flow)
  /\ jar \in [Browser -> [CookieName -> Cookie \cup {None}]]
  /\ tab \in [Tab -> View]
  /\ granted \subseteq Nat
  /\ entered \in [Browser -> SUBSET Nat]
  /\ due \in [Browser -> [Provider -> Cookie \cup {None}]]
  /\ secret \in Nat /\ hostOnly \in BOOLEAN /\ now \in Nat

(* A browser is signed in only by a sign-in it has started itself: a       *)
(* callback URL that was reloaded, copied or sent to somebody else signs   *)
(* nobody in who did not start it.                                         *)
OwnSignInOnly == \A b \in Browser : \A n \in entered[b] : flows[n].by = b

(* State and verifier are two cookies but stay a pair: whatever other tabs *)
(* start, finish or let expire, a code is exchanged with the verifier      *)
(* whose challenge it was issued for, so PKCE never refuses an honest      *)
(* sign-in.                                                                *)
VerifierFits ==
  \A t \in Tab : tab[t].at = "exchange" /\ tab[t].prov = "twitter"
    => tab[t].sent[PkceCookie] = tab[t].state

(* The sign-in a browser started last with a provider gets past the guard  *)
(* for CookieTTL, also after failed attempts, sign-ins with the other      *)
(* provider and whatever other tabs do, until one through this provider    *)
(* has succeeded or the secret is changed.                                 *)
LastStartedPasses ==
  \A t \in Tab : tab[t].at = "callback" /\ tab[t].code /\ tab[t].due /\ Verifies(tab[t].state)
    => Passes(tab[t])

(* "clear state cookie" (oauth_google_routes.py line 79): once a browser   *)
(* is signed in, it no longer holds the state or verifier it used, so the  *)
(* guard itself refuses the same callback again.  Holds without            *)
(* COOKIE_DOMAIN only.                                                     *)
StateCleared ==
  hostOnly => \A b \in Browser, c \in CookieName : jar[b][c] # None => jar[b][c].val \notin entered[b]
=============================================================================
