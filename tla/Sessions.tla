------------------------------ MODULE Sessions ------------------------------
(***************************************************************************)
(* The refresh sessions of oob: the rows of the table `sessions', the      *)
(* refresh tokens whose bcrypt hashes they store, and the request handlers *)
(* that open, rotate and revoke them while browsers (or JSON clients with  *)
(* a cookie jar) call them concurrently.                                   *)
(*                                                                         *)
(* A handler is a coroutine.  It runs without interruption between two     *)
(* awaited SQL statements, each statement is atomic, and anything may      *)
(* happen at an await: another handler of the same or of another uvicorn   *)
(* worker runs, the clock advances, the worker dies.  An action is one SQL *)
(* statement with the straight-line code around it.                        *)
(***************************************************************************)
EXTENDS Naturals, FiniteSets

CONSTANTS
  User,        \* ids of users (rows are never deleted by the application)
  Browser,     \* cookie jars
  Session,     \* ids the column sessions.id can take
  Req,         \* slots for requests being served at the same time
  None,        \* SQL NULL, a missing row, a missing cookie, an unset field
  Pending,     \* the literal 'pending' the INSERT stores in refresh_token_hash
  RefreshTTL,  \* REFRESH_TOKEN_EXPIRES_DAYS
  AccessTTL,   \* ACCESS_TOKEN_EXPIRES_MINUTES
  MaxTime,     \* bound on the clock
  MaxToken     \* bound on the number of refresh tokens generated

(* A refresh token is "<session id>.<random part>"; random parts never     *)
(* repeat (32 random bytes), so they are numbered in order of generation.  *)
Token == [sid : Session, secret : Nat]

(* bcrypt: a hash records the token it was made from, and a token verifies *)
(* against a hash exactly when it is that token.  'pending' is no bcrypt   *)
(* hash, so verification of any token against it is False.                 *)
HashOf(t) == [bcrypt |-> t]
Verifies(t, h) == h = HashOf(t)

(* A JWT access token: subject and expiry.  sid and chk are history: the   *)
(* session it was granted from, and when the credential was checked.       *)
Access == [sub : User, exp : Nat, sid : Session, chk : Nat]

ASSUME ConstantsAssumption ==
  /\ None \notin User \cup Browser \cup Session \cup Nat \cup Token \cup Access
  /\ None \notin [bcrypt : Token]
  /\ Pending \notin [bcrypt : Token] \cup {None}
  /\ {RefreshTTL, AccessTTL, MaxTime, MaxToken} \subseteq Nat

VARIABLES
  sessions,    \* the table: sessions[s] is the row with id s
  minted,      \* how many refresh tokens have been generated
  spent,       \* history: tokens whose hash a rotation has overwritten
  req,         \* req[r] is the request in slot r and what its handler holds
  jar,         \* jar[b] is the refresh cookie of browser b
  bearer,      \* bearer[b] is the access token the client keeps
  now          \* the clock (the database and the workers share it)

vars == <<sessions, minted, spent, req, jar, bearer, now>>
-----------------------------------------------------------------------------
Row == [owner : User \cup {None},              \* user_id; None: no such row
        hash : [bcrypt : Token] \cup {None, Pending},
        expires : Nat,
        revoked : Nat \cup {None}]

NoRow == [owner |-> None, hash |-> None, expires |-> 0, revoked |-> None]

Op == {"none", "login", "login-ui", "oauth", "refresh",
       "logout", "logout-ui", "logout-all", "revoke"}

Step == {"idle", "identify", "insert", "sethash", "read", "rotate",
         "owner", "revoke", "revokeall", "reply"}

Request == [op : Op,
            at : Step,                     \* the await the handler is at
            br : Browser \cup {None},
            usr : User \cup {None},        \* on whose behalf it acts
            tok : Token \cup {None},       \* the refresh cookie it came with
            sid : Session \cup {None},     \* the session it works on
            new : Token \cup {None},       \* the refresh token it generated
            exp : Nat,                     \* the expires_at it computed
            chk : Nat,                     \* when the credential was checked
            acc : Access \cup {None}]      \* the access token it returns

Idle == [op |-> "none", at |-> "idle", br |-> None, usr |-> None,
         tok |-> None, sid |-> None, new |-> None, exp |-> 0, chk |-> 0,
         acc |-> None]

Init ==
  /\ sessions = [s \in Session |-> NoRow]
  /\ minted = 0
  /\ spent = {}
  /\ req = [r \in Req |-> Idle]
  /\ jar = [b \in Browser |-> None]
  /\ bearer = [b \in Browser |-> None]
  /\ now = 0
-----------------------------------------------------------------------------
(* A slip: a revoked session is not refused.                               *)
AcceptsRevoked(t) ==
  /\ sessions[t.sid].owner # None
  /\ sessions[t.sid].expires > now
  /\ Verifies(t, sessions[t.sid].hash)

(* The checks of refresh_token_service: the row exists, is not revoked,    *)
(* has not expired, and its hash is that of the token presented.           *)
Accepts(t) ==
  /\ sessions[t.sid].owner # None
  /\ sessions[t.sid].revoked = None
  /\ sessions[t.sid].expires > now
  /\ Verifies(t, sessions[t.sid].hash)

(* The UI guard finds a user behind the refresh cookie: the same checks.   *)
SignedIn(b) == jar[b] # None /\ Accepts(jar[b])

(* get_current_user, get_user_from_token: the JWT decodes and is not past  *)
(* its expiry (jose rejects exp < now).                                    *)
Authorized(b) == bearer[b] # None /\ bearer[b].exp >= now

(* A slip: the random part is drawn once per session.                      *)
FixedToken(s) == [sid |-> s, secret |-> 0]

(* generate_refresh_token_for_session.                                     *)
FreshToken(s) == [sid |-> s, secret |-> minted + 1]

(* create_access_token, for a credential of session s checked at time c.   *)
NewAccess(u, s, c) == [sub |-> u, exp |-> now + AccessTTL, sid |-> s, chk |-> c]

(* The bound MaxToken is enforced where a request starts, so that no       *)
(* handler is ever held up by it.                                          *)
MayMint ==
  minted + Cardinality({r \in Req : req[r].at \in {"identify", "insert", "read"}}) < MaxToken

(* What a handler that is done sends back; its other locals are gone.  The *)
(* session an answer 204 speaks of is history.                             *)
Reply(q, access) ==
  [op |-> q.op, at |-> "reply", br |-> q.br, usr |-> None, tok |-> None,
   sid |-> IF q.op \in {"logout", "revoke"} THEN q.sid ELSE None,
   new |-> q.new, exp |-> 0, chk |-> 0, acc |-> access]

Arrive(r, fields) ==
  /\ req[r].at = "idle"
  /\ req' = [req EXCEPT ![r] = fields]
  /\ UNCHANGED <<sessions, minted, spent, jar, bearer, now>>
-----------------------------------------------------------------------------
(* POST /auth/login, POST /login or an OAuth callback of user u.  The UI   *)
(* guard redirects POST /login of a browser that is signed in; afterwards  *)
(* nobody looks again.                                                     *)
StartLogin(r, b, u, op) ==
  /\ MayMint
  /\ op = "login-ui" => ~SignedIn(b)
  /\ Arrive(r, [Idle EXCEPT !.op = op, !.at = "identify", !.br = b, !.usr = u])

(* The user row is read and the password verified, or the identity of the  *)
(* provider resolved (a failure is Abort); expires_at is computed here,    *)
(* before the INSERT.                                                      *)
Identify(r) ==
  /\ req[r].at = "identify"
  /\ req' = [req EXCEPT ![r] =
               [@ EXCEPT !.at = "insert", !.exp = now + RefreshTTL, !.chk = now]]
  /\ UNCHANGED <<sessions, minted, spent, jar, bearer, now>>

(* The row create_session_placeholder inserts.                             *)
PlaceholderRow(q) ==
  [owner |-> q.usr, hash |-> Pending, expires |-> q.exp, revoked |-> None]

(* A slip: an upsert, a user's earlier session is taken over.              *)
UpsertSession(r) ==
  /\ req[r].at = "insert"
  /\ \E s \in Session :
       /\ sessions[s].owner \in {None, req[r].usr}
       /\ sessions' = [sessions EXCEPT ![s] = PlaceholderRow(req[r])]
       /\ req' = [req EXCEPT ![r] =
                    [@ EXCEPT !.at = "sethash", !.sid = s, !.new = FreshToken(s)]]
  /\ minted' = minted + 1
  /\ UNCHANGED <<spent, jar, bearer, now>>

(* create_session_placeholder: INSERT with hash 'pending' and a fresh id;  *)
(* then a refresh token for that id is generated and hashed.               *)
InsertSession(r) ==
  /\ req[r].at = "insert"
  /\ \E s \in Session :
       /\ sessions[s].owner = None
       /\ sessions' = [sessions EXCEPT ![s] = PlaceholderRow(req[r])]
       /\ req' = [req EXCEPT ![r] =
                    [@ EXCEPT !.at = "sethash", !.sid = s, !.new = FreshToken(s)]]
  /\ minted' = minted + 1
  /\ UNCHANGED <<spent, jar, bearer, now>>

(* A slip: the reply is sent without set_session_token_hash.               *)
SetHashNowhere(r) ==
  /\ req[r].at = "sethash"
  /\ req' = [req EXCEPT ![r] = Reply(@,
               IF @.op = "login" THEN NewAccess(@.usr, @.sid, @.chk) ELSE None)]
  /\ UNCHANGED <<sessions, minted, spent, jar, bearer, now>>

(* set_session_token_hash; then the reply is built.  The HTML routes drop  *)
(* the access token, the JSON route returns it.                            *)
SetHash(r) ==
  /\ req[r].at = "sethash"
  /\ sessions' = [sessions EXCEPT ![req[r].sid].hash = HashOf(req[r].new)]
  /\ req' = [req EXCEPT ![r] = Reply(@,
               IF @.op = "login" THEN NewAccess(@.usr, @.sid, @.chk) ELSE None)]
  /\ UNCHANGED <<minted, spent, jar, bearer, now>>

(* POST /auth/refresh with a refresh cookie.                               *)
StartRefresh(r, b) ==
  /\ jar[b] # None /\ MayMint
  /\ Arrive(r, [Idle EXCEPT !.op = "refresh", !.at = "read", !.br = b,
                            !.tok = jar[b]])

(* get_session_by_id and the checks; a refused token is answered 401.  An  *)
(* accepted one is replaced: new token, new hash, new expiry.              *)
ReadSession(r) ==
  LET t == req[r].tok IN
  /\ req[r].at = "read"
  /\ \/ /\ Accepts(t)
        /\ minted' = minted + 1
        /\ req' = [req EXCEPT ![r] =
                     [@ EXCEPT !.at = "rotate", !.sid = t.sid,
                               !.usr = sessions[t.sid].owner,
                               !.new = FreshToken(t.sid),
                               !.exp = now + RefreshTTL, !.chk = now]]
     \/ /\ ~Accepts(t)
        /\ req' = [req EXCEPT ![r] = Idle]
        /\ UNCHANGED minted
  /\ UNCHANGED <<sessions, spent, jar, bearer, now>>

(* Slips: the UPDATE makes the row as good as new; it forgets the hash.    *)
RenewedRow(row, q) ==
  [row EXCEPT !.hash = HashOf(q.new), !.expires = q.exp, !.revoked = None]
ProlongedRow(row, q) == [row EXCEPT !.expires = q.exp]

(* A slip: a refresh adds RefreshTTL to what is left.                      *)
ExtendedRow(row, q) ==
  [row EXCEPT !.hash = HashOf(q.new), !.expires = @ + RefreshTTL]

(* The row after the UPDATE of rotate_session, which leaves revoked_at.    *)
RotatedRow(row, q) == [row EXCEPT !.hash = HashOf(q.new), !.expires = q.exp]

(* rotate_session: UPDATE ... WHERE id, whatever the row has become since  *)
(* it was read; then the access token is created.                          *)
Rotate(r) ==
  LET s == req[r].sid IN
  /\ req[r].at = "rotate"
  /\ sessions' = [sessions EXCEPT ![s] = RotatedRow(@, req[r])]
  /\ spent' = spent \cup {h.bcrypt : h \in {sessions[s].hash} \ {None, Pending}}
  /\ req' = [req EXCEPT ![r] = Reply(@, NewAccess(@.usr, s, @.chk))]
  /\ UNCHANGED <<minted, jar, bearer, now>>

(* POST /auth/logout or POST /logout with a refresh cookie: a session id   *)
(* is parsed out of the cookie and nothing else of it is looked at, so it  *)
(* may name any session (a spent or mistyped cookie, one of another        *)
(* browser).  A cookie without a number before the dot is Abort.           *)
StartLogout(r, b, s, op) ==
  Arrive(r, [Idle EXCEPT !.op = op, !.at = "revoke", !.br = b, !.sid = s])

(* POST /auth/sessions/{s}/revoke with a bearer token.                     *)
StartRevoke(r, b, s) ==
  /\ Authorized(b)
  /\ Arrive(r, [Idle EXCEPT !.op = "revoke", !.at = "owner", !.br = b,
                            !.usr = bearer[b].sub, !.sid = s])

(* A slip: any session id is accepted.                                     *)
CheckNobody(r) ==
  /\ req[r].at = "owner"
  /\ req' = [req EXCEPT ![r].at = "revoke"]
  /\ UNCHANGED <<sessions, minted, spent, jar, bearer, now>>

(* revoke_user_session_service: read the row; another user's session or no *)
(* such session is answered 403.                                           *)
CheckOwner(r) ==
  /\ req[r].at = "owner"
  /\ req' = [req EXCEPT ![r] = IF sessions[@.sid].owner = @.usr
                                 THEN [@ EXCEPT !.at = "revoke"] ELSE Idle]
  /\ UNCHANGED <<sessions, minted, spent, jar, bearer, now>>

(* Column revoked_at after UPDATE ... SET revoked_at=NOW() WHERE ... AND   *)
(* revoked_at IS NULL.                                                     *)
RevokedRow(row) ==
  IF row.owner # None /\ row.revoked = None THEN [row EXCEPT !.revoked = now] ELSE row

(* History for the answer: the session it speaks of, if there is one.      *)
Found(q) == [q EXCEPT !.sid = IF sessions[q.sid].owner = None THEN None ELSE q.sid]

(* revoke_session.  Whether the UPDATE matched a row is not looked at.     *)
RevokeSession(r) ==
  /\ req[r].at = "revoke"
  /\ sessions' = [sessions EXCEPT ![req[r].sid] = RevokedRow(@)]
  /\ req' = [req EXCEPT ![r] = Reply(Found(@), None)]
  /\ UNCHANGED <<minted, spent, jar, bearer, now>>

(* A slip: every route that revokes one session swallows exceptions.       *)
SwallowAnyFailure(r) ==
  /\ req[r].at = "revoke"
  /\ req' = [req EXCEPT ![r] = Reply(@, None)]
  /\ UNCHANGED <<sessions, minted, spent, jar, bearer, now>>

(* POST /logout swallows an exception of the revocation and goes on.       *)
SwallowFailure(r) ==
  /\ req[r].at = "revoke" /\ req[r].op = "logout-ui"
  /\ req' = [req EXCEPT ![r] = Reply(@, None)]
  /\ UNCHANGED <<sessions, minted, spent, jar, bearer, now>>

(* POST /auth/logout {"all": true} with a bearer token.                    *)
StartLogoutAll(r, b) ==
  /\ Authorized(b)
  /\ Arrive(r, [Idle EXCEPT !.op = "logout-all", !.at = "revokeall", !.br = b,
                            !.usr = bearer[b].sub])

(* revoke_all_sessions_for_user.                                           *)
RevokeAll(r) ==
  /\ req[r].at = "revokeall"
  /\ sessions' = [s \in Session |-> IF sessions[s].owner = req[r].usr
                                      THEN RevokedRow(sessions[s]) ELSE sessions[s]]
  /\ req' = [req EXCEPT ![r] = Reply(@, None)]
  /\ UNCHANGED <<minted, spent, jar, bearer, now>>

(* A slip: the cookie of a refresh is not sent to the browser.             *)
DeliverAccessOnly(r) ==
  LET q == req[r] IN
  /\ q.at = "reply"
  /\ jar' = [jar EXCEPT ![q.br] = IF q.new # None /\ q.op # "refresh" THEN q.new
                                  ELSE IF q.op = "logout-ui" THEN None ELSE @]
  /\ bearer' = [bearer EXCEPT ![q.br] = IF q.acc # None THEN q.acc ELSE @]
  /\ req' = [req EXCEPT ![r] = Idle]
  /\ UNCHANGED <<sessions, minted, spent, now>>

(* The reply reaches the browser.  Only the HTML logout deletes the cookie. *)
Deliver(r) ==
  LET q == req[r] IN
  /\ q.at = "reply"
  /\ jar' = [jar EXCEPT ![q.br] = IF q.new # None THEN q.new
                                  ELSE IF q.op = "logout-ui" THEN None ELSE @]
  /\ bearer' = [bearer EXCEPT ![q.br] = IF q.acc # None THEN q.acc ELSE @]
  /\ req' = [req EXCEPT ![r] = Idle]
  /\ UNCHANGED <<sessions, minted, spent, now>>

(* The worker dies, a statement fails (answered 500), the client hangs up  *)
(* or the reply is lost: what the handler held is gone, the table stays.   *)
Abort(r) ==
  /\ req[r].at # "idle"
  /\ req' = [req EXCEPT ![r] = Idle]
  /\ UNCHANGED <<sessions, minted, spent, jar, bearer, now>>

Tick ==
  /\ now < MaxTime
  /\ now' = now + 1
  /\ UNCHANGED <<sessions, minted, spent, req, jar, bearer>>
-----------------------------------------------------------------------------
Call(r, b) ==
  \/ \E u \in User, op \in {"login", "login-ui", "oauth"} : StartLogin(r, b, u, op)
  \/ StartRefresh(r, b)
  \/ \E s \in Session, op \in {"logout", "logout-ui"} : StartLogout(r, b, s, op)
  \/ \E s \in Session : StartRevoke(r, b, s)
  \/ StartLogoutAll(r, b)

Handle(r) ==
  \/ Identify(r) \/ InsertSession(r) \/ SetHash(r)
  \/ ReadSession(r) \/ Rotate(r)
  \/ CheckOwner(r) \/ RevokeSession(r) \/ SwallowFailure(r) \/ RevokeAll(r)

Next ==
  \/ \E r \in Req, b \in Browser : Call(r, b)
  \/ \E r \in Req : Handle(r) \/ Deliver(r) \/ Abort(r)
  \/ Tick

Spec == Init /\ [][Next]_vars

(* An environment without races or losses: each browser waits for the      *)
(* answer to its request before the next one, and every answer arrives.    *)
Waits(b) == \A r \in Req : req[r].br # b

SerialNext ==
  \/ \E r \in Req, b \in Browser : Waits(b) /\ Call(r, b)
  \/ \E r \in Req : Handle(r) \/ Deliver(r)
  \/ Tick

SerialSpec == Init /\ [][SerialNext]_vars
-----------------------------------------------------------------------------
(***************************************************************************)
(* Properties                                                              *)
(***************************************************************************)

(* The type of every variable.                                             *)
TypeOK ==
  /\ sessions \in [Session -> Row]
  /\ minted \in Nat
  /\ spent \subseteq Token
  /\ req \in [Req -> Request]
  /\ jar \in [Browser -> Token \cup {None}]
  /\ bearer \in [Browser -> Access \cup {None}]
  /\ now \in Nat

(* Rotation retires a token for good: once the hash of a refresh token has *)
(* been overwritten, no interleaving of refreshes that read the row before *)
(* (rotate_session does not look at the hash it overwrites) puts it back,  *)
(* so the checks of refresh_token_service never pass for it again.         *)
SpentNeverOpens == \A t \in spent : ~Verifies(t, sessions[t.sid].hash)

(* Logout, revocation and logout-all are final: no statement of a handler  *)
(* that read the row earlier (a rotation, the second half of a login)      *)
(* makes a revoked session usable or moves its revoked_at.                 *)
RevocationIsFinal ==
  [][\A s \in Session : sessions[s].revoked # None
        => sessions'[s].revoked = sessions[s].revoked]_vars

(* An access token outlives the revocation of its session only if the      *)
(* credential it was granted for was checked before the revocation: a      *)
(* refresh or login already past its check may still answer, a later one   *)
(* may not.                                                                *)
NoGrantAfterRevocation ==
  \A a \in {bearer[b] : b \in Browser} \cup {req[r].acc : r \in Req} :
    a # None /\ sessions[a.sid].revoked # None => a.chk <= sessions[a.sid].revoked

(* A browser is never given a cookie that the table has not held: whatever *)
(* was lost or overtaken, a cookie is the current credential of its        *)
(* session or one that a rotation has replaced.                            *)
CookieWasCredential ==
  \A b \in Browser : jar[b] # None =>
    jar[b] \in spent \/ Verifies(jar[b], sessions[jar[b].sid].hash)

(* A session whose login has not stored a hash yet, or died before it did, *)
(* opens for no token a browser or a handler holds.                        *)
PendingOpensForNobody ==
  \A s \in Session : sessions[s].hash = Pending =>
    /\ \A b \in Browser : jar[b] # None => jar[b].sid # s
    /\ \A r \in Req : req[r].at \in {"read", "rotate"} => req[r].tok.sid # s

(* A session nobody uses dies RefreshTTL after its last use at the latest: *)
(* expires_at is computed before the statement that stores it and may be   *)
(* overtaken by another refresh, in either direction, but no sequence of   *)
(* refreshes makes a session outlive the moment by more than RefreshTTL.   *)
IdleSessionsExpire == \A s \in Session : sessions[s].expires <= now + RefreshTTL

(* When POST /auth/logout or .../revoke is about to answer 204, the        *)
(* session it names is revoked, whatever ran meanwhile, if there was such  *)
(* a session when the UPDATE ran.                                          *)
AnswerMeansRevoked ==
  \A r \in Req :
    req[r].at = "reply" /\ req[r].op \in {"logout", "revoke"} /\ req[r].sid # None
      => sessions[req[r].sid].revoked # None

(* Under SerialSpec: a browser that is not waiting for an answer holds the *)
(* current credential of its session, however many times it has refreshed  *)
(* and whatever the other browsers of the user do.                         *)
CookieIsCurrent ==
  \A b \in Browser : jar[b] # None /\ Waits(b)
    => Verifies(jar[b], sessions[jar[b].sid].hash)

(* Two kinds of request revoke a session: a logout, which is believed      *)
(* whatever session its cookie names, and one that acts with an access     *)
(* token, which ends sessions of its own user only: the owner read in the  *)
(* statement before still stands when the UPDATE runs.  No other statement *)
(* touches revoked_at.                                                     *)
RevokedOnRequest ==
  [][\A s \in Session : sessions[s].revoked # sessions'[s].revoked =>
       \E r \in Req :
         /\ req'[r] # req[r]
         /\ \/ req[r].op \in {"logout", "logout-ui"} /\ req[r].sid = s
            \/ req[r].op \in {"revoke", "logout-all"} /\ req[r].usr = sessions[s].owner]_vars
=============================================================================
