------------------------------ MODULE Accounts ------------------------------
(***************************************************************************)
(* The accounts of oob: the table `users' and its four writers.  Anyone    *)
(* registers with a password (POST /auth/register, POST /register) or      *)
(* signs in through a provider (ensure_user_for_oauth); the operator runs  *)
(* create_admin, a process of its own, until it exits with code 0.  Each   *)
(* reads the table by email first and writes in later statements, so they  *)
(* race; the UNIQUE constraint on users.email decides who inserts.         *)
(***************************************************************************)
EXTENDS FiniteSets

CONSTANTS
  Id,          \* values of users.id
  Spelling,    \* email addresses as they are typed or sent by a provider
  Lower,       \* Lower[e]: e stripped and lower-cased
  Pseudo,      \* addresses "twitter_<id>@<OAUTH_PSEUDO_EMAIL_DOMAIN>", the
               \* domain spelled as it is configured
  Password,    \* passwords
  Name,        \* display names that are not empty
  Avatar,      \* avatar URLs that are not empty
  Req,         \* slots for requests being served at the same time
  Operator,    \* the slot of the process running create_admin
  AdminRun,    \* arguments create_admin may be run with
  None,        \* SQL NULL, a missing row, an argument that was not given, a
               \* display name or avatar that is empty
  Empty        \* the password_hash '' of accounts made by a provider login

Role == {"buyer", "seller", "admin"}

(* A password hash is the password it was made from (bcrypt verifies       *)
(* exactly that one).                                                      *)
Row == [email : Spelling, pwd : Password \cup {None, Empty},
        name : Name \cup {None}, avatar : Avatar \cup {None}, role : Role]

ASSUME AccountsAssumption ==
  /\ Lower \in [Spelling -> Spelling]
  /\ \A e \in Spelling : Lower[Lower[e]] = Lower[e]
  /\ Pseudo \subseteq Spelling
  /\ Operator \notin Req
  /\ AdminRun \subseteq [email : Spelling, name : Name, pwd : Password \cup {None}, role : Role]
  /\ None \notin Id \cup Spelling \cup Password \cup Name \cup Avatar \cup Row \cup {Empty}
  /\ Empty \notin Password

VARIABLES
  users,       \* the table: users[i] is the row with id i, or None
  req,         \* req[r] is the request in slot r and what its handler holds
  chosen       \* history: chosen[i] has the passwords anyone chose for i

vars == <<users, req, chosen>>
-----------------------------------------------------------------------------
Slot == Req \cup {Operator}

Request == [op : {"none", "register", "login", "oauth", "admin"},
            at : {"idle", "select", "insert", "profile", "update", "promote", "reply"},
            email : Spelling \cup {None},
            pwd : Password \cup {None, Empty},
            name : Name \cup {None},
            avatar : Avatar \cup {None},
            role : Role,
            id : Id \cup {None},          \* the user row it works on
            code : {"", "201", "200", "303", "400", "401", "500", "exit 0", "exit 1"}]

Idle == [op |-> "none", at |-> "idle", email |-> None, pwd |-> None, name |-> None,
         avatar |-> None, role |-> "buyer", id |-> None, code |-> ""]

Init ==
  /\ users = [i \in Id |-> None]
  /\ req = [r \in Slot |-> Idle]
  /\ chosen = [i \in Id |-> {}]
-----------------------------------------------------------------------------
(* get_user_by_email: the ids of the rows with this email.                 *)
WithEmail(e) == {i \in Id : users[i] # None /\ users[i].email = e}

Answer(q, i, code) ==
  [q EXCEPT !.at = "reply", !.name = None, !.avatar = None, !.id = i, !.code = code]

(* Slips: email is not normalised; a blank hash verifies for any password. *)
AsTyped(e) == e
VerifiesOrBlank(password, stored) == stored \in {password, Empty}

(* (email or "").strip().lower(), at the head of every service below but   *)
(* complete_twitter_login, which makes the address itself.                 *)
Normalised(e) == Lower[e]

(* not user.get("password_hash") and verify_password.                      *)
PasswordVerifies(password, stored) == stored \notin {None, Empty} /\ stored = password

Arrive(r, fields) ==
  /\ req[r].at = "idle"
  /\ req' = [req EXCEPT ![r] = fields]
  /\ UNCHANGED <<users, chosen>>

(* POST /auth/register, POST /register with email and password.            *)
StartRegister(r, e, p, n) ==
  Arrive(r, [Idle EXCEPT !.op = "register", !.at = "select", !.email = Normalised(e),
                         !.pwd = p, !.name = n])

(* POST /auth/login, POST /login.                                          *)
StartLogin(r, e, p) ==
  Arrive(r, [Idle EXCEPT !.op = "login", !.at = "select", !.email = Normalised(e), !.pwd = p])

(* The callback of a provider, with an address and the profile it          *)
(* returned; the account it would create has no password.                  *)
OAuthLogin(e, n, a) ==
  [Idle EXCEPT !.op = "oauth", !.at = "select", !.email = e, !.pwd = Empty,
               !.name = n, !.avatar = a]

(* complete_google_login.                                                  *)
StartGoogle(r, e, n, a) == Arrive(r, OAuthLogin(Normalised(e), n, a))

(* complete_twitter_login: the pseudo-address as it is, and a name always, *)
(* because the user name stands in for one that is missing.                *)
StartTwitter(r, e, n, a) == Arrive(r, OAuthLogin(e, n, a))

(* create_admin, run again after a failure until it exits with 0.          *)
StartAdmin(run) ==
  Arrive(Operator, [Idle EXCEPT !.op = "admin", !.at = "select",
                                !.email = Normalised(run.email), !.name = run.name,
                                !.pwd = run.pwd, !.role = run.role])
-----------------------------------------------------------------------------
(* register_user_service: an address that is taken is refused.             *)
RegisterSelect(r) ==
  /\ req[r].op = "register" /\ req[r].at = "select"
  /\ req' = [req EXCEPT ![r] = IF WithEmail(@.email) # {} THEN Answer(@, None, "400")
                                ELSE [@ EXCEPT !.at = "insert"]]
  /\ UNCHANGED <<users, chosen>>

(* login_user_service up to the session, which module Sessions models.     *)
LoginSelect(r) ==
  /\ req[r].op = "login" /\ req[r].at = "select"
  /\ \/ \E i \in WithEmail(req[r].email) :
          /\ PasswordVerifies(req[r].pwd, users[i].pwd)
          /\ req' = [req EXCEPT ![r] = Answer(@, i, "200")]
     \/ /\ \A i \in WithEmail(req[r].email) : ~PasswordVerifies(req[r].pwd, users[i].pwd)
        /\ req' = [req EXCEPT ![r] = Answer(@, None, "401")]
  /\ UNCHANGED <<users, chosen>>

(* A slip: the profile is overwritten with whatever the provider sent.     *)
OverwrittenProfile(row, q) == [row EXCEPT !.name = q.name, !.avatar = q.avatar]

(* What ensure_user_for_oauth makes of the profile of an existing row:     *)
(* only values that are present and differ are written.                    *)
UpdatedProfile(row, q) ==
  [row EXCEPT !.name = IF q.name # None THEN q.name ELSE @,
              !.avatar = IF q.avatar # None THEN q.avatar ELSE @]

(* The request becomes the UPDATE: name and avatar are the values to       *)
(* write, or None.                                                         *)
ToProfile(q, i) ==
  [q EXCEPT !.at = "profile", !.id = i,
            !.name = IF @ = users[i].name THEN None ELSE @,
            !.avatar = IF @ = users[i].avatar THEN None ELSE @]

(* ensure_user_for_oauth: a known address signs in, after an UPDATE if the *)
(* profile changed.                                                        *)
OAuthSelect(r) ==
  /\ req[r].op = "oauth" /\ req[r].at = "select"
  /\ \/ \E i \in WithEmail(req[r].email) :
          req' = [req EXCEPT ![r] =
                   IF UpdatedProfile(users[i], @) = users[i] THEN Answer(@, i, "303")
                   ELSE ToProfile(@, i)]
     \/ /\ WithEmail(req[r].email) = {}
        /\ req' = [req EXCEPT ![r].at = "insert"]
  /\ UNCHANGED <<users, chosen>>

(* upsert_user: a known account gets the role and password, an unknown one *)
(* is created first.                                                       *)
AdminSelect(r) ==
  /\ req[r].op = "admin" /\ req[r].at = "select"
  /\ \/ \E i \in WithEmail(req[r].email) :
          req' = [req EXCEPT ![r] = [@ EXCEPT !.at = "update", !.id = i]]
     \/ /\ WithEmail(req[r].email) = {}
        /\ req' = [req EXCEPT ![r].at = "insert"]
  /\ UNCHANGED <<users, chosen>>

(* The row create_user inserts; every caller leaves role at its default.   *)
NewRow(q) == [email |-> q.email, pwd |-> q.pwd, name |-> q.name, avatar |-> None,
              role |-> "buyer"]

(* A slip: create_admin forgets the role of an account it creates.         *)
InsertedAsBuyer(q, i) ==
  IF q.op = "register" THEN Answer(q, i, "201")
  ELSE IF q.op = "oauth" /\ q.avatar = None THEN Answer(q, i, "303")
  ELSE IF q.op = "oauth" THEN [q EXCEPT !.at = "profile", !.id = i, !.name = None]
  ELSE Answer(q, i, "exit 0")

(* Where the handler goes on once its row is inserted: a provider login    *)
(* stores the avatar in a second statement, create_admin the role.         *)
Inserted(q, i) ==
  IF q.op = "register" THEN Answer(q, i, "201")
  ELSE IF q.op = "oauth" /\ q.avatar = None THEN Answer(q, i, "303")
  ELSE IF q.op = "oauth" THEN [q EXCEPT !.at = "profile", !.id = i, !.name = None]
  ELSE IF q.role = "buyer" THEN Answer(q, i, "exit 0")
  ELSE [q EXCEPT !.at = "promote", !.id = i]

(* What UniqueViolationError becomes: only the OAuth callbacks catch it.   *)
Refused(q) == Answer(q, None, CASE q.op = "register" -> "500"
                                [] q.op = "oauth" -> "401"
                                [] q.op = "admin" -> "exit 1")

Choose(i, p) == [chosen EXCEPT ![i] = @ \cup ({p} \ {None, Empty})]

(* A slip: INSERT ... ON CONFLICT (email) DO UPDATE SET password_hash.     *)
UpsertUser(r) ==
  /\ req[r].at = "insert"
  /\ \E i \in IF WithEmail(req[r].email) # {} THEN WithEmail(req[r].email)
               ELSE {x \in Id : users[x] = None} :
       /\ users' = [users EXCEPT ![i] = IF @ = None THEN NewRow(req[r])
                                        ELSE [@ EXCEPT !.pwd = req[r].pwd]]
       /\ chosen' = Choose(i, req[r].pwd)
       /\ req' = [req EXCEPT ![r] = Inserted(@, i)]

(* A slip: INSERT ... ON CONFLICT (email) DO NOTHING, then the row of this *)
(* address is read back.                                                   *)
ReadBack(r) ==
  /\ req[r].at = "insert"
  /\ \/ /\ WithEmail(req[r].email) = {}
        /\ \E i \in Id :
             /\ users[i] = None
             /\ users' = [users EXCEPT ![i] = NewRow(req[r])]
             /\ chosen' = Choose(i, req[r].pwd)
             /\ req' = [req EXCEPT ![r] = Inserted(@, i)]
     \/ /\ \E i \in WithEmail(req[r].email) : req' = [req EXCEPT ![r] = Inserted(@, i)]
        /\ UNCHANGED <<users, chosen>>

(* create_user: the INSERT takes a new id, or violates UNIQUE (email).     *)
InsertUser(r) ==
  /\ req[r].at = "insert"
  /\ \/ /\ WithEmail(req[r].email) = {}
        /\ \E i \in Id :
             /\ users[i] = None
             /\ users' = [users EXCEPT ![i] = NewRow(req[r])]
             /\ chosen' = Choose(i, req[r].pwd)
             /\ req' = [req EXCEPT ![r] = Inserted(@, i)]
     \/ /\ WithEmail(req[r].email) # {}
        /\ req' = [req EXCEPT ![r] = Refused(@)]
        /\ UNCHANGED <<users, chosen>>

(* update_user_profile, then the row is read again for its id.             *)
UpdateProfile(r) ==
  /\ req[r].at = "profile"
  /\ users' = [users EXCEPT ![req[r].id] = UpdatedProfile(@, req[r])]
  /\ req' = [req EXCEPT ![r] = Answer(@, @.id, "303")]
  /\ UNCHANGED chosen

(* What create_admin makes of a row: a password only when one is given.    *)
Granted(row, q) ==
  [row EXCEPT !.pwd = IF q.pwd = None THEN @ ELSE q.pwd, !.role = q.role]

(* UPDATE users SET password_hash, role of an account that was found.      *)
AdminUpdate(r) ==
  LET q == req[r] IN
  /\ q.at = "update"
  /\ users' = [users EXCEPT ![q.id] = Granted(@, q)]
  /\ chosen' = Choose(q.id, q.pwd)
  /\ req' = [req EXCEPT ![r] = Answer(q, q.id, "exit 0")]

(* UPDATE users SET role of the account that was just created.             *)
AdminPromote(r) ==
  /\ req[r].at = "promote"
  /\ users' = [users EXCEPT ![req[r].id].role = req[r].role]
  /\ req' = [req EXCEPT ![r] = Answer(@, @.id, "exit 0")]
  /\ UNCHANGED chosen

(* The reply is sent, or the process has exited.                           *)
Finish(r) ==
  /\ req[r].at = "reply"
  /\ req' = [req EXCEPT ![r] = Idle]
  /\ UNCHANGED <<users, chosen>>

(* The worker or the process dies, or a statement fails.                   *)
Abort(r) ==
  /\ req[r].at \notin {"idle", "reply"}
  /\ req' = [req EXCEPT ![r] = Idle]
  /\ UNCHANGED <<users, chosen>>
-----------------------------------------------------------------------------
Call(r) ==
  \/ \E e \in Spelling, p \in Password, n \in Name \cup {None} : StartRegister(r, e, p, n)
  \/ \E e \in Spelling, p \in Password : StartLogin(r, e, p)
  \/ \E e \in Spelling, n \in Name \cup {None}, a \in Avatar \cup {None} :
       StartGoogle(r, e, n, a)
  \/ \E e \in Pseudo, n \in Name, a \in Avatar \cup {None} : StartTwitter(r, e, n, a)

Handle(r) ==
  \/ RegisterSelect(r) \/ LoginSelect(r) \/ OAuthSelect(r) \/ AdminSelect(r)
  \/ InsertUser(r) \/ UpdateProfile(r) \/ AdminUpdate(r) \/ AdminPromote(r)

Next ==
  \/ \E r \in Req : Call(r)
  \/ \E run \in AdminRun : StartAdmin(run)
  \/ \E r \in Slot : Handle(r) \/ Finish(r) \/ Abort(r)

Spec == Init /\ [][Next]_vars

(* An operator who runs create_admin again whenever it has crashed or      *)
(* exited with 1, on a machine that does not kill it at the same statement *)
(* for ever.  Nothing is assumed of the requests.                          *)
Failed == req[Operator].at = "reply" /\ req[Operator].code = "exit 1" /\ Finish(Operator)

OperatorPersists ==
  /\ WF_vars(\E run \in AdminRun : StartAdmin(run))
  /\ WF_vars(Failed)
  /\ SF_vars(AdminSelect(Operator))
  /\ SF_vars(InsertUser(Operator))
  /\ SF_vars(AdminUpdate(Operator))
  /\ SF_vars(AdminPromote(Operator))

FairSpec == Spec /\ OperatorPersists
-----------------------------------------------------------------------------
(***************************************************************************)
(* Properties                                                              *)
(***************************************************************************)

(* The type of every variable.                                             *)
TypeOK ==
  /\ users \in [Id -> Row \cup {None}]
  /\ req \in [Slot -> Request]
  /\ chosen \in [Id -> SUBSET Password]

(* Whatever the spelling and whoever inserts first, an address has one     *)
(* account: UNIQUE (email) compares exactly, so this rests on every writer *)
(* normalising the address before it reads and before it inserts.  The     *)
(* only exception is the writer that does not: a pseudo-address whose      *)
(* configured domain is not in lower case has an account of its own.       *)
OneAccountPerAddress ==
  \A i, j \in Id :
    /\ users[i] # None /\ users[j] # None /\ i # j
    /\ Lower[users[i].email] = Lower[users[j].email]
    => \E k \in {i, j} : users[k].email \in {e \in Pseudo : Lower[e] # e}

(* Of two racing registrations, or a registration and a provider login,    *)
(* the loser changes nothing: the password and the role of an account are  *)
(* changed by create_admin only.                                           *)
OnlyOperatorChangesCredentials ==
  [][\A i \in Id : users[i] # None /\ (users'[i].pwd # users[i].pwd
                                       \/ users'[i].role # users[i].role)
       => req[Operator].id = i /\ req[Operator].at \in {"update", "promote"}]_vars

(* "Password login is not allowed for OAuth accounts until an explicit     *)
(* password is set" (README, Security Compliance): a login succeeds only   *)
(* with a password somebody chose for that account.                        *)
LoginNeedsChosenPassword ==
  \A r \in Req : req[r].op = "login" /\ req[r].code = "200"
    => req[r].pwd \in chosen[req[r].id]

(* A provider login may add to a profile and change it, never blank it.    *)
ProfileNeverBlanked ==
  [][\A i \in Id : users[i] # None =>
       /\ users[i].name # None => users'[i].name # None
       /\ users[i].avatar # None => users'[i].avatar # None]_vars

(* Exit code 0 of create_admin is true: the account it names exists, has   *)
(* the role it was run with and, if one was given, the password.           *)
ExitZeroMeansDone ==
  LET q == req[Operator] IN
  q.code = "exit 0" => /\ users[q.id].email = q.email
                       /\ users[q.id].role = q.role
                       /\ q.pwd # None => users[q.id].pwd = q.pwd

(* Under FairSpec: an operator who keeps at it gets every account it asks  *)
(* for, though create_admin may die between its INSERT and its UPDATE and  *)
(* may lose the INSERT to a registration of the same address; nothing that *)
(* happens afterwards takes the role away.                                 *)
BootstrapCompletes ==
  \A run \in AdminRun :
    <>[](\E i \in WithEmail(Lower[run.email]) : users[i].role = run.role)

(* tests/test_auth_negative_and_permissions.py, line 29: registering an    *)
(* address that has been registered is answered 400.                       *)
DuplicateAnswers400 ==
  \A r \in Req : req[r].op = "register" /\ req[r].at = "reply"
    => req[r].code \in {"201", "400"}
=============================================================================
