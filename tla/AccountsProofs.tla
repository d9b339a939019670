--------------------------- MODULE AccountsProofs ---------------------------
(***************************************************************************)
(* Proofs about Accounts, for any number of addresses, accounts and        *)
(* requests served at the same time: an address has one account, only      *)
(* create_admin changes credentials, a login needs a password chosen for   *)
(* the account, exit code 0 is true, and no profile is blanked.            *)
(***************************************************************************)
EXTENDS AccountsRefinement, TLAPS

(* Every address a handler holds or the table stores has a form in which   *)
(* addresses are stored: it is in lower case or a pseudo-address, ...      *)
Normal(e) == e # None => e \in Address

NormalOK ==
  /\ \A i \in Id : users[i] # None => Normal(users[i].email)
  /\ \A r \in Slot : Normal(req[r].email)

(* ... and UNIQUE compares what is stored.                                 *)
UniqueOK ==
  \A i, j \in Id : users[i] # None /\ users[j] # None /\ users[i].email = users[j].email
    => i = j

(* A stored password was chosen for its account.                           *)
ChosenOK == \A i \in Id : users[i] # None => users[i].pwd \in chosen[i] \cup {None, Empty}

(* What a handler has got hold of at each of its steps: the UPDATE that    *)
(* follows a SELECT or an INSERT finds the row, with the address it had.   *)
StepOK(r, q) ==
  /\ q.op = "login" => q.pwd \in Password
  /\ q.op = "oauth" => q.pwd = Empty
  /\ q.op = "admin" => r = Operator /\ q.pwd \in Password \cup {None}
  /\ q.at = "select" => q.email \in Spelling
  /\ q.at = "insert" => q.op \in {"register", "oauth", "admin"} /\ q.email \in Spelling
  /\ q.at = "profile" => q.op = "oauth"
  /\ q.at \in {"update", "promote"} => q.op = "admin"
  /\ q.at \in {"profile", "update", "promote"} =>
       q.id \in Id /\ users[q.id] # None /\ users[q.id].email = q.email
  /\ q.at = "promote" /\ q.pwd # None => users[q.id].pwd = q.pwd

(* What the codes say.                                                     *)
CodeOK(r, q) ==
  /\ q.code # "" => q.at = "reply"
  /\ q.op = "login" /\ q.code = "200" => q.id \in Id /\ q.pwd \in chosen[q.id]
  /\ q.code = "exit 0" =>
       /\ q.op = "admin" /\ q.id \in Id /\ users[q.id] # None
       /\ users[q.id].email = q.email /\ users[q.id].role = q.role
       /\ q.pwd # None => users[q.id].pwd = q.pwd

HandlersOK == \A r \in Slot : StepOK(r, req[r]) /\ CodeOK(r, req[r])

AInv == TypeOK /\ NormalOK /\ UniqueOK /\ ChosenOK /\ HandlersOK
-----------------------------------------------------------------------------
(* What handlers hold.                                                     *)

LEMMA IdleFields ==
  /\ Idle \in Request /\ Idle.op = "none" /\ Idle.at = "idle" /\ Idle.email = None
  /\ Idle.code = "" /\ Idle.id = None /\ Idle.role = "buyer"
  /\ Idle.name = None /\ Idle.avatar = None /\ Idle.pwd = None
  BY DEF Idle, Request, Role

(* The slot r is answered.                                                 *)
Answered(r, i, code) ==
  /\ req'[r] \in Request /\ req'[r].op = req[r].op /\ req'[r].at = "reply"
  /\ req'[r].email = req[r].email /\ req'[r].pwd = req[r].pwd /\ req'[r].role = req[r].role
  /\ req'[r].id = i /\ req'[r].code = code
  /\ req' \in [Slot -> Request] /\ \A x \in Slot \ {r} : req'[x] = req[x]

LEMMA AnswerMoves ==
  ASSUME req \in [Slot -> Request], NEW r \in Slot, NEW i \in Id \cup {None},
         NEW code \in {"", "201", "200", "303", "400", "401", "500", "exit 0", "exit 1"},
         req' = [req EXCEPT ![r] = Answer(req[r], i, code)]
  PROVE  Answered(r, i, code)
<1> DEFINE q == Answer(req[r], i, code)
<1>1. /\ q \in Request /\ q.op = req[r].op /\ q.at = "reply"
      /\ q.email = req[r].email /\ q.pwd = req[r].pwd /\ q.role = req[r].role
      /\ q.id = i /\ q.code = code
  BY DEF Answer, Request
<1>2. req' = [req EXCEPT ![r] = q]
  OBVIOUS
<1> HIDE DEF q
<1> QED
  BY <1>1, <1>2 DEF Answered

LEMMA Initially == Init => AInv
<1> SUFFICES ASSUME Init
             PROVE  AInv
  OBVIOUS
<1>1. TypeOK
  BY IdleFields DEF Init, TypeOK
<1>2. NormalOK /\ UniqueOK /\ ChosenOK
  BY IdleFields DEF Init, NormalOK, Normal, UniqueOK, ChosenOK
<1>3. HandlersOK
  BY IdleFields DEF Init, HandlersOK, StepOK, CodeOK
<1> QED
  BY <1>1, <1>2, <1>3 DEF AInv
-----------------------------------------------------------------------------
(* One slot moves, the others hold what they held ...                      *)
Moves(r) ==
  /\ req' \in [Slot -> Request]
  /\ \A x \in Slot \ {r} : req'[x] = req[x]

(* ... while rows stay, with their addresses, and choices are remembered.  *)
RowsStay ==
  /\ users' \in [Id -> Row \cup {None}] /\ chosen' \in [Id -> SUBSET Password]
  /\ \A i \in Id : chosen[i] \subseteq chosen'[i]
  /\ \A i \in Id : users[i] # None => users'[i] # None /\ users'[i].email = users[i].email

SameCredentials ==
  \A i \in Id : users[i] # None => users'[i].pwd = users[i].pwd /\ users'[i].role = users[i].role

(* What the other slots rely on is not touched: credentials change only by *)
(* the hand of the one slot whose answer depends on them.                  *)
LEMMA OthersKeep ==
  ASSUME AInv, NEW r \in Slot, Moves(r), RowsStay, SameCredentials \/ r = Operator,
         Normal(req[r].email)', StepOK(r, req[r])', CodeOK(r, req[r])'
  PROVE  /\ TypeOK' /\ HandlersOK'
         /\ \A x \in Slot : Normal(req[x].email)'
<1> USE DEF AInv
<1>1. TypeOK'
  BY DEF TypeOK, RowsStay, Moves
<1>2. ASSUME NEW x \in Slot \ {r}
      PROVE  StepOK(x, req[x])' /\ CodeOK(x, req[x])' /\ Normal(req[x].email)'
  <2>1. /\ req'[x] = req[x] /\ StepOK(x, req[x]) /\ CodeOK(x, req[x]) /\ Normal(req[x].email)
    BY <1>2 DEF HandlersOK, NormalOK, Moves
  <2>2. SameCredentials \/ req[x].op # "admin"
    BY <1>2, <2>1 DEF StepOK
  <2>3. StepOK(x, req[x])'
    BY <2>1, <2>2 DEF StepOK, RowsStay, SameCredentials
  <2>4. CodeOK(x, req[x])'
    BY <2>1, <2>2 DEF CodeOK, RowsStay, SameCredentials
  <2> QED
    BY <2>1, <2>3, <2>4 DEF Normal
<1> QED
  BY <1>1, <1>2 DEF HandlersOK

(* A step that leaves the tables alone.                                    *)
LEMMA TablesRest ==
  ASSUME AInv, NEW r \in Slot, Moves(r), UNCHANGED <<users, chosen>>,
         Normal(req[r].email)', StepOK(r, req[r])', CodeOK(r, req[r])'
  PROVE  AInv'
<1> USE DEF AInv
<1>1. RowsStay /\ SameCredentials
  BY DEF RowsStay, SameCredentials, TypeOK
<1>2. TypeOK' /\ HandlersOK' /\ \A x \in Slot : Normal(req[x].email)'
  BY <1>1, OthersKeep
<1>3. NormalOK' /\ UniqueOK' /\ ChosenOK'
  BY <1>2 DEF NormalOK, Normal, UniqueOK, ChosenOK
<1> QED
  BY <1>2, <1>3
-----------------------------------------------------------------------------
(* Requests arrive, are answered or are given up.                          *)

LEMMA ArrivalKeeps ==
  ASSUME AInv, NEW r \in Slot, NEW fields \in Request, Arrive(r, fields),
         fields.at = "select", StepOK(r, fields),
         fields.email \in Spelling, fields.email \in Address, fields.code = ""
  PROVE  AInv'
<1>1. Moves(r) /\ req'[r] = fields /\ UNCHANGED <<users, chosen>>
  BY DEF Arrive, Moves, AInv, TypeOK
<1>2. Normal(req[r].email)' /\ StepOK(r, req[r])' /\ CodeOK(r, req[r])'
  BY <1>1 DEF Normal, StepOK, CodeOK
<1> QED
  BY <1>1, <1>2, TablesRest

LEMMA CallKeeps ==
  ASSUME AInv, NEW r \in Req, Call(r)
  PROVE  AInv'
<1>1. r \in Slot
  BY DEF Slot
<1>2. /\ \A e \in Spelling : Lower[e] \in Spelling /\ Lower[e] \in Address
      /\ \A e \in Pseudo : e \in Spelling /\ e \in Address
  BY AccountsAssumption DEF Address
<1>3. CASE \E e \in Spelling, p \in Password, n \in Name \cup {None} : StartRegister(r, e, p, n)
  <2>1. PICK e \in Spelling, p \in Password, n \in Name \cup {None} : StartRegister(r, e, p, n)
    BY <1>3
  <2> DEFINE q == [Idle EXCEPT !.op = "register", !.at = "select", !.email = Normalised(e),
                               !.pwd = p, !.name = n]
  <2>2. /\ q \in Request /\ q.at = "select" /\ q.op = "register" /\ q.code = ""
        /\ q.email = Lower[e] /\ q.pwd = p
    BY <1>2, IdleFields DEF Request, Normalised
  <2>3. Arrive(r, q)
    BY <2>1 DEF StartRegister
  <2> HIDE DEF q
  <2> QED
    BY <1>1, <1>2, <2>2, <2>3, ArrivalKeeps DEF StepOK
<1>4. CASE \E e \in Spelling, p \in Password : StartLogin(r, e, p)
  <2>1. PICK e \in Spelling, p \in Password : StartLogin(r, e, p)
    BY <1>4
  <2> DEFINE q == [Idle EXCEPT !.op = "login", !.at = "select", !.email = Normalised(e), !.pwd = p]
  <2>2. /\ q \in Request /\ q.at = "select" /\ q.op = "login" /\ q.code = ""
        /\ q.email = Lower[e] /\ q.pwd = p
    BY <1>2, IdleFields DEF Request, Normalised
  <2>3. Arrive(r, q)
    BY <2>1 DEF StartLogin
  <2> HIDE DEF q
  <2> QED
    BY <1>1, <1>2, <2>2, <2>3, ArrivalKeeps DEF StepOK
<1>5. ASSUME NEW e \in Spelling, e \in Address,
             NEW n \in Name \cup {None}, NEW a \in Avatar \cup {None},
             Arrive(r, OAuthLogin(e, n, a))
      PROVE  AInv'
  <2> DEFINE q == OAuthLogin(e, n, a)
  <2>1. /\ q \in Request /\ q.at = "select" /\ q.op = "oauth" /\ q.code = ""
        /\ q.email = e /\ q.pwd = Empty
    BY IdleFields DEF Request, OAuthLogin
  <2> HIDE DEF q
  <2> QED
    BY <1>1, <1>5, <2>1, ArrivalKeeps DEF StepOK, q
<1>6. CASE \E e \in Spelling, n \in Name \cup {None}, a \in Avatar \cup {None} :
             StartGoogle(r, e, n, a)
  BY <1>2, <1>5, <1>6 DEF StartGoogle, Normalised
<1>7. CASE \E e \in Pseudo, n \in Name, a \in Avatar \cup {None} : StartTwitter(r, e, n, a)
  BY <1>2, <1>5, <1>7 DEF StartTwitter
<1> QED
  BY <1>3, <1>4, <1>6, <1>7 DEF Call

LEMMA StartAdminKeeps ==
  ASSUME AInv, NEW run \in AdminRun, StartAdmin(run)
  PROVE  AInv'
<1>1. Operator \in Slot
  BY DEF Slot
<1>2. /\ run.email \in Spelling /\ run.name \in Name /\ run.pwd \in Password \cup {None}
      /\ run.role \in Role
      /\ Lower[run.email] \in Spelling /\ Lower[run.email] \in Address
  BY AccountsAssumption DEF Address
<1> DEFINE q == [Idle EXCEPT !.op = "admin", !.at = "select",
                             !.email = Normalised(run.email), !.name = run.name,
                             !.pwd = run.pwd, !.role = run.role]
<1>3. /\ q \in Request /\ q.at = "select" /\ q.op = "admin" /\ q.code = ""
      /\ q.email = Lower[run.email] /\ q.pwd = run.pwd
  BY <1>2, IdleFields DEF Request, Normalised
<1>4. Arrive(Operator, q)
  BY DEF StartAdmin
<1> HIDE DEF q
<1> QED
  BY <1>1, <1>2, <1>3, <1>4, ArrivalKeeps DEF StepOK

LEMMA EndKeeps ==
  ASSUME AInv, NEW r \in Slot, Finish(r) \/ Abort(r)
  PROVE  AInv'
<1>1. Moves(r) /\ req'[r] = Idle /\ UNCHANGED <<users, chosen>>
  BY IdleFields DEF Finish, Abort, Moves, AInv, TypeOK
<1>2. Normal(req[r].email)' /\ StepOK(r, req[r])' /\ CodeOK(r, req[r])'
  BY <1>1, IdleFields DEF Normal, StepOK, CodeOK
<1> QED
  BY <1>1, <1>2, TablesRest
-----------------------------------------------------------------------------
(* The SELECTs.                                                            *)

LEMMA RegisterSelectKeeps ==
  ASSUME AInv, NEW r \in Slot, RegisterSelect(r)
  PROVE  AInv'
<1> DEFINE q == req[r]
<1>1. q \in Request /\ StepOK(r, q) /\ CodeOK(r, q) /\ Normal(q.email)
      /\ q.op = "register" /\ q.at = "select"
  BY DEF AInv, TypeOK, HandlersOK, NormalOK, RegisterSelect
<1>2. UNCHANGED <<users, chosen>> /\ req \in [Slot -> Request]
  BY DEF RegisterSelect, AInv, TypeOK
<1>3. CASE WithEmail(q.email) # {}
  <2>1. req' = [req EXCEPT ![r] = Answer(q, None, "400")]
    BY <1>3 DEF RegisterSelect
  <2>2. Answered(r, None, "400")
    BY <1>2, <2>1, AnswerMoves
  <2>3. Moves(r) /\ Normal(req[r].email)' /\ StepOK(r, req[r])' /\ CodeOK(r, req[r])'
    BY <1>1, <2>2 DEF Answered, Moves, Normal, StepOK, CodeOK
  <2> QED
    BY <1>2, <2>3, TablesRest
<1>4. CASE WithEmail(q.email) = {}
  <2>1. req' = [req EXCEPT ![r] = [q EXCEPT !.at = "insert"]]
    BY <1>4 DEF RegisterSelect
  <2>2. Moves(r) /\ req'[r] = [q EXCEPT !.at = "insert"]
    BY <1>1, <1>2, <2>1 DEF Moves, Request
  <2>3. Normal(req[r].email)' /\ StepOK(r, req[r])' /\ CodeOK(r, req[r])'
    BY <1>1, <2>2 DEF Normal, StepOK, CodeOK, Request
  <2> QED
    BY <1>2, <2>2, <2>3, TablesRest
<1> QED
  BY <1>3, <1>4

LEMMA LoginSelectKeeps ==
  ASSUME AInv, NEW r \in Slot, LoginSelect(r)
  PROVE  AInv'
<1> DEFINE q == req[r]
<1>1. q \in Request /\ StepOK(r, q) /\ CodeOK(r, q) /\ Normal(q.email)
      /\ q.op = "login" /\ q.at = "select"
  BY DEF AInv, TypeOK, HandlersOK, NormalOK, LoginSelect
<1>2. UNCHANGED <<users, chosen>> /\ req \in [Slot -> Request]
  BY DEF LoginSelect, AInv, TypeOK
<1>3. PICK i \in Id \cup {None}, code \in {"200", "401"} :
        /\ req' = [req EXCEPT ![r] = Answer(q, i, code)]
        /\ code = "200" => i \in Id /\ q.pwd \in chosen[i]
  <2>1. CASE \E i \in WithEmail(q.email) :
               /\ PasswordVerifies(q.pwd, users[i].pwd)
               /\ req' = [req EXCEPT ![r] = Answer(@, i, "200")]
    BY <2>1 DEF WithEmail, PasswordVerifies, AInv, ChosenOK
  <2>2. CASE req' = [req EXCEPT ![r] = Answer(@, None, "401")]
    BY <2>2
  <2> QED
    BY <2>1, <2>2 DEF LoginSelect
<1>4. Answered(r, i, code)
  BY <1>2, <1>3, AnswerMoves
<1>5. Moves(r) /\ Normal(req[r].email)' /\ StepOK(r, req[r])' /\ CodeOK(r, req[r])'
  BY <1>1, <1>2, <1>3, <1>4 DEF Answered, Moves, Normal, StepOK, CodeOK
<1> QED
  BY <1>2, <1>5, TablesRest

LEMMA OAuthSelectKeeps ==
  ASSUME AInv, NEW r \in Slot, OAuthSelect(r)
  PROVE  AInv'
<1> DEFINE q == req[r]
<1>1. q \in Request /\ StepOK(r, q) /\ CodeOK(r, q) /\ Normal(q.email)
      /\ q.op = "oauth" /\ q.at = "select"
  BY DEF AInv, TypeOK, HandlersOK, NormalOK, OAuthSelect
<1>2. UNCHANGED <<users, chosen>> /\ req \in [Slot -> Request]
  BY DEF OAuthSelect, AInv, TypeOK
<1>3. ASSUME NEW i \in WithEmail(q.email), req' = [req EXCEPT ![r] = Answer(q, i, "303")]
      PROVE  AInv'
  <2>1. i \in Id
    BY <1>3 DEF WithEmail
  <2>2. Answered(r, i, "303")
    BY <1>2, <1>3, <2>1, AnswerMoves
  <2>3. Moves(r) /\ Normal(req[r].email)' /\ StepOK(r, req[r])' /\ CodeOK(r, req[r])'
    BY <1>1, <2>1, <2>2 DEF Answered, Moves, Normal, StepOK, CodeOK
  <2> QED
    BY <1>2, <2>3, TablesRest
<1>4. ASSUME NEW i \in WithEmail(q.email), req' = [req EXCEPT ![r] = ToProfile(q, i)]
      PROVE  AInv'
  <2>1. i \in Id /\ users[i] # None /\ users[i].email = q.email
    BY <1>4 DEF WithEmail
  <2>2. /\ ToProfile(q, i) \in Request /\ ToProfile(q, i).op = q.op
        /\ ToProfile(q, i).at = "profile" /\ ToProfile(q, i).id = i
        /\ ToProfile(q, i).email = q.email /\ ToProfile(q, i).code = q.code
        /\ ToProfile(q, i).pwd = q.pwd
    BY <1>1, <2>1 DEF Request, ToProfile
  <2>3. Moves(r) /\ req'[r] = ToProfile(q, i)
    BY <1>2, <1>4, <2>2 DEF Moves
  <2>4. Normal(req[r].email)' /\ StepOK(r, req[r])' /\ CodeOK(r, req[r])'
    BY <1>1, <1>2, <2>1, <2>2, <2>3 DEF Normal, StepOK, CodeOK
  <2> QED
    BY <1>2, <2>3, <2>4, TablesRest
<1>5. ASSUME req' = [req EXCEPT ![r].at = "insert"]
      PROVE  AInv'
  <2>1. Moves(r) /\ req'[r] = [q EXCEPT !.at = "insert"]
    BY <1>1, <1>2, <1>5 DEF Moves, Request
  <2>2. Normal(req[r].email)' /\ StepOK(r, req[r])' /\ CodeOK(r, req[r])'
    BY <1>1, <2>1 DEF Normal, StepOK, CodeOK, Request
  <2> QED
    BY <1>2, <2>1, <2>2, TablesRest
<1>6. ASSUME NEW i \in WithEmail(q.email),
             req' = [req EXCEPT ![r] = IF UpdatedProfile(users[i], req[r]) = users[i]
                                         THEN Answer(req[r], i, "303") ELSE ToProfile(req[r], i)]
      PROVE  AInv'
  BY <1>3, <1>4, <1>6
<1> QED
  BY <1>5, <1>6 DEF OAuthSelect

LEMMA AdminSelectKeeps ==
  ASSUME AInv, NEW r \in Slot, AdminSelect(r)
  PROVE  AInv'
<1> DEFINE q == req[r]
<1>1. q \in Request /\ StepOK(r, q) /\ CodeOK(r, q) /\ Normal(q.email)
      /\ q.op = "admin" /\ q.at = "select"
  BY DEF AInv, TypeOK, HandlersOK, NormalOK, AdminSelect
<1>2. UNCHANGED <<users, chosen>> /\ req \in [Slot -> Request]
  BY DEF AdminSelect, AInv, TypeOK
<1>3. ASSUME NEW i \in WithEmail(q.email),
             req' = [req EXCEPT ![r] = [@ EXCEPT !.at = "update", !.id = i]]
      PROVE  AInv'
  <2>1. i \in Id /\ users[i] # None /\ users[i].email = q.email
    BY <1>3 DEF WithEmail
  <2>2. /\ Moves(r) /\ req'[r].op = q.op /\ req'[r].at = "update" /\ req'[r].id = i
        /\ req'[r].email = q.email /\ req'[r].code = q.code /\ req'[r].pwd = q.pwd
    BY <1>1, <1>2, <1>3, <2>1 DEF Moves, Request
  <2>3. Normal(req[r].email)' /\ StepOK(r, req[r])' /\ CodeOK(r, req[r])'
    BY <1>1, <1>2, <2>1, <2>2 DEF Normal, StepOK, CodeOK
  <2> QED
    BY <1>2, <2>2, <2>3, TablesRest
<1>4. ASSUME req' = [req EXCEPT ![r].at = "insert"]
      PROVE  AInv'
  <2>1. Moves(r) /\ req'[r] = [q EXCEPT !.at = "insert"]
    BY <1>1, <1>2, <1>4 DEF Moves, Request
  <2>2. Normal(req[r].email)' /\ StepOK(r, req[r])' /\ CodeOK(r, req[r])'
    BY <1>1, <2>1 DEF Normal, StepOK, CodeOK, Request
  <2> QED
    BY <1>2, <2>1, <2>2, TablesRest
<1> QED
  BY <1>3, <1>4 DEF AdminSelect
-----------------------------------------------------------------------------
(* The INSERT and the UPDATEs.                                             *)

LEMMA NewRowFields ==
  ASSUME NEW q \in Request, q.email \in Spelling
  PROVE  /\ NewRow(q) \in Row /\ NewRow(q) # None /\ NewRow(q).email = q.email
         /\ NewRow(q).pwd = q.pwd /\ NewRow(q).role = "buyer"
<1>1. NewRow(q) \in Row
  BY DEF NewRow, Row, Request, Role
<1>2. NewRow(q) # None
  BY <1>1, AccountsAssumption
<1> QED
  BY <1>1, <1>2 DEF NewRow

LEMMA ChooseGrows ==
  ASSUME chosen \in [Id -> SUBSET Password], NEW i \in Id, NEW p \in Password \cup {None, Empty},
         chosen' = Choose(i, p)
  PROVE  /\ chosen' \in [Id -> SUBSET Password]
         /\ \A j \in Id : chosen[j] \subseteq chosen'[j]
         /\ p \in chosen'[i] \cup {None, Empty}
  BY DEF Choose

LEMMA InsertedFields ==
  ASSUME NEW q \in Request, NEW i \in Id, q.op \in {"register", "oauth", "admin"}, q.code = "",
         NEW p \in {Inserted(q, i)}
  PROVE  /\ p \in Request /\ p.op = q.op /\ p.email = q.email /\ p.pwd = q.pwd
         /\ p.role = q.role /\ p.id = i
         /\ \/ p.at = "reply" /\ p.code \in {"201", "303"}
            \/ p.at = "reply" /\ p.code = "exit 0" /\ q.op = "admin" /\ q.role = "buyer"
            \/ p.at = "profile" /\ p.code = "" /\ q.op = "oauth"
            \/ p.at = "promote" /\ p.code = "" /\ q.op = "admin"
<1>1. CASE p \in {Answer(q, i, "201"), Answer(q, i, "303")}
  BY <1>1 DEF Answer, Request
<1>2. CASE p = Answer(q, i, "exit 0") /\ q.op = "admin" /\ q.role = "buyer"
  BY <1>2 DEF Answer, Request
<1>3. CASE p = [q EXCEPT !.at = "profile", !.id = i, !.name = None] /\ q.op = "oauth"
  BY <1>3 DEF Request
<1>4. CASE p = [q EXCEPT !.at = "promote", !.id = i] /\ q.op = "admin"
  BY <1>4 DEF Request
<1> QED
  BY <1>1, <1>2, <1>3, <1>4 DEF Inserted

LEMMA InsertUserKeeps ==
  ASSUME AInv, NEW r \in Slot, InsertUser(r)
  PROVE  AInv'
<1> DEFINE q == req[r]
<1>1. /\ q \in Request /\ StepOK(r, q) /\ CodeOK(r, q) /\ Normal(q.email)
      /\ q.at = "insert" /\ q.op \in {"register", "oauth", "admin"} /\ q.email \in Spelling
      /\ q.code = ""
  BY DEF AInv, TypeOK, HandlersOK, NormalOK, StepOK, CodeOK, InsertUser
<1>2. req \in [Slot -> Request] /\ users \in [Id -> Row \cup {None}]
      /\ chosen \in [Id -> SUBSET Password]
  BY DEF AInv, TypeOK
<1>3. ASSUME NEW i \in Id, users[i] = None, WithEmail(q.email) = {},
             users' = [users EXCEPT ![i] = NewRow(q)], chosen' = Choose(i, q.pwd),
             req' = [req EXCEPT ![r] = Inserted(q, i)]
      PROVE  AInv'
  <2>1. /\ NewRow(q) \in Row /\ NewRow(q) # None /\ NewRow(q).email = q.email
        /\ NewRow(q).pwd = q.pwd /\ NewRow(q).role = "buyer"
    BY <1>1, NewRowFields
  <2>2. users'[i] = NewRow(q) /\ \A j \in Id \ {i} : users'[j] = users[j]
    BY <1>2, <1>3
  <2>3. /\ chosen' \in [Id -> SUBSET Password]
        /\ \A j \in Id : chosen[j] \subseteq chosen'[j]
        /\ q.pwd \in chosen'[i] \cup {None, Empty}
    <3>1. q.pwd \in Password \cup {None, Empty}
      BY <1>1 DEF Request
    <3> QED
      BY <1>2, <1>3, <3>1, ChooseGrows
  <2>4. RowsStay /\ SameCredentials
    BY <1>2, <1>3, <2>1, <2>2, <2>3 DEF RowsStay, SameCredentials
  <2>5. PICK p \in {Inserted(q, i)} : TRUE
    OBVIOUS
  <2>6. /\ p \in Request /\ p.op = q.op /\ p.email = q.email /\ p.pwd = q.pwd
        /\ p.role = q.role /\ p.id = i
        /\ \/ p.at = "reply" /\ p.code \in {"201", "303"}
           \/ p.at = "reply" /\ p.code = "exit 0" /\ q.op = "admin" /\ q.role = "buyer"
           \/ p.at = "profile" /\ p.code = "" /\ q.op = "oauth"
           \/ p.at = "promote" /\ p.code = "" /\ q.op = "admin"
    BY <1>1, <1>3, <2>5, InsertedFields
  <2>7. Moves(r) /\ req'[r] = p
    BY <1>2, <1>3, <2>5, <2>6 DEF Moves
  <2>8. Normal(req[r].email)' /\ StepOK(r, req[r])' /\ CodeOK(r, req[r])'
    BY <1>1, <1>3, <2>1, <2>2, <2>6, <2>7 DEF Normal, StepOK, CodeOK
  <2>9. TypeOK' /\ HandlersOK' /\ \A x \in Slot : Normal(req[x].email)'
    BY <2>4, <2>7, <2>8, OthersKeep
  <2>10. NormalOK'
    BY <1>1, <2>1, <2>2, <2>9 DEF NormalOK, Normal, AInv
  <2>11. UniqueOK'
    <3>1. \A j \in Id : users[j] # None => users[j].email # q.email
      BY <1>3 DEF WithEmail
    <3> QED
      BY <2>1, <2>2, <3>1 DEF UniqueOK, AInv
  <2>12. ChosenOK'
    BY <2>1, <2>2, <2>3 DEF ChosenOK, AInv
  <2> QED
    BY <2>9, <2>10, <2>11, <2>12 DEF AInv
<1>4. ASSUME req' = [req EXCEPT ![r] = Refused(q)], UNCHANGED <<users, chosen>>
      PROVE  AInv'
  <2>1. PICK code \in {"500", "401", "exit 1"} :
          req' = [req EXCEPT ![r] = Answer(q, None, code)]
    BY <1>1, <1>4 DEF Refused
  <2>2. Answered(r, None, code)
    BY <1>2, <2>1, AnswerMoves
  <2>3. Moves(r) /\ Normal(req[r].email)' /\ StepOK(r, req[r])' /\ CodeOK(r, req[r])'
    BY <1>1, <2>2 DEF Answered, Moves, Normal, StepOK, CodeOK
  <2> QED
    BY <1>4, <2>3, TablesRest
<1> QED
  BY <1>3, <1>4 DEF InsertUser

(* An UPDATE of row i by the slot r, which is answered.                    *)
LEMMA UpdateKeeps ==
  ASSUME AInv, NEW r \in Slot, NEW i \in Id, users[i] # None, NEW row \in Row,
         users' = [users EXCEPT ![i] = row], row.email = users[i].email,
         chosen' \in [Id -> SUBSET Password], \A j \in Id : chosen[j] \subseteq chosen'[j],
         row.pwd \in chosen'[i] \cup {None, Empty},
         r # Operator => row.pwd = users[i].pwd /\ row.role = users[i].role,
         Moves(r), req'[r].at = "reply", req'[r].email = req[r].email, req'[r].op = req[r].op,
         req'[r].pwd = req[r].pwd,
         req[r].op \in {"oauth", "admin"}, req'[r].code # "",
         req'[r].code = "exit 0" =>
           /\ req[r].op = "admin" /\ req'[r].id = i /\ row.email = req[r].email
           /\ row.role = req'[r].role
           /\ req'[r].pwd # None => row.pwd = req'[r].pwd
  PROVE  AInv'
<1>1. users \in [Id -> Row \cup {None}] /\ row # None
  BY AccountsAssumption DEF AInv, TypeOK
<1>2. users'[i] = row /\ \A j \in Id \ {i} : users'[j] = users[j]
  BY <1>1
<1>3. RowsStay
  BY <1>1, <1>2 DEF RowsStay
<1>4. SameCredentials \/ r = Operator
  BY <1>1, <1>2 DEF SameCredentials
<1>5. StepOK(r, req[r]) /\ Normal(req[r].email)
  BY DEF AInv, HandlersOK, NormalOK
<1>6. Normal(req[r].email)' /\ StepOK(r, req[r])' /\ CodeOK(r, req[r])'
  <2>1. Normal(req[r].email)'
    BY <1>5 DEF Normal
  <2>2. StepOK(r, req[r])'
    BY <1>5 DEF StepOK
  <2>3. CodeOK(r, req[r])'
    <3>1. CASE req'[r].code = "exit 0"
      BY <1>1, <1>2, <3>1 DEF CodeOK
    <3>2. CASE req'[r].code # "exit 0"
      BY <3>2 DEF CodeOK
    <3> QED
      BY <3>1, <3>2
  <2> QED
    BY <2>1, <2>2, <2>3
<1>7. TypeOK' /\ HandlersOK' /\ \A x \in Slot : Normal(req[x].email)'
  BY <1>3, <1>4, <1>6, OthersKeep
<1>8. NormalOK' /\ UniqueOK'
  <2>1. NormalOK'
    BY <1>1, <1>2, <1>7 DEF NormalOK, Normal, AInv
  <2>2. \A j \in Id : /\ users'[j] # None <=> users[j] # None
                      /\ users'[j] # None => users'[j].email = users[j].email
    BY <1>1, <1>2
  <2>3. UniqueOK'
    BY <2>2 DEF UniqueOK, AInv
  <2> QED
    BY <2>1, <2>3
<1>9. ChosenOK'
  BY <1>1, <1>2 DEF ChosenOK, AInv
<1> QED
  BY <1>7, <1>8, <1>9 DEF AInv

LEMMA UpdateProfileKeeps ==
  ASSUME AInv, NEW r \in Slot, UpdateProfile(r)
  PROVE  AInv'
<1> DEFINE q == req[r]
<1>1. /\ q \in Request /\ q.op = "oauth" /\ q.id \in Id /\ users[q.id] # None
      /\ users[q.id] \in Row
  BY DEF AInv, TypeOK, HandlersOK, StepOK, UpdateProfile
<1> DEFINE row == UpdatedProfile(users[q.id], q)
<1>2. /\ row \in Row /\ row.email = users[q.id].email /\ row.pwd = users[q.id].pwd
      /\ row.role = users[q.id].role
  BY <1>1 DEF UpdatedProfile, Row, Request
<1>3. users' = [users EXCEPT ![q.id] = row] /\ UNCHANGED chosen
  BY DEF UpdateProfile
<1>4. chosen \in [Id -> SUBSET Password] /\ row.pwd \in chosen[q.id] \cup {None, Empty}
  BY <1>1, <1>2 DEF AInv, TypeOK, ChosenOK
<1>5. Answered(r, q.id, "303")
  BY <1>1, AnswerMoves DEF UpdateProfile, AInv, TypeOK
<1> HIDE DEF row
<1> QED
  BY <1>1, <1>2, <1>3, <1>4, <1>5, UpdateKeeps DEF Answered, Moves

LEMMA AdminUpdateKeeps ==
  ASSUME AInv, NEW r \in Slot, AdminUpdate(r)
  PROVE  AInv'
<1> DEFINE q == req[r]
<1>1. /\ q \in Request /\ q.op = "admin" /\ q.id \in Id /\ users[q.id] # None /\ r = Operator
      /\ users[q.id] \in Row /\ users[q.id].email = q.email
  BY DEF AInv, TypeOK, HandlersOK, StepOK, AdminUpdate
<1> DEFINE row == Granted(users[q.id], q)
<1>2. /\ row \in Row /\ row.email = users[q.id].email /\ row.role = q.role
      /\ row.pwd = IF q.pwd = None THEN users[q.id].pwd ELSE q.pwd
  BY <1>1 DEF Granted, Row, Request
<1>3. users' = [users EXCEPT ![q.id] = row] /\ chosen' = Choose(q.id, q.pwd)
  BY DEF AdminUpdate
<1>4. /\ chosen' \in [Id -> SUBSET Password]
      /\ \A j \in Id : chosen[j] \subseteq chosen'[j]
      /\ q.pwd \in chosen'[q.id] \cup {None, Empty}
  <2>1. q.pwd \in Password \cup {None, Empty}
    BY <1>1 DEF Request
  <2> QED
    BY <1>1, <1>3, <2>1, ChooseGrows DEF AInv, TypeOK
<1>5. row.pwd \in chosen'[q.id] \cup {None, Empty}
  BY <1>1, <1>2, <1>4 DEF AInv, ChosenOK
<1>6. Answered(r, q.id, "exit 0")
  BY <1>1, AnswerMoves DEF AdminUpdate, AInv, TypeOK
<1> HIDE DEF row
<1> QED
  BY <1>1, <1>2, <1>3, <1>4, <1>5, <1>6, UpdateKeeps DEF Answered, Moves

LEMMA AdminPromoteKeeps ==
  ASSUME AInv, NEW r \in Slot, AdminPromote(r)
  PROVE  AInv'
<1> DEFINE q == req[r]
<1>1. /\ q \in Request /\ q.op = "admin" /\ q.id \in Id /\ users[q.id] # None /\ r = Operator
      /\ users[q.id] \in Row /\ users[q.id].email = q.email
      /\ q.pwd # None => users[q.id].pwd = q.pwd
  BY DEF AInv, TypeOK, HandlersOK, StepOK, AdminPromote
<1> DEFINE row == [users[q.id] EXCEPT !.role = q.role]
<1>2. /\ row \in Row /\ row.email = users[q.id].email /\ row.role = q.role
      /\ row.pwd = users[q.id].pwd
  BY <1>1 DEF Row, Request
<1>3. users' = [users EXCEPT ![q.id] = row] /\ UNCHANGED chosen
  BY DEF AdminPromote
<1>4. chosen \in [Id -> SUBSET Password] /\ row.pwd \in chosen[q.id] \cup {None, Empty}
  BY <1>1, <1>2 DEF AInv, TypeOK, ChosenOK
<1>5. Answered(r, q.id, "exit 0")
  BY <1>1, AnswerMoves DEF AdminPromote, AInv, TypeOK
<1> HIDE DEF row
<1> QED
  BY <1>1, <1>2, <1>3, <1>4, <1>5, UpdateKeeps DEF Answered, Moves
-----------------------------------------------------------------------------
LEMMA HandleKeeps ==
  ASSUME AInv, NEW r \in Slot, Handle(r)
  PROVE  AInv'
  BY RegisterSelectKeeps, LoginSelectKeeps, OAuthSelectKeeps, AdminSelectKeeps,
     InsertUserKeeps, UpdateProfileKeeps, AdminUpdateKeeps, AdminPromoteKeeps DEF Handle

LEMMA StepKeeps ==
  ASSUME AInv, [Next]_vars
  PROVE  AInv'
<1>1. CASE UNCHANGED vars
  BY <1>1 DEF vars, AInv, TypeOK, NormalOK, Normal, UniqueOK, ChosenOK, HandlersOK, StepOK, CodeOK
<1>2. CASE Next
  BY <1>2, CallKeeps, StartAdminKeeps, HandleKeeps, EndKeeps DEF Next
<1> QED
  BY <1>1, <1>2

(* AInv holds in every reachable state: what each handler holds at an      *)
(* await, and that no other writer can take it away.                       *)
THEOREM Invariance == Spec => []AInv
BY Initially, StepKeeps, PTL DEF Spec

(* The type of every variable: no handler holds or stores anything else,   *)
(* in particular an UPDATE never names a row that is not there.            *)
THEOREM Typed == Spec => []TypeOK
<1>1. AInv => TypeOK
  BY DEF AInv
<1> QED
  BY <1>1, Invariance, PTL

(* An address has one account unless a pseudo-address is spelled otherwise *)
(* than in lower case: every other address handed to create_user, by       *)
(* whichever writer, is normalised, and UNIQUE compares what is stored.    *)
THEOREM OneAccount == Spec => []OneAccountPerAddress
<1>1. AInv => OneAccountPerAddress
  <2> SUFFICES ASSUME AInv, NEW i \in Id, NEW j \in Id, users[i] # None, users[j] # None,
                      Lower[users[i].email] = Lower[users[j].email], i # j
               PROVE  \E k \in {i, j} : users[k].email \in {e \in Pseudo : Lower[e] # e}
    BY DEF OneAccountPerAddress
  <2>1. \A k \in {i, j} : users[k].email \in Spelling /\ users[k].email \in Address
    BY AccountsAssumption DEF AInv, TypeOK, Row, NormalOK, Normal
  <2>2. \A k \in {i, j} : \/ users[k].email \in Pseudo
                           \/ Lower[users[k].email] = users[k].email
    BY <2>1, AccountsAssumption DEF Address
  <2>3. users[i].email # users[j].email
    BY DEF AInv, UniqueOK
  <2> QED
    BY <2>2, <2>3
<1> QED
  BY <1>1, Invariance, PTL

(* login_user_service lets nobody in without a password that was chosen    *)
(* for this account, in particular not into one made by a provider login.  *)
THEOREM LoginsNeedPasswords == Spec => []LoginNeedsChosenPassword
<1>1. AInv => LoginNeedsChosenPassword
  BY DEF AInv, HandlersOK, CodeOK, LoginNeedsChosenPassword, Slot
<1> QED
  BY <1>1, Invariance, PTL

(* When create_admin has exited with 0, and until it is run again, the     *)
(* account it names has the role and the password it was run with: what    *)
(* other handlers write meanwhile does not touch them.                     *)
THEOREM ExitZeroIsTrue == Spec => []ExitZeroMeansDone
<1>1. AInv => ExitZeroMeansDone
  BY DEF AInv, HandlersOK, CodeOK, ExitZeroMeansDone, Slot
<1> QED
  BY <1>1, Invariance, PTL
-----------------------------------------------------------------------------
(* Rows are written by four statements.                                    *)
LEMMA Writers ==
  ASSUME AInv, Next, NEW i \in Id, users[i] # None, users'[i] # users[i]
  PROVE  \/ \E r \in Slot : /\ UpdateProfile(r) /\ req[r].id = i
                            /\ users'[i] = UpdatedProfile(users[i], req[r])
         \/ AdminUpdate(Operator) /\ req[Operator].id = i
            /\ users'[i] = Granted(users[i], req[Operator])
         \/ AdminPromote(Operator) /\ req[Operator].id = i
            /\ users'[i] = [users[i] EXCEPT !.role = req[Operator].role]
<1>1. users \in [Id -> Row \cup {None}] /\ \A r \in Slot : StepOK(r, req[r])
  BY DEF AInv, TypeOK, HandlersOK
<1>2. PICK r \in Slot : InsertUser(r) \/ UpdateProfile(r) \/ AdminUpdate(r) \/ AdminPromote(r)
  BY DEF Next, Call, StartRegister, StartLogin, StartGoogle, StartTwitter, StartAdmin, Arrive, Handle,
         RegisterSelect, LoginSelect, OAuthSelect, AdminSelect, Finish, Abort
<1>3. CASE InsertUser(r)
  BY <1>1, <1>3 DEF InsertUser
<1>4. CASE UpdateProfile(r)
  BY <1>1, <1>4 DEF UpdateProfile
<1>5. CASE AdminUpdate(r)
  <2>1. r = Operator
    BY <1>1, <1>5 DEF AdminUpdate, StepOK
  <2> QED
    BY <1>1, <1>5, <2>1 DEF AdminUpdate
<1>6. CASE AdminPromote(r)
  <2>1. r = Operator
    BY <1>1, <1>6 DEF AdminPromote, StepOK
  <2> QED
    BY <1>1, <1>6, <2>1 DEF AdminPromote
<1> QED
  BY <1>2, <1>3, <1>4, <1>5, <1>6

(* Password and role of an account are changed by create_admin only: a     *)
(* registration or a provider login that loses the race for an address     *)
(* leaves the account of the winner as it is.                              *)
THEOREM CredentialsGuarded == Spec => OnlyOperatorChangesCredentials
<1> DEFINE Guarded == \A i \in Id : users[i] # None /\ (users'[i].pwd # users[i].pwd
                                                        \/ users'[i].role # users[i].role)
                        => req[Operator].id = i /\ req[Operator].at \in {"update", "promote"}
<1>1. AInv /\ [Next]_vars => [Guarded]_vars
  <2> SUFFICES ASSUME AInv, Next, NEW i \in Id, users[i] # None,
                      users'[i].pwd # users[i].pwd \/ users'[i].role # users[i].role
               PROVE  req[Operator].id = i /\ req[Operator].at \in {"update", "promote"}
    OBVIOUS
  <2>1. ASSUME NEW r \in Slot, users'[i] = UpdatedProfile(users[i], req[r])
        PROVE  FALSE
    <3>1. users[i] \in Row
      BY DEF AInv, TypeOK
    <3> QED
      BY <2>1, <3>1 DEF UpdatedProfile, Row
  <2> QED
    BY <2>1, Writers DEF AdminUpdate, AdminPromote
<1> QED
  BY <1>1, Invariance, PTL DEF Spec, OnlyOperatorChangesCredentials

(* update_user_profile writes only values that are there: a display name   *)
(* or avatar, once present, is never blanked, by whichever writer.         *)
THEOREM ProfilesKept == Spec => ProfileNeverBlanked
<1> DEFINE Kept == \A i \in Id : users[i] # None =>
                     /\ users[i].name # None => users'[i].name # None
                     /\ users[i].avatar # None => users'[i].avatar # None
<1>1. AInv /\ [Next]_vars => [Kept]_vars
  <2> SUFFICES ASSUME AInv, Next, NEW i \in Id, users[i] # None
               PROVE  /\ users[i].name # None => users'[i].name # None
                      /\ users[i].avatar # None => users'[i].avatar # None
    OBVIOUS
  <2>1. users[i] \in Row
    BY DEF AInv, TypeOK
  <2>2. CASE users'[i] = users[i]
    BY <2>2
  <2>3. CASE users'[i] # users[i]
    BY <2>1, <2>3, Writers DEF UpdatedProfile, Granted, Row
  <2> QED
    BY <2>2, <2>3
<1> QED
  BY <1>1, Invariance, PTL DEF Spec, ProfileNeverBlanked
-----------------------------------------------------------------------------
(***************************************************************************)
(* Accounts implements Registry.                                           *)
(***************************************************************************)

(* The registry has what the one row with the address has.                 *)
LEMMA Registered ==
  ASSUME AInv, NEW i \in Id, users[i] # None
  PROVE  /\ users[i].email \in Address /\ users[i].email \in registeredBar
         /\ pwdBar[users[i].email] = users[i].pwd
         /\ roleBar[users[i].email] = users[i].role
<1> DEFINE a == users[i].email
<1>1. users[i] \in Row
  BY DEF AInv, TypeOK
<1>2. a \in Address
  BY <1>1, AccountsAssumption DEF AInv, Row, NormalOK, Normal
<1>3. WithEmail(a) = {i}
  BY DEF WithEmail, AInv, UniqueOK
<1>4. RowOf(a) = users[i]
  BY <1>3 DEF RowOf
<1> HIDE DEF a
<1> QED
  BY <1>2, <1>3, <1>4 DEF registeredBar, pwdBar, roleBar, a

LEMMA SameTable ==
  ASSUME UNCHANGED users
  PROVE  UNCHANGED <<registeredBar, pwdBar, roleBar>>
<1>1. \A a : WithEmail(a)' = WithEmail(a)
  BY DEF WithEmail
<1>2. \A a : RowOf(a)' = RowOf(a)
  BY <1>1 DEF RowOf
<1> QED
  BY <1>1, <1>2 DEF registeredBar, pwdBar, roleBar

(* A new row, or a new version of a row, under its address.                *)
LEMMA RowWritten ==
  ASSUME AInv, AInv', NEW i \in Id, NEW row \in Row, users' = [users EXCEPT ![i] = row],
         users[i] = None \/ users[i].email = row.email
  PROVE  /\ row.email \in Address
         /\ registeredBar' = registeredBar \cup {row.email}
         /\ pwdBar' = [pwdBar EXCEPT ![row.email] = row.pwd]
         /\ roleBar' = [roleBar EXCEPT ![row.email] = row.role]
<1> DEFINE a == row.email
<1>1. row # None /\ users'[i] = row /\ \A j \in Id \ {i} : users'[j] = users[j]
  BY AccountsAssumption DEF AInv, TypeOK
<1>2. a # None
  BY AccountsAssumption DEF Row
<1>3. a \in Address
  BY <1>1, <1>2 DEF AInv, NormalOK, Normal
<1>4. WithEmail(a)' = {i}
  BY <1>1 DEF WithEmail, AInv, UniqueOK
<1>5. RowOf(a)' = row
  BY <1>1, <1>4 DEF RowOf
<1>6. ASSUME NEW b \in Address, b # a
      PROVE  /\ WithEmail(b)' = WithEmail(b)
             /\ WithEmail(b) # {} => RowOf(b)' = RowOf(b)
  <2>1. WithEmail(b)' = WithEmail(b) /\ i \notin WithEmail(b)
    BY <1>1, <1>6 DEF WithEmail
  <2>2. WithEmail(b) # {} => (CHOOSE j \in WithEmail(b) : TRUE) \in Id \ {i}
    BY <2>1 DEF WithEmail
  <2> QED
    BY <1>1, <2>1, <2>2 DEF RowOf
<1> HIDE DEF a
<1>7. registeredBar' = registeredBar \cup {a}
  BY <1>3, <1>4, <1>6 DEF registeredBar
<1>8. pwdBar' = [pwdBar EXCEPT ![a] = row.pwd]
  BY <1>3, <1>4, <1>5, <1>6 DEF pwdBar
<1>9. roleBar' = [roleBar EXCEPT ![a] = row.role]
  BY <1>3, <1>4, <1>5, <1>6 DEF roleBar
<1> QED
  BY <1>3, <1>7, <1>8, <1>9 DEF a

(* A handler that reaches its reply has told its caller, the others keep   *)
(* theirs waiting.                                                         *)
LEMMA Answers ==
  ASSUME NEW r \in Slot, Moves(r), req[r].at # "reply", req'[r].at = "reply",
         req'[r].email = req[r].email, req'[r].pwd = req[r].pwd
  PROVE  Contract!Tell(r, Said(req'[r]), req[r].email, req[r].pwd)
  BY DEF Contract!Tell, Contract!Nothing, answerBar, Moves

LEMMA Waits ==
  ASSUME NEW r \in Slot, Moves(r), req[r].at # "reply", req'[r].at # "reply"
  PROVE  UNCHANGED answerBar
  BY DEF answerBar, Moves

(* The read that decides is where a call without effect takes effect.      *)
LEMMA SelectRefines ==
  ASSUME AInv, NEW r \in Slot,
         RegisterSelect(r) \/ LoginSelect(r) \/ OAuthSelect(r) \/ AdminSelect(r)
  PROVE  [Contract!Next]_(Contract!vars)
<1> DEFINE q == req[r]
           a == q.email
<1>1. /\ req \in [Slot -> Request] /\ q \in Request /\ q.at = "select" /\ a \in Spelling
      /\ a \in Address /\ StepOK(r, q) /\ UNCHANGED users
  BY AccountsAssumption DEF AInv, TypeOK, HandlersOK, StepOK, NormalOK, Normal, RegisterSelect,
     LoginSelect, OAuthSelect, AdminSelect
<1>2. UNCHANGED <<registeredBar, pwdBar, roleBar>>
  BY <1>1, SameTable
<1>3. a \in Address /\ q.pwd \in Password \cup {None, Empty}
  BY <1>1 DEF Request
<1>4. ASSUME NEW i \in Id \cup {None},
             NEW code \in {"200", "303", "400", "401"}, req' = [req EXCEPT ![r] = Answer(q, i, code)]
      PROVE  /\ Contract!Tell(r, Said(req'[r]), a, q.pwd)
             /\ req'[r].code = code /\ req'[r].op = q.op
  <2>1. Answered(r, i, code)
    BY <1>1, <1>4, AnswerMoves
  <2> QED
    BY <1>1, <2>1, Answers DEF Answered, Moves
<1>5. ASSUME NEW at \in {"insert", "update", "profile"}, NEW n \in Request, n.at = at,
             req' = [req EXCEPT ![r] = n]
      PROVE  UNCHANGED (Contract!vars)
  <2>1. Moves(r) /\ req'[r].at # "reply"
    BY <1>1, <1>5 DEF Moves
  <2> QED
    BY <1>1, <1>2, <2>1, Waits DEF Contract!vars
<1>6. CASE RegisterSelect(r)
  <2>1. CASE WithEmail(a) # {}
    <3>1. req' = [req EXCEPT ![r] = Answer(q, None, "400")]
      BY <1>6, <2>1 DEF RegisterSelect
    <3>2. Contract!Tell(r, "taken", a, q.pwd)
      BY <3>1, <1>4 DEF Said
    <3>3. Contract!TurnAway(r, a, q.pwd)
      BY <1>2, <1>3, <2>1, <3>2 DEF Contract!TurnAway, registeredBar
    <3> QED
      BY <1>3, <3>3 DEF Contract!Next
  <2>2. CASE WithEmail(a) = {}
    <3>1. req' = [req EXCEPT ![r] = [q EXCEPT !.at = "insert"]]
      BY <1>6, <2>2 DEF RegisterSelect
    <3> QED
      BY <1>1, <1>5, <3>1 DEF Request
  <2> QED
    BY <2>1, <2>2
<1>7. CASE LoginSelect(r)
  <2>0. q.op = "login" /\ q.pwd \in Password
    BY <1>1, <1>7 DEF LoginSelect, StepOK
  <2>1. ASSUME NEW i \in WithEmail(a), PasswordVerifies(q.pwd, users[i].pwd),
               req' = [req EXCEPT ![r] = Answer(q, i, "200")]
        PROVE  Contract!Next
    <3>1. i \in Id /\ users[i] # None /\ users[i].email = a
      BY <2>1 DEF WithEmail
    <3>2. a \in registeredBar /\ pwdBar[a] = q.pwd
      BY <2>1, <3>1, Registered DEF PasswordVerifies
    <3>3. Contract!Tell(r, "yes", a, q.pwd)
      BY <2>1, <3>1, <1>4 DEF Said
    <3>4. Contract!Admit(r, a, q.pwd)
      BY <1>2, <3>2, <3>3 DEF Contract!Admit
    <3> QED
      BY <1>3, <2>0, <3>4 DEF Contract!Next
  <2>2. ASSUME \A i \in WithEmail(a) : ~PasswordVerifies(q.pwd, users[i].pwd),
               req' = [req EXCEPT ![r] = Answer(q, None, "401")]
        PROVE  Contract!Next
    <3>1. Contract!Tell(r, "denied", a, q.pwd)
      BY <2>0, <2>2, <1>4 DEF Said
    <3>2. a \in registeredBar => q.pwd # pwdBar[a]
      <4> SUFFICES ASSUME a \in registeredBar PROVE q.pwd # pwdBar[a]
        OBVIOUS
      <4>1. PICK i \in Id : i \in WithEmail(a) /\ users[i] # None /\ users[i].email = a
        BY DEF registeredBar, WithEmail
      <4>2. pwdBar[a] = users[i].pwd
        BY <4>1, Registered
      <4> QED
        BY <2>0, <2>2, <4>1, <4>2, AccountsAssumption DEF PasswordVerifies
    <3>3. Contract!Deny(r, a, q.pwd)
      BY <1>2, <3>1, <3>2 DEF Contract!Deny
    <3> QED
      BY <1>3, <2>0, <3>3 DEF Contract!Next
  <2> QED
    BY <1>7, <2>1, <2>2 DEF LoginSelect
<1>8. CASE OAuthSelect(r)
  <2>0. q.op = "oauth" /\ q.pwd = Empty
    BY <1>1, <1>8 DEF OAuthSelect, StepOK
  <2>1. ASSUME NEW i \in WithEmail(a), req' = [req EXCEPT ![r] = Answer(q, i, "303")]
        PROVE  Contract!Next
    <3>1. i \in Id /\ a \in registeredBar
      BY <1>3, <2>1 DEF WithEmail, registeredBar
    <3>2. Contract!Tell(r, "yes", a, q.pwd)
      BY <2>1, <3>1, <1>4 DEF Said
    <3>3. Contract!Admit(r, a, q.pwd)
      BY <1>2, <2>0, <3>1, <3>2 DEF Contract!Admit
    <3> QED
      BY <1>3, <2>0, <3>3 DEF Contract!Next
  <2>2. ASSUME NEW i \in WithEmail(a), req' = [req EXCEPT ![r] = ToProfile(q, i)]
        PROVE  UNCHANGED (Contract!vars)
    <3>1. ToProfile(q, i) \in Request /\ ToProfile(q, i).at = "profile"
      BY <1>1, <2>2 DEF ToProfile, Request, WithEmail
    <3> QED
      BY <2>2, <3>1, <1>5
  <2>3. ASSUME req' = [req EXCEPT ![r].at = "insert"]
        PROVE  UNCHANGED (Contract!vars)
    <3>1. req' = [req EXCEPT ![r] = [q EXCEPT !.at = "insert"]]
      BY <2>3
    <3> QED
      BY <1>1, <1>5, <3>1 DEF Request
  <2>4. \/ \E i \in WithEmail(a) : \/ req' = [req EXCEPT ![r] = Answer(q, i, "303")]
                                   \/ req' = [req EXCEPT ![r] = ToProfile(q, i)]
        \/ req' = [req EXCEPT ![r].at = "insert"]
    BY <1>8 DEF OAuthSelect
  <2> QED
    BY <2>1, <2>2, <2>3, <2>4
<1>9. CASE AdminSelect(r)
  <2>1. ASSUME NEW i \in WithEmail(a), req' = [req EXCEPT ![r] = [q EXCEPT !.at = "update", !.id = i]]
        PROVE  UNCHANGED (Contract!vars)
    BY <1>1, <1>5, <2>1 DEF Request, WithEmail
  <2>2. ASSUME req' = [req EXCEPT ![r] = [q EXCEPT !.at = "insert"]]
        PROVE  UNCHANGED (Contract!vars)
    BY <1>1, <1>5, <2>2 DEF Request
  <2> QED
    BY <1>9, <2>1, <2>2 DEF AdminSelect
<1> QED
  BY <1>6, <1>7, <1>8, <1>9

(* The INSERT is where an address is claimed, or found to be taken.        *)
LEMMA InsertRefines ==
  ASSUME AInv, AInv', NEW r \in Slot, InsertUser(r)
  PROVE  [Contract!Next]_(Contract!vars)
<1> DEFINE q == req[r]
           a == q.email
<1>1. /\ req \in [Slot -> Request] /\ q \in Request /\ q.at = "insert" /\ a \in Spelling
      /\ a \in Address /\ q.op \in {"register", "oauth", "admin"} /\ q.code = ""
  BY AccountsAssumption DEF AInv, TypeOK, HandlersOK, StepOK, CodeOK, NormalOK, Normal, InsertUser
<1>2. a \in Address /\ q.pwd \in Password \cup {None, Empty}
  BY <1>1 DEF Request
<1>3. ASSUME NEW i \in Id, users[i] = None, WithEmail(a) = {},
             users' = [users EXCEPT ![i] = NewRow(q)],
             req' = [req EXCEPT ![r] = Inserted(q, i)]
      PROVE  Contract!Next
  <2>1. PICK row \in Row : /\ users' = [users EXCEPT ![i] = row]
                           /\ row.email = a /\ row.pwd = q.pwd /\ row.role = "buyer"
    BY <1>1, <1>3, NewRowFields
  <2>2. /\ registeredBar' = registeredBar \cup {a}
        /\ pwdBar' = [pwdBar EXCEPT ![a] = q.pwd]
        /\ roleBar' = [roleBar EXCEPT ![a] = "buyer"]
    BY <1>3, <2>1, RowWritten
  <2>3. PICK n \in {Inserted(q, i)} : TRUE
    OBVIOUS
  <2>4. /\ n \in Request /\ n.email = a /\ n.pwd = q.pwd
        /\ n.at = "reply" => n.code \in {"201", "303", "exit 0"}
    BY <1>1, <2>3, InsertedFields
  <2>5. Moves(r) /\ req'[r] = n
    BY <1>1, <1>3, <2>3, <2>4 DEF Moves
  <2>6. Contract!Tell(r, "yes", a, q.pwd) \/ UNCHANGED answerBar
    <3>1. CASE n.at = "reply"
      BY <1>1, <2>4, <2>5, <3>1, Answers DEF Said
    <3>2. CASE n.at # "reply"
      BY <1>1, <2>5, <3>2, Waits
    <3> QED
      BY <3>1, <3>2
  <2>7. a \notin registeredBar
    BY <1>3 DEF registeredBar
  <2> QED
    BY <1>2, <2>2, <2>6, <2>7 DEF Contract!Next, Contract!Enrol
<1>4. ASSUME WithEmail(a) # {}, req' = [req EXCEPT ![r] = Refused(q)], UNCHANGED users
      PROVE  Contract!Next
  <2>1. PICK code \in {"500", "401", "exit 1"} :
          /\ req' = [req EXCEPT ![r] = Answer(q, None, code)]
    BY <1>1, <1>4 DEF Refused
  <2>2. Answered(r, None, code)
    BY <1>1, <2>1, AnswerMoves
  <2>3. Said(req'[r]) = "taken"
    BY <1>1, <2>2 DEF Said, Answered
  <2>4. Contract!Tell(r, "taken", a, q.pwd)
    BY <1>1, <2>2, <2>3, Answers DEF Answered, Moves
  <2>5. Contract!TurnAway(r, a, q.pwd)
    BY <1>2, <1>4, <2>4, SameTable DEF Contract!TurnAway, registeredBar
  <2> QED
    BY <1>2, <2>5 DEF Contract!Next
<1> QED
  BY <1>3, <1>4 DEF InsertUser

(* An UPDATE answers, and what it changes is a profile, of which the       *)
(* registry knows nothing, or what the operator asked for.                 *)
LEMMA ProfileRefines ==
  ASSUME AInv, AInv', NEW r \in Slot, UpdateProfile(r)
  PROVE  Contract!Next
<1> DEFINE q == req[r]
           a == q.email
<1>1. /\ req \in [Slot -> Request] /\ q \in Request /\ q.at = "profile" /\ q.op = "oauth"
      /\ q.pwd = Empty /\ q.id \in Id /\ users[q.id] # None /\ users[q.id].email = a
      /\ users[q.id] \in Row
  BY DEF AInv, TypeOK, HandlersOK, StepOK, UpdateProfile
<1>2. PICK row \in Row : /\ users' = [users EXCEPT ![q.id] = row] /\ row.email = a
                         /\ row.pwd = users[q.id].pwd /\ row.role = users[q.id].role
  <2>1. /\ UpdatedProfile(users[q.id], q) \in Row
        /\ UpdatedProfile(users[q.id], q).email = a
        /\ UpdatedProfile(users[q.id], q).pwd = users[q.id].pwd
        /\ UpdatedProfile(users[q.id], q).role = users[q.id].role
    BY <1>1 DEF UpdatedProfile, Row, Request
  <2> QED
    BY <2>1 DEF UpdateProfile
<1>3. /\ a \in Address /\ a \in registeredBar
      /\ pwdBar[a] = users[q.id].pwd /\ roleBar[a] = users[q.id].role
  BY <1>1, Registered
<1>4. UNCHANGED <<registeredBar, pwdBar, roleBar>>
  <2>1. /\ registeredBar' = registeredBar \cup {a}
        /\ pwdBar' = [pwdBar EXCEPT ![a] = row.pwd]
        /\ roleBar' = [roleBar EXCEPT ![a] = row.role]
    BY <1>1, <1>2, RowWritten
  <2>2. pwdBar = [pwdBar EXCEPT ![a] = pwdBar[a]] /\ roleBar = [roleBar EXCEPT ![a] = roleBar[a]]
    BY DEF pwdBar, roleBar
  <2> QED
    BY <1>2, <1>3, <2>1, <2>2
<1>5. Answered(r, q.id, "303")
  BY <1>1, AnswerMoves DEF UpdateProfile
<1>6. Contract!Tell(r, "yes", a, q.pwd)
  BY <1>1, <1>5, Answers DEF Answered, Moves, Said
<1>7. Contract!Admit(r, a, q.pwd)
  BY <1>1, <1>3, <1>4, <1>6 DEF Contract!Admit
<1> QED
  BY <1>1, <1>3, <1>7 DEF Contract!Next

LEMMA GrantRefines ==
  ASSUME AInv, AInv', NEW r \in Slot, AdminUpdate(r) \/ AdminPromote(r)
  PROVE  Contract!Next
<1> DEFINE q == req[r]
           a == q.email
<1>1. /\ req \in [Slot -> Request] /\ q \in Request /\ q.at \in {"update", "promote"}
      /\ q.op = "admin" /\ r = Operator /\ q.pwd \in Password \cup {None}
      /\ q.id \in Id /\ users[q.id] # None /\ users[q.id].email = a /\ users[q.id] \in Row
      /\ q.at = "promote" /\ q.pwd # None => users[q.id].pwd = q.pwd
  BY DEF AInv, TypeOK, HandlersOK, StepOK, AdminUpdate, AdminPromote
<1>2. PICK row \in Row :
        /\ users' = [users EXCEPT ![q.id] = row] /\ row.email = a /\ row.role = q.role
        /\ row.pwd = IF q.pwd = None THEN users[q.id].pwd ELSE q.pwd
  <2>1. CASE AdminUpdate(r)
    <3>1. /\ Granted(users[q.id], q) \in Row /\ Granted(users[q.id], q).email = a
          /\ Granted(users[q.id], q).role = q.role
          /\ Granted(users[q.id], q).pwd = IF q.pwd = None THEN users[q.id].pwd ELSE q.pwd
      BY <1>1 DEF Granted, Row, Request
    <3> QED
      BY <2>1, <3>1 DEF AdminUpdate
  <2>2. CASE AdminPromote(r)
    <3> DEFINE p == [users[q.id] EXCEPT !.role = q.role]
    <3>1. /\ p \in Row /\ p.email = a /\ p.role = q.role /\ p.pwd = users[q.id].pwd
      BY <1>1 DEF Row, Request
    <3>2. users' = [users EXCEPT ![q.id] = p] /\ q.at = "promote"
      BY <2>2 DEF AdminPromote
    <3> HIDE DEF p
    <3> QED
      BY <1>1, <3>1, <3>2
  <2> QED
    BY <2>1, <2>2
<1>3. a \in Address /\ a \in registeredBar /\ pwdBar[a] = users[q.id].pwd
  BY <1>1, Registered
<1>4. /\ registeredBar' = registeredBar \cup {a}
      /\ pwdBar' = [pwdBar EXCEPT ![a] = row.pwd]
      /\ roleBar' = [roleBar EXCEPT ![a] = row.role]
  BY <1>1, <1>2, RowWritten
<1>5. Answered(r, q.id, "exit 0")
  BY <1>1, AnswerMoves DEF AdminUpdate, AdminPromote
<1>6. Contract!Tell(Operator, "yes", a, q.pwd)
  BY <1>1, <1>5, Answers DEF Answered, Moves, Said
<1>7. Contract!Grant(a, q.pwd, q.role)
  BY <1>2, <1>3, <1>4, <1>6 DEF Contract!Grant
<1> QED
  BY <1>1, <1>3, <1>7 DEF Contract!Next, Request

LEMMA EndRefines ==
  ASSUME AInv, NEW r \in Slot, Finish(r) \/ Abort(r)
  PROVE  [Contract!Next]_(Contract!vars)
<1>1. Moves(r) /\ req'[r] = Idle /\ UNCHANGED users
  BY IdleFields DEF Finish, Abort, Moves, AInv, TypeOK
<1>2. UNCHANGED <<registeredBar, pwdBar, roleBar>>
  BY <1>1, SameTable
<1>3. CASE req[r].at # "reply"
  BY <1>1, <1>2, <1>3, IdleFields, Waits DEF Contract!vars
<1>4. CASE req[r].at = "reply"
  <2>1. answerBar[r].said # "" /\ Contract!Nothing.said = ""
    BY <1>4 DEF answerBar, Said, Contract!Nothing
  <2>2. answerBar[r] # Contract!Nothing
    BY <2>1
  <2>3. answerBar' = [answerBar EXCEPT ![r] = Contract!Nothing]
    BY <1>1, IdleFields DEF answerBar, Moves, Contract!Nothing
  <2>4. Contract!Leave(r)
    BY <1>2, <2>2, <2>3 DEF Contract!Leave
  <2> QED
    BY <2>4 DEF Contract!Next
<1> QED
  BY <1>3, <1>4

LEMMA ArrivalRefines ==
  ASSUME AInv, (\E r \in Req : Call(r)) \/ (\E run \in AdminRun : StartAdmin(run))
  PROVE  UNCHANGED (Contract!vars)
<1>1. ASSUME NEW r \in Slot, NEW q, q.at = "select", Arrive(r, q)
      PROVE  UNCHANGED (Contract!vars)
  <2>1. /\ req[r].at = "idle" /\ req'[r].at = "select" /\ UNCHANGED users
        /\ \A x \in Slot \ {r} : req'[x] = req[x]
    BY <1>1 DEF Arrive, AInv, TypeOK
  <2>2. UNCHANGED answerBar
    BY <2>1 DEF answerBar
  <2> QED
    BY <2>1, <2>2, SameTable DEF Contract!vars
<1>2. Operator \in Slot /\ \A r \in Req : r \in Slot
  BY DEF Slot
<1>3. ASSUME NEW r \in Req, NEW e, NEW p, NEW n, StartRegister(r, e, p, n)
      PROVE  UNCHANGED (Contract!vars)
  BY <1>1, <1>2, <1>3 DEF StartRegister, Idle
<1>4. ASSUME NEW r \in Req, NEW e, NEW p, StartLogin(r, e, p)
      PROVE  UNCHANGED (Contract!vars)
  BY <1>1, <1>2, <1>4 DEF StartLogin, Idle
<1>5. ASSUME NEW r \in Req, NEW e, NEW n, NEW a,
             StartGoogle(r, e, n, a) \/ StartTwitter(r, e, n, a)
      PROVE  UNCHANGED (Contract!vars)
  BY <1>1, <1>2, <1>5 DEF StartGoogle, StartTwitter, OAuthLogin, Idle
<1>6. ASSUME NEW run, StartAdmin(run)
      PROVE  UNCHANGED (Contract!vars)
  BY <1>1, <1>2, <1>6 DEF StartAdmin, Idle
<1> QED
  BY <1>3, <1>4, <1>5, <1>6 DEF Call

(* The four writers of the users table keep the promise of Registry: a     *)
(* handler that reads in one statement and writes in another behaves as if *)
(* it did both at once.                                                    *)
THEOREM KeepsRegistry == Spec => ImplementsRegistry
<1>1. Init => Contract!Init
  <2> SUFFICES ASSUME Init PROVE Contract!Init
    OBVIOUS
  <2>1. \A a : WithEmail(a) = {}
    BY DEF Init, WithEmail
  <2>2. answerBar = [r \in Slot |-> Contract!Nothing]
    BY IdleFields DEF Init, answerBar, Contract!Nothing
  <2>3. registeredBar = {} /\ pwdBar = [a \in Address |-> None] /\ roleBar = [a \in Address |-> None]
    BY <2>1 DEF registeredBar, pwdBar, roleBar
  <2> QED
    BY <2>2, <2>3 DEF Contract!Init
<1>2. AInv /\ [Next]_vars => [Contract!Next]_(Contract!vars)
  <2> SUFFICES ASSUME AInv, [Next]_vars
               PROVE  [Contract!Next]_(Contract!vars)
    OBVIOUS
  <2>1. AInv'
    BY StepKeeps
  <2>2. CASE UNCHANGED vars
    <3>1. UNCHANGED users /\ UNCHANGED answerBar
      BY <2>2 DEF vars, answerBar
    <3> QED
      BY <3>1, SameTable DEF Contract!vars
  <2>3. ASSUME NEW r \in Slot, Handle(r)
        PROVE  [Contract!Next]_(Contract!vars)
    BY <2>1, <2>3, SelectRefines, InsertRefines, ProfileRefines, GrantRefines DEF Handle
  <2> QED
    BY <2>2, <2>3, ArrivalRefines, EndRefines DEF Next
<1> QED
  BY <1>1, <1>2, Invariance, PTL DEF Spec, ImplementsRegistry
=============================================================================
