--------------------------- MODULE ProductsProofs ---------------------------
(***************************************************************************)
(* Proofs about Products, for any number of users, products and requests   *)
(* served at the same time: who writes had the right to, what is stored    *)
(* was asked for, and what is deleted stays deleted.                       *)
(***************************************************************************)
EXTENDS Products, FiniteSetTheorems, TLAPS

(* The bound on ids holds back requests, never the handler of one.         *)
Creating == {r \in Req : req[r].op \in {"create", "create-ui"}
                           /\ req[r].at \in {"auth", "insert"}}

BoundOK == serial + Cardinality(Creating) <= MaxId

(* Ids that have not been handed out have no row.                          *)
FreshOK == \A i \in Id : serial < i => products[i] = None

(* What is asked for, by operation.                                        *)
AskOK(q) ==
  /\ q.at \notin {"idle", "reply"} => q.usr \in User /\ q.op # "none"
  /\ q.op \in {"create", "create-ui"} /\ q.at # "reply" =>
       q.ask.title # None /\ q.at \in {"auth", "insert"}
  /\ q.op \in {"update", "delete"} => q.id \in Id /\ q.at # "insert"
  /\ q.at = "write" => q.op = "update"
  /\ q.at = "erase" => q.op = "delete"
  /\ q.at \in {"idle", "auth", "insert", "read"} => q.seen = "nothing"

(* The user has had every role that a check looks at.                      *)
RoleOK(q) ==
  /\ q.at \notin {"idle", "reply"} => role[q.usr] \in q.held
  /\ q.at \in {"insert", "read", "write", "erase"} => q.role \in q.held
  /\ q.at = "insert" => q.role \in {"seller", "admin"}

(* A row that is about to be written has existed; if it is still there,    *)
(* the check of its owner is as good as when it was made.                  *)
ReachOK(q) ==
  q.at \in {"write", "erase"} =>
    /\ q.id <= serial
    /\ products[q.id] # None => q.role = "admin" \/ q.usr = products[q.id].seller

(* Each column that is about to be written was asked for by this request   *)
(* or by one that was accepted before; of a row nobody has written since,  *)
(* the columns that are not asked for are as they are.                     *)
PutOK(q) ==
  /\ q.at = "insert" => q.put = Filled(q.ask)
  /\ q.at = "write" =>
       /\ q.put.title # None /\ q.put.currency # None /\ q.put.price # None
       /\ IF q.ask.title # None THEN q.put.title = q.ask.title
                                ELSE q.put.title \in offered[q.id].title
       /\ IF q.ask.currency # None THEN q.put.currency = q.ask.currency
                               ELSE q.put.currency \in offered[q.id].currency
       /\ IF q.ask.price # None THEN q.put.price = q.ask.price
                                ELSE \E c \in offered[q.id].price : q.put.price = 10 * c
       /\ q.seen = "current" =>
            products[q.id] # None /\ q.put = Merged(q.ask, products[q.id])

CodeOK(q) ==
  /\ q.code # "" => q.at = "reply"
  /\ q.op = "delete" /\ q.code = "204" /\ q.seen # "nothing" =>
       q.id <= serial /\ products[q.id] = None

HandlerOK(q) == AskOK(q) /\ RoleOK(q) /\ ReachOK(q) /\ PutOK(q) /\ CodeOK(q)

PInv ==
  /\ TypeOK /\ BoundOK /\ FreshOK /\ ValuesWereOffered
  /\ \A r \in Req : HandlerOK(req[r])
-----------------------------------------------------------------------------
(* Prices and requests.                                                    *)

(* What an update writes can be written.                                   *)
LEMMA MergedColumns ==
  ASSUME NEW ask \in Columns, NEW row \in Row, NEW put, put = Merged(ask, row)
  PROVE  /\ put \in Columns
         /\ put.title # None /\ put.currency # None /\ put.price # None
         /\ put.title = IF ask.title # None THEN ask.title ELSE row.title
         /\ put.currency = IF ask.currency # None THEN ask.currency ELSE row.currency
         /\ put.price = IF ask.price # None THEN ask.price ELSE 10 * row.price
<1>1. MaxPrice \in Nat
  BY ProductsAssumption
<1>2. row.price \in Nat
  <2>1. row.price \in 0 .. MaxPrice
    BY DEF Row
  <2> QED
    BY <1>1, <2>1
<1>3. 10 * row.price \in Int
  BY <1>2
<1>4. /\ put.title = IF ask.title # None THEN ask.title ELSE row.title
      /\ put.currency = IF ask.currency # None THEN ask.currency ELSE row.currency
      /\ put.price = IF ask.price # None THEN ask.price ELSE 10 * row.price
  BY DEF Merged
<1>5. put.title \in Title \cup {""} /\ put.currency \in Currency \cup {""} /\ put.price \in Int
  BY <1>3, <1>4 DEF Columns, Row
<1>6. put = [title |-> put.title, currency |-> put.currency, price |-> put.price]
  BY DEF Merged
<1> QED
  BY <1>4, <1>5, <1>6, ProductsAssumption DEF Columns

(* So can what is created: nothing of it is left out, and what was asked   *)
(* for is not replaced.                                                    *)
LEMMA FilledColumns ==
  ASSUME NEW ask \in Columns
  PROVE  /\ Filled(ask) \in Columns /\ Filled(ask).title = ask.title
         /\ Filled(ask).currency # None /\ Filled(ask).price # None
<1>1. PICK c \in Currency : c = IF ask.currency \in {None, ""} THEN Usd ELSE ask.currency
  BY ProductsAssumption DEF Columns
<1>2. PICK p \in Int : p = IF ask.price = None THEN 0 ELSE ask.price
  <2>1. ask.price # None => ask.price \in Int
    BY DEF Columns
  <2>2. 0 \in Int
    OBVIOUS
  <2> QED
    BY <2>1, <2>2, Zenon
<1>3. PICK new : new = [title |-> ask.title, currency |-> c, price |-> p]
  OBVIOUS
<1>4. Filled(ask) = new
  BY <1>1, <1>2, <1>3 DEF Filled
<1>5. /\ new \in Columns /\ new.title = ask.title
      /\ new.currency # None /\ new.price # None
  BY <1>3, ProductsAssumption DEF Columns
<1> QED
  BY <1>4, <1>5

(* A price that is read and written back is what it was.                   *)
LEMMA CentsOfRead ==
  ASSUME NEW c \in Nat
  PROVE  10 * c \in Int /\ Cents(10 * c) = c
  BY DEF Cents

LEMMA CentsOfRow ==
  ASSUME NEW row \in Row
  PROVE  Cents(10 * row.price) = row.price
<1>1. row.price \in 0 .. MaxPrice /\ MaxPrice \in Nat
  BY ProductsAssumption DEF Row
<1>2. row.price \in Nat
  BY <1>1
<1> QED
  BY <1>2, CentsOfRead

LEMMA IdleFields ==
  /\ Idle \in Request /\ Idle.op = "none" /\ Idle.at = "idle" /\ Idle.usr = None
  /\ Idle.role = None /\ Idle.held = {} /\ Idle.id = None /\ Idle.ask = NoColumns
  /\ Idle.put = NoColumns /\ Idle.seen = "nothing" /\ Idle.code = ""
  BY DEF Idle, Request, NoColumns, Columns

LEMMA AnswerFields ==
  ASSUME NEW q \in Request,
         NEW code \in {"", "201", "200", "204", "303", "400", "403", "404", "500"}
  PROVE  /\ Answer(q, code) \in Request /\ Answer(q, code).op = q.op
         /\ Answer(q, code).at = "reply" /\ Answer(q, code).id = q.id
         /\ Answer(q, code).seen = q.seen /\ Answer(q, code).code = code
<1>1. PICK op \in {"none", "create", "create-ui", "update", "delete"}, id \in Id \cup {None},
           seen \in {"nothing", "current", "stale"} :
        op = q.op /\ id = q.id /\ seen = q.seen
  BY DEF Request
<1>2. PICK z \in Request : z = Idle
  BY IdleFields
<1>3. Answer(q, code) = [z EXCEPT !.op = op, !.at = "reply", !.id = id, !.seen = seen, !.code = code]
  BY <1>1, <1>2 DEF Answer
<1>4. PICK p : p = [z EXCEPT !.op = op, !.at = "reply", !.id = id, !.seen = seen, !.code = code]
  OBVIOUS
<1>5. p \in Request /\ p.op = op /\ p.at = "reply" /\ p.id = id /\ p.seen = seen /\ p.code = code
  BY <1>4 DEF Request
<1> QED
  BY <1>1, <1>3, <1>4, <1>5

LEMMA OneMore ==
  ASSUME NEW S, IsFiniteSet(S), NEW x, NEW T, T \subseteq S \cup {x}
  PROVE  Cardinality(T) \in Nat /\ Cardinality(T) <= Cardinality(S) + 1
<1>1. PICK m \in Nat : m = Cardinality(S)
  BY FS_CardinalityType
<1>2. IsFiniteSet(S \cup {x}) /\ Cardinality(S \cup {x}) \in {m, m + 1}
  BY <1>1, FS_AddElement
<1>3. IsFiniteSet(T) /\ Cardinality(T) <= Cardinality(S \cup {x})
  BY <1>2, FS_Subset
<1>4. Cardinality(T) \in Nat
  BY <1>3, FS_CardinalityType
<1> QED
  BY <1>1, <1>2, <1>3, <1>4

LEMMA CreatingFinite == IsFiniteSet(Creating) /\ Cardinality(Creating) \in Nat
  BY ProductsAssumption, FS_Subset, FS_CardinalityType DEF Creating

LEMMA Initially == Init => PInv
<1> SUFFICES ASSUME Init
             PROVE  PInv
  OBVIOUS
<1>1. serial = 0 /\ MaxId \in Nat
  BY ProductsAssumption DEF Init
<1>2. TypeOK
  <2>1. products \in [Id -> Row \cup {None}] /\ req \in [Req -> Request] /\ role \in [User -> Role]
    BY IdleFields DEF Init
  <2>2. offered \in [Id -> [title : SUBSET (Title \cup {""}), currency : SUBSET (Currency \cup {""}),
                           price : SUBSET (0 .. MaxPrice)]]
    BY DEF Init
  <2>3. serial \in 0 .. MaxId
    BY <1>1
  <2> QED
    BY <2>1, <2>2, <2>3, Zenon DEF TypeOK
<1>3. BoundOK
  <2>1. Creating = {}
    BY IdleFields DEF Init, Creating
  <2>2. Cardinality(Creating) = 0
    BY <2>1, FS_EmptySet
  <2> QED
    BY <1>1, <2>2 DEF BoundOK
<1>4. FreshOK /\ ValuesWereOffered
  BY DEF Init, FreshOK, ValuesWereOffered
<1>5. ASSUME NEW r \in Req
      PROVE  HandlerOK(req[r])
  BY IdleFields DEF Init, HandlerOK, AskOK, RoleOK, ReachOK, PutOK, CodeOK
<1> QED
  BY <1>2, <1>3, <1>4, <1>5 DEF PInv

LEMMA Types ==
  ASSUME PInv
  PROVE  /\ products \in [Id -> Row \cup {None}] /\ role \in [User -> Role]
         /\ serial \in Int /\ serial \in Nat /\ serial <= MaxId /\ MaxId \in Nat /\ MaxPrice \in Nat
         /\ req \in [Req -> Request] /\ Cardinality(Creating) \in Nat /\ Id \subseteq Int
         /\ offered \in [Id -> [title : SUBSET (Title \cup {""}), currency : SUBSET (Currency \cup {""}),
                                price : SUBSET (0 .. MaxPrice)]]
<1>1. TypeOK /\ MaxId \in Nat /\ MaxPrice \in Nat
  BY ProductsAssumption DEF PInv
<1>2. serial \in 0 .. MaxId
  BY <1>1, Zenon DEF TypeOK
<1>3. serial \in Int /\ serial \in Nat /\ serial <= MaxId
  BY <1>1, <1>2
<1>4. Id \subseteq Int
  BY <1>1 DEF Id
<1> QED
  BY <1>1, <1>3, <1>4, CreatingFinite, Zenon DEF TypeOK

LEMMA SerialRange ==
  ASSUME NEW n \in Nat, NEW m \in Nat, n <= m
  PROVE  n \in 0 .. m /\ n <= n
  OBVIOUS

LEMMA OfferedPrice ==
  ASSUME PInv, NEW i \in Id, NEW c \in offered[i].price
  PROVE  c \in Nat
<1>1. offered[i].price \subseteq 0 .. MaxPrice /\ MaxPrice \in Nat
  BY Types
<1> QED
  BY <1>1
-----------------------------------------------------------------------------
(* What a step of others does to a handler, at most ...                    *)
Alike(x) ==
  /\ req'[x].op = req[x].op /\ req'[x].at = req[x].at /\ req'[x].usr = req[x].usr
  /\ req'[x].role = req[x].role /\ req'[x].id = req[x].id /\ req'[x].ask = req[x].ask
  /\ req'[x].put = req[x].put /\ req'[x].code = req[x].code
  /\ req[x].held \subseteq req'[x].held
  /\ req'[x].seen = req[x].seen \/ (req[x].at = "write" /\ req'[x].seen = "stale")
  /\ req[x].at \notin {"idle", "reply"} => role'[req[x].usr] \in req'[x].held
  /\ req[x].at = "write" /\ req'[x].seen = "current" =>
       products'[req[x].id] = products[req[x].id]

(* ... and to the tables.                                                  *)
Lasts ==
  /\ serial' \in Int /\ serial <= serial'
  /\ \A i \in Id : /\ offered[i].title \subseteq offered'[i].title
                   /\ offered[i].currency \subseteq offered'[i].currency
                   /\ offered[i].price \subseteq offered'[i].price
  /\ \A i \in Id : i <= serial /\ products'[i] # None =>
                     products[i] # None /\ products'[i].seller = products[i].seller

LEMMA OthersKeep ==
  ASSUME PInv, NEW x \in Req, Alike(x), Lasts
  PROVE  HandlerOK(req[x])'
<1> USE DEF HandlerOK
<1>1. HandlerOK(req[x])
  BY DEF PInv
<1>2. serial \in Int
  BY Types
<1>3. AskOK(req[x])'
  BY <1>1 DEF AskOK, Alike
<1>4. RoleOK(req[x])'
  BY <1>1 DEF RoleOK, Alike
<1>5. req[x].id \in Id => req[x].id \in Int
  BY DEF Id
<1>6. ReachOK(req[x])'
  <2> SUFFICES ASSUME req[x].at \in {"write", "erase"}
               PROVE  /\ req[x].id <= serial'
                      /\ products'[req[x].id] # None =>
                           req[x].role = "admin" \/ req[x].usr = products'[req[x].id].seller
    BY DEF ReachOK, Alike
  <2>1. req[x].id \in Id
    BY <1>1 DEF AskOK
  <2> QED
    BY <1>1, <1>2, <1>5, <2>1 DEF ReachOK, Lasts
<1>7. PutOK(req[x])'
  <2>1. req[x].at = "insert" => req'[x].put = Filled(req'[x].ask)
    BY <1>1 DEF PutOK, Alike
  <2>2. ASSUME req[x].at = "write"
        PROVE  PutOK(req[x])'
    <3>1. req[x].id \in Id
      BY <1>1, <2>2 DEF AskOK
    <3>2. req'[x].seen = "current" => req[x].seen = "current"
      BY DEF Alike
    <3> QED
      BY <1>1, <2>2, <3>1, <3>2 DEF PutOK, Alike, Lasts, Merged
  <2>3. CASE req[x].at # "write"
    BY <2>1, <2>3 DEF PutOK, Alike
  <2> QED
    BY <2>2, <2>3
<1>8. CodeOK(req[x])'
  <2>1. req'[x].code # "" => req'[x].at = "reply"
    BY <1>1 DEF CodeOK, Alike
  <2>2. ASSUME req[x].op = "delete", req[x].code = "204", req'[x].seen # "nothing"
        PROVE  req[x].id <= serial' /\ products'[req[x].id] = None
    <3>1. req[x].id \in Id /\ req[x].seen # "nothing"
      BY <1>1, <2>2 DEF AskOK, CodeOK, Alike
    <3> QED
      BY <1>1, <1>2, <1>5, <2>2, <3>1 DEF CodeOK, Lasts
  <2> QED
    BY <2>1, <2>2 DEF CodeOK, Alike
<1> QED
  BY <1>3, <1>4, <1>6, <1>7, <1>8

(* Nobody starts to create.                                                *)
LEMMA BoundKept ==
  ASSUME PInv, serial' = serial,
         \A x \in Req : req'[x].op \in {"create", "create-ui"} /\ req'[x].at \in {"auth", "insert"} =>
                        req[x].op = req'[x].op /\ req[x].at \in {"auth", "insert"}
  PROVE  BoundOK'
<1>1. Creating' \subseteq Creating
  BY DEF Creating
<1>2. Cardinality(Creating') \in Nat /\ Cardinality(Creating') <= Cardinality(Creating)
  BY <1>1, CreatingFinite, FS_Subset, FS_CardinalityType
<1>3. serial \in Nat /\ MaxId \in Nat /\ Cardinality(Creating) \in Nat
  BY Types
<1>4. serial + Cardinality(Creating) <= MaxId
  BY DEF PInv, BoundOK
<1> QED
  BY <1>2, <1>3, <1>4 DEF BoundOK

(* One starts, and has been counted in.                                    *)
LEMMA OneMoreCreates ==
  ASSUME PInv, MayCreate, serial' = serial, NEW r \in Req, \A x \in Req \ {r} : req'[x] = req[x]
  PROVE  BoundOK'
<1>1. Creating' \subseteq Creating \cup {r}
  BY DEF Creating
<1>2. PICK a \in Nat, b \in Nat, c \in Nat, d \in Nat :
        /\ a = serial /\ b = MaxId /\ c = Cardinality(Creating) /\ d = Cardinality(Creating')
        /\ d <= c + 1
  BY <1>1, Types, CreatingFinite, OneMore
<1>3. a + c < b
  BY <1>2 DEF MayCreate, Creating
<1>4. a + d <= b
  BY <1>2, <1>3
<1> QED
  BY <1>2, <1>4 DEF BoundOK

(* A step that leaves the tables alone.                                    *)
LEMMA TablesRest ==
  ASSUME PInv, UNCHANGED <<products, serial, role, offered>>,
         req' \in [Req -> Request], BoundOK', NEW r \in Req,
         \A x \in Req \ {r} : req'[x] = req[x], HandlerOK(req[r])'
  PROVE  PInv'
<1>1. TypeOK'
  BY DEF PInv, TypeOK
<1>2. FreshOK' /\ ValuesWereOffered'
  BY DEF PInv, FreshOK, ValuesWereOffered
<1>3. Lasts
  <2>1. serial \in Nat
    BY Types
  <2> QED
    BY <2>1 DEF Lasts
<1>4. ASSUME NEW x \in Req \ {r}
      PROVE  Alike(x)
  BY <1>4 DEF PInv, HandlerOK, RoleOK, Alike
<1> QED
  BY <1>1, <1>2, <1>3, <1>4, OthersKeep DEF PInv
-----------------------------------------------------------------------------
(* Requests arrive, are answered or are given up.                          *)

LEMMA ArrivalKeeps ==
  ASSUME PInv, NEW r \in Req, NEW fields \in Request, Arrive(r, fields), BoundOK',
         fields.usr \in User, fields.op # "none", fields.code = "", fields.seen = "nothing",
         fields.op \in {"create", "create-ui"} => fields.ask.title # None,
         fields.op \in {"update", "delete"} => fields.id \in Id
  PROVE  PInv'
<1>1. req \in [Req -> Request] /\ role \in [User -> Role]
  BY Types
<1>2. PICK p : p = [fields EXCEPT !.at = "auth", !.held = {role[fields.usr]}]
  OBVIOUS
<1>3. /\ p \in Request /\ p.at = "auth" /\ p.held = {role[fields.usr]} /\ p.op = fields.op
      /\ p.usr = fields.usr /\ p.ask = fields.ask /\ p.id = fields.id
      /\ p.seen = "nothing" /\ p.code = ""
  BY <1>1, <1>2 DEF Request
<1>4. req' = [req EXCEPT ![r] = p] /\ UNCHANGED <<products, serial, role, offered>>
  BY <1>2 DEF Arrive
<1>5. req' \in [Req -> Request] /\ req'[r] = p /\ \A x \in Req \ {r} : req'[x] = req[x]
  BY <1>1, <1>3, <1>4
<1>6. HandlerOK(req[r])'
  BY <1>3, <1>4, <1>5 DEF HandlerOK, AskOK, RoleOK, ReachOK, PutOK, CodeOK
<1> QED
  BY <1>4, <1>5, <1>6, TablesRest

LEMMA StartCreateKeeps ==
  ASSUME PInv, NEW r \in Req, NEW u \in User, NEW op \in {"create", "create-ui"},
         NEW ask \in Ask, StartCreate(r, u, op, ask)
  PROVE  PInv'
<1>1. ask \in Columns
  BY ProductsAssumption
<1>2. ask.title # None
  BY DEF StartCreate
<1>3. PICK q : q = [Idle EXCEPT !.op = op, !.usr = u, !.ask = ask]
  OBVIOUS
<1>4. /\ q \in Request /\ q.op = op /\ q.usr = u /\ q.ask = ask /\ q.code = ""
      /\ q.seen = "nothing"
  BY <1>1, <1>3, IdleFields DEF Request
<1>5. Arrive(r, q) /\ MayCreate
  BY <1>1, <1>3 DEF StartCreate
<1>6. BoundOK'
  BY <1>5, OneMoreCreates, Types DEF Arrive
<1> QED
  BY <1>2, <1>4, <1>5, <1>6, ArrivalKeeps

LEMMA StartUpdateKeeps ==
  ASSUME PInv, NEW r \in Req, NEW u \in User, NEW i \in Id, NEW ask \in Ask,
         StartUpdate(r, u, i, ask)
  PROVE  PInv'
<1>1. ask \in Columns
  BY ProductsAssumption
<1>2. PICK q : q = [Idle EXCEPT !.op = "update", !.usr = u, !.id = i, !.ask = ask]
  OBVIOUS
<1>3. /\ q \in Request /\ q.op = "update" /\ q.usr = u /\ q.id = i /\ q.code = ""
      /\ q.seen = "nothing"
  BY <1>1, <1>2, IdleFields DEF Request
<1>4. Arrive(r, q)
  BY <1>1, <1>2 DEF StartUpdate
<1>5. BoundOK'
  <2>1. /\ req \in [Req -> Request] /\ serial' = serial
        /\ req' = [req EXCEPT ![r] = [q EXCEPT !.at = "auth", !.held = {role[q.usr]}]]
    BY <1>4, Types DEF Arrive
  <2>2. PICK z : z = [q EXCEPT !.at = "auth", !.held = {role[q.usr]}]
    OBVIOUS
  <2>3. z.op \notin {"create", "create-ui"}
    BY <1>3, <2>2 DEF Request
  <2> QED
    BY <2>1, <2>2, <2>3, BoundKept
<1> QED
  BY <1>3, <1>4, <1>5, ArrivalKeeps

LEMMA StartDeleteKeeps ==
  ASSUME PInv, NEW r \in Req, NEW u \in User, NEW i \in Id, StartDelete(r, u, i)
  PROVE  PInv'
<1>1. PICK q : q = [Idle EXCEPT !.op = "delete", !.usr = u, !.id = i]
  OBVIOUS
<1>2. /\ q \in Request /\ q.op = "delete" /\ q.usr = u /\ q.id = i /\ q.code = ""
      /\ q.seen = "nothing"
  BY <1>1, IdleFields DEF Request
<1>3. Arrive(r, q)
  BY <1>1 DEF StartDelete
<1>4. BoundOK'
  <2>1. /\ req \in [Req -> Request] /\ serial' = serial
        /\ req' = [req EXCEPT ![r] = [q EXCEPT !.at = "auth", !.held = {role[q.usr]}]]
    BY <1>3, Types DEF Arrive
  <2>2. PICK z : z = [q EXCEPT !.at = "auth", !.held = {role[q.usr]}]
    OBVIOUS
  <2>3. z.op \notin {"create", "create-ui"}
    BY <1>2, <2>2 DEF Request
  <2> QED
    BY <2>1, <2>2, <2>3, BoundKept
<1> QED
  BY <1>2, <1>3, <1>4, ArrivalKeeps

LEMMA FinishKeeps ==
  ASSUME PInv, NEW r \in Req, Finish(r)
  PROVE  PInv'
<1>1. /\ UNCHANGED <<products, serial, role, offered>> /\ req' \in [Req -> Request]
      /\ req'[r] = Idle /\ \A x \in Req \ {r} : req'[x] = req[x]
  BY Types, IdleFields DEF Finish
<1>2. HandlerOK(req[r])'
  BY <1>1, IdleFields DEF HandlerOK, AskOK, RoleOK, ReachOK, PutOK, CodeOK
<1>3. BoundOK'
  BY <1>1, IdleFields, BoundKept
<1> QED
  BY <1>1, <1>2, <1>3, TablesRest

(* An answer that needs no more than that the row of a deletion is gone.   *)
LEMMA AnswerKeeps ==
  ASSUME PInv, NEW r \in Req, NEW q \in Request, q.op \in {"update", "delete"} => q.id \in Id,
         NEW code \in {"200", "204", "400", "403", "404", "500"},
         code = "204" => q.seen = "nothing",
         req' = [req EXCEPT ![r] = Answer(q, code)],
         UNCHANGED <<products, serial, role, offered>>
  PROVE  PInv'
<1>1. /\ Answer(q, code) \in Request /\ Answer(q, code).op = q.op
      /\ Answer(q, code).at = "reply" /\ Answer(q, code).id = q.id
      /\ Answer(q, code).seen = q.seen /\ Answer(q, code).code = code
  <2>1. code \in {"", "201", "200", "204", "303", "400", "403", "404", "500"}
    OBVIOUS
  <2> QED
    BY <2>1, AnswerFields
<1>2. /\ req' \in [Req -> Request] /\ req'[r] = Answer(q, code)
      /\ \A x \in Req \ {r} : req'[x] = req[x]
  BY <1>1, Types
<1>3. HandlerOK(req[r])'
  BY <1>1, <1>2 DEF HandlerOK, AskOK, RoleOK, ReachOK, PutOK, CodeOK
<1>4. BoundOK'
  BY <1>1, <1>2, BoundKept
<1> QED
  BY <1>2, <1>3, <1>4, TablesRest
-----------------------------------------------------------------------------
(* The checks.                                                             *)

LEMMA AuthenticateKeeps ==
  ASSUME PInv, NEW r \in Req, Authenticate(r)
  PROVE  PInv'
<1>1. /\ req \in [Req -> Request] /\ req[r] \in Request /\ role \in [User -> Role]
      /\ HandlerOK(req[r]) /\ req[r].at = "auth"
  BY Types DEF PInv, Authenticate
<1>2. req[r].usr \in User /\ role[req[r].usr] \in Role /\ role[req[r].usr] \in req[r].held
  BY <1>1 DEF HandlerOK, AskOK, RoleOK
<1> DEFINE q == [req[r] EXCEPT !.role = role[req[r].usr]]
<1>4. /\ q \in Request /\ q.role \in q.held /\ q.op = req[r].op /\ q.at = "auth"
      /\ q.usr = req[r].usr /\ q.held = req[r].held /\ q.id = req[r].id /\ q.ask = req[r].ask
      /\ q.put = req[r].put /\ q.seen = req[r].seen /\ q.code = req[r].code
  BY <1>1, <1>2 DEF Request
<1>5. /\ UNCHANGED <<products, serial, role, offered>>
      /\ req' = [req EXCEPT ![r] =
           IF q.op \in {"update", "delete"} THEN [q EXCEPT !.at = "read"]
           ELSE IF ~SellerOrAdmin(q) THEN Answer(q, "403")
           ELSE IF q.ask.title = "" THEN Answer(q, "400")
           ELSE [q EXCEPT !.at = "insert", !.put = Filled(q.ask)]]
  BY DEF Authenticate
<1> HIDE DEF q
<1>6. q.op \in {"update", "delete"} => q.id \in Id
  BY <1>1, <1>4 DEF HandlerOK, AskOK
<1>7. ASSUME NEW code \in {"403", "400"}, req' = [req EXCEPT ![r] = Answer(q, code)]
      PROVE  PInv'
  <2>1. code \in {"200", "204", "400", "403", "404", "500"} /\ code # "204"
    BY <1>7
  <2>2. q \in Request /\ UNCHANGED <<products, serial, role, offered>>
    BY <1>4, <1>5
  <2> QED
    BY <1>6, <1>7, <2>1, <2>2, AnswerKeeps
<1>8. ASSUME NEW p \in Request, req' = [req EXCEPT ![r] = p], HandlerOK(p),
             p.op = req[r].op, p.at \in {"insert", "read"}
      PROVE  PInv'
  <2>1. /\ req' \in [Req -> Request] /\ req'[r] = p /\ \A x \in Req \ {r} : req'[x] = req[x]
    BY <1>1, <1>8
  <2>2. HandlerOK(req[r])'
    BY <1>5, <1>8, <2>1 DEF HandlerOK, AskOK, RoleOK, ReachOK, PutOK, CodeOK, Merged
  <2>3. BoundOK'
    BY <1>1, <1>5, <1>8, <2>1, BoundKept
  <2> QED
    BY <1>5, <2>1, <2>2, <2>3, TablesRest
<1>9. CASE q.op \in {"update", "delete"}
  <2>1. PICK p : p = [q EXCEPT !.at = "read"]
    OBVIOUS
  <2>2. /\ p \in Request /\ p.op = q.op /\ p.at = "read" /\ p.usr = q.usr /\ p.held = q.held
        /\ p.role = q.role /\ p.id = q.id /\ p.ask = q.ask /\ p.seen = q.seen /\ p.code = q.code
    BY <1>4, <2>1 DEF Request
  <2>3. HandlerOK(p)
    BY <1>1, <1>4, <1>9, <2>2 DEF HandlerOK, AskOK, RoleOK, ReachOK, PutOK, CodeOK
  <2> QED
    BY <1>4, <1>5, <1>8, <1>9, <2>1, <2>2, <2>3
<1>10. CASE q.op \notin {"update", "delete"} /\ SellerOrAdmin(q) /\ q.ask.title # ""
  <2>0. PICK put \in Columns : put = Filled(q.ask)
    <3>1. q.ask \in Columns
      BY <1>4 DEF Request
    <3> QED
      BY <3>1, FilledColumns
  <2>1. PICK p : p = [q EXCEPT !.at = "insert", !.put = put]
    OBVIOUS
  <2>2. /\ p \in Request /\ p.op = q.op /\ p.at = "insert" /\ p.usr = q.usr /\ p.held = q.held
        /\ p.role = q.role /\ p.id = q.id /\ p.ask = q.ask /\ p.put = put
        /\ p.seen = q.seen /\ p.code = q.code
    BY <1>4, <2>1 DEF Request
  <2>3. p.role \in {"seller", "admin"}
    BY <1>10, <2>2 DEF SellerOrAdmin
  <2>4. HandlerOK(p)
    BY <1>1, <1>4, <1>10, <2>0, <2>2, <2>3 DEF HandlerOK, AskOK, RoleOK, ReachOK, PutOK, CodeOK
  <2> QED
    BY <1>4, <1>5, <1>8, <1>10, <2>0, <2>1, <2>2, <2>4
<1> QED
  BY <1>5, <1>7, <1>9, <1>10

LEMMA ReadProductKeeps ==
  ASSUME PInv, NEW r \in Req, ReadProduct(r)
  PROVE  PInv'
<1>1. /\ req \in [Req -> Request] /\ req[r] \in Request /\ HandlerOK(req[r])
      /\ req[r].at = "read" /\ req[r].seen = "nothing" /\ req[r].op \in {"update", "delete"}
      /\ req[r].id \in Id /\ req[r].code = ""
  <2>1. req[r] \in Request /\ HandlerOK(req[r]) /\ req[r].at = "read"
    BY Types DEF PInv, ReadProduct
  <2> QED
    BY <2>1, Types DEF HandlerOK, AskOK, CodeOK, Request
<1>2. PICK row : row = products[req[r].id]
  OBVIOUS
<1>3. UNCHANGED <<products, serial, role, offered>>
  BY DEF ReadProduct
<1>4. CASE row = None
  <2>1. PICK q : q = [req[r] EXCEPT !.seen = req[r].seen]
    OBVIOUS
  <2>2. q = req[r]
    BY <1>1, <2>1 DEF Request
  <2>3. req' = [req EXCEPT ![r] = Answer(q, IF q.op = "update" THEN "404" ELSE "204")]
    BY <1>2, <1>4, <2>1 DEF ReadProduct
  <2> QED
    BY <1>1, <1>3, <2>2, <2>3, AnswerKeeps
<1>5. CASE row # None
  <2>1. PICK q : q = [req[r] EXCEPT !.seen = "current"]
    OBVIOUS
  <2>2. /\ q \in Request /\ q.op = req[r].op /\ q.at = "read" /\ q.usr = req[r].usr
        /\ q.role = req[r].role /\ q.held = req[r].held /\ q.id = req[r].id
        /\ q.ask = req[r].ask /\ q.seen = "current" /\ q.code = ""
    BY <1>1, <2>1 DEF Request
  <2>3. req' = [req EXCEPT ![r] =
                 IF ~OwnerOrAdmin(q, row) THEN Answer(q, "403")
                 ELSE IF q.op = "delete" THEN [q EXCEPT !.at = "erase"]
                 ELSE [q EXCEPT !.at = "write", !.put = Merged(q.ask, row)]]
    BY <1>2, <1>5, <2>1 DEF ReadProduct
  <2>4. CASE ~OwnerOrAdmin(q, row)
    BY <1>1, <1>3, <2>2, <2>3, <2>4, AnswerKeeps
  <2>5. /\ row \in Row /\ req[r].id <= serial
        /\ row.title \in offered[req[r].id].title /\ row.currency \in offered[req[r].id].currency
        /\ row.price \in offered[req[r].id].price
    <3>1. req[r].id \in Int /\ serial \in Int
      BY <1>1, Types
    <3>2. ~(serial < req[r].id)
      BY <1>1, <1>2, <1>5 DEF PInv, FreshOK
    <3>3. row \in Row
      BY <1>1, <1>2, <1>5, Types
    <3>4. req[r].id <= serial
      BY <3>1, <3>2
    <3> QED
      BY <1>1, <1>2, <1>5, <3>3, <3>4 DEF PInv, ValuesWereOffered
  <2>6. ASSUME NEW p \in Request, req' = [req EXCEPT ![r] = p], p.at \in {"write", "erase"},
               HandlerOK(p)
        PROVE  PInv'
    <3>1. /\ req' \in [Req -> Request] /\ req'[r] = p /\ \A x \in Req \ {r} : req'[x] = req[x]
      BY <1>1, <2>6
    <3>2. HandlerOK(req[r])'
      BY <1>3, <2>6, <3>1 DEF HandlerOK, AskOK, RoleOK, ReachOK, PutOK, CodeOK, Merged
    <3>3. BoundOK'
      BY <1>3, <2>6, <3>1, BoundKept
    <3> QED
      BY <1>3, <3>1, <3>2, <3>3, TablesRest
  <2>7. CASE OwnerOrAdmin(q, row) /\ q.op = "delete"
    <3>1. PICK p : p = [q EXCEPT !.at = "erase"]
      OBVIOUS
    <3>2. /\ p \in Request /\ p.op = q.op /\ p.at = "erase" /\ p.usr = q.usr /\ p.held = q.held
          /\ p.role = q.role /\ p.id = q.id /\ p.ask = q.ask /\ p.seen = q.seen /\ p.code = q.code
      BY <2>2, <3>1 DEF Request
    <3>3. HandlerOK(p)
      BY <1>1, <1>2, <2>2, <2>5, <2>7, <3>2
         DEF HandlerOK, AskOK, RoleOK, ReachOK, PutOK, CodeOK, OwnerOrAdmin
    <3> QED
      BY <2>3, <2>6, <2>7, <3>1, <3>2, <3>3
  <2>8. CASE OwnerOrAdmin(q, row) /\ q.op # "delete"
    <3>1. PICK put : put = Merged(q.ask, row)
      OBVIOUS
    <3>2. /\ put \in Columns
          /\ put.title # None /\ put.currency # None /\ put.price # None
          /\ put.title = IF q.ask.title # None THEN q.ask.title ELSE row.title
          /\ put.currency = IF q.ask.currency # None THEN q.ask.currency ELSE row.currency
          /\ put.price = IF q.ask.price # None THEN q.ask.price ELSE 10 * row.price
      <4>1. q.ask \in Columns
        BY <2>2 DEF Request
      <4> QED
        BY <2>5, <3>1, <4>1, MergedColumns
    <3>3. PICK p : p = [q EXCEPT !.at = "write", !.put = put]
      OBVIOUS
    <3>4. /\ p \in Request /\ p.op = q.op /\ p.at = "write" /\ p.usr = q.usr /\ p.held = q.held
          /\ p.role = q.role /\ p.id = q.id /\ p.ask = q.ask /\ p.put = put
          /\ p.seen = q.seen /\ p.code = q.code
      BY <2>2, <3>2, <3>3 DEF Request
    <3>5. PutOK(p)
      BY <1>1, <1>2, <1>5, <2>2, <2>5, <3>1, <3>2, <3>4 DEF PutOK
    <3>6. AskOK(p) /\ RoleOK(p) /\ ReachOK(p) /\ CodeOK(p)
      BY <1>1, <1>2, <2>2, <2>5, <2>8, <3>4
         DEF HandlerOK, AskOK, RoleOK, ReachOK, CodeOK, OwnerOrAdmin
    <3> QED
      BY <2>3, <2>6, <2>8, <3>1, <3>3, <3>4, <3>5, <3>6 DEF HandlerOK
  <2> QED
    BY <2>4, <2>7, <2>8
<1> QED
  BY <1>4, <1>5
-----------------------------------------------------------------------------
(* The writes.                                                             *)

(* Whoever is about to insert was counted in, so there is an id left.      *)
LEMMA OneIsCreated ==
  ASSUME PInv, NEW r \in Creating, serial' = serial + 1,
         \A x \in Req \ {r} : req'[x] = req[x], req'[r].at = "reply"
  PROVE  BoundOK' /\ serial + 1 \in Id
<1>1. Creating' \subseteq Creating \ {r}
  BY DEF Creating
<1>2. PICK a \in Nat, b \in Nat, c \in Nat :
        a = serial /\ b = MaxId /\ c = Cardinality(Creating)
  BY Types
<1>3. IsFiniteSet(Creating \ {r}) /\ Cardinality(Creating \ {r}) = c - 1
  BY <1>2, CreatingFinite, FS_RemoveElement
<1>4. IsFiniteSet(Creating') /\ Cardinality(Creating') <= c - 1
  BY <1>1, <1>3, FS_Subset
<1>5. PICK d \in Nat : d = Cardinality(Creating')
  BY <1>4, FS_CardinalityType
<1>6. a + c <= b /\ d <= c - 1
  BY <1>2, <1>4, <1>5 DEF PInv, BoundOK
<1>7. (a + 1) + d <= b
  BY <1>2, <1>5, <1>6
<1>8. BoundOK'
  BY <1>2, <1>5, <1>7 DEF BoundOK
<1>9. a + 1 \in 1 .. b
  BY <1>2, <1>5, <1>7
<1> QED
  BY <1>2, <1>8, <1>9 DEF Id

(* What is accepted is remembered.                                         *)
LEMMA OfferGrows ==
  ASSUME PInv, NEW i \in Id, NEW ask \in Columns, offered' = Offer(i, ask),
         ask.price # None => Storable(ask.price)
  PROVE  /\ offered' \in [Id -> [title : SUBSET (Title \cup {""}), currency : SUBSET (Currency \cup {""}),
                                 price : SUBSET (0 .. MaxPrice)]]
         /\ \A j \in Id : /\ offered[j].title \subseteq offered'[j].title
                          /\ offered[j].currency \subseteq offered'[j].currency
                          /\ offered[j].price \subseteq offered'[j].price
         /\ ask.title # None => ask.title \in offered'[i].title
         /\ ask.currency # None => ask.currency \in offered'[i].currency
         /\ ask.price # None => Cents(ask.price) \in offered'[i].price
<1>1. offered \in [Id -> [title : SUBSET (Title \cup {""}), currency : SUBSET (Currency \cup {""}),
                         price : SUBSET (0 .. MaxPrice)]]
  BY Types
<1>2. PICK old \in [title : SUBSET (Title \cup {""}), currency : SUBSET (Currency \cup {""}),
                    price : SUBSET (0 .. MaxPrice)] : old = offered[i]
  BY <1>1
<1>3. PICK t \in SUBSET (Title \cup {""}) : t = old.title \cup ({ask.title} \ {None})
  BY DEF Columns
<1>4. PICK x \in SUBSET (Currency \cup {""}) : x = old.currency \cup ({ask.currency} \ {None})
  BY DEF Columns
<1>5. PICK c \in SUBSET (0 .. MaxPrice) :
        c = old.price \cup {Cents(p) : p \in {ask.price} \ {None}}
  BY DEF Storable
<1>6. PICK new : new = [title |-> t, currency |-> x, price |-> c]
  OBVIOUS
<1>7. offered' = [offered EXCEPT ![i] = new]
  BY <1>2, <1>3, <1>4, <1>5, <1>6 DEF Offer
<1>8. offered'[i] = new /\ \A j \in Id \ {i} : offered'[j] = offered[j]
  BY <1>1, <1>7
<1>9. offered' \in [Id -> [title : SUBSET (Title \cup {""}), currency : SUBSET (Currency \cup {""}),
                          price : SUBSET (0 .. MaxPrice)]]
  <2>1. new \in [title : SUBSET (Title \cup {""}), currency : SUBSET (Currency \cup {""}),
                price : SUBSET (0 .. MaxPrice)]
    BY <1>6
  <2> QED
    BY <1>1, <1>7, <2>1, Zenon
<1>10. /\ old.title \subseteq new.title /\ old.currency \subseteq new.currency
       /\ old.price \subseteq new.price
       /\ ask.title # None => ask.title \in new.title
       /\ ask.currency # None => ask.currency \in new.currency
       /\ ask.price # None => Cents(ask.price) \in new.price
  BY <1>3, <1>4, <1>5, <1>6
<1> QED
  BY <1>2, <1>8, <1>9, <1>10

LEMMA Above ==
  ASSUME NEW a \in Int, NEW b \in Int, NEW c \in Int, NEW d \in Int, a <= b, c <= b, b < d
  PROVE  d # c /\ a < d
  OBVIOUS

LEMMA UpTo ==
  ASSUME NEW m \in Nat, NEW n \in 0 .. m
  PROVE  n \in Int
  OBVIOUS

(* Product i gets a row, or loses it, by the hand of r.                    *)
LEMMA WriteKeeps ==
  ASSUME PInv, NEW r \in Req, NEW i \in Id, NEW row \in Row \cup {None},
         products' = [products EXCEPT ![i] = row],
         serial' \in 0 .. MaxId, serial <= serial', i <= serial', role' = role,
         offered' \in [Id -> [title : SUBSET (Title \cup {""}), currency : SUBSET (Currency \cup {""}),
                             price : SUBSET (0 .. MaxPrice)]],
         \A j \in Id : /\ offered[j].title \subseteq offered'[j].title
                      /\ offered[j].currency \subseteq offered'[j].currency
                      /\ offered[j].price \subseteq offered'[j].price,
         row # None => /\ row.title \in offered'[i].title
                       /\ row.currency \in offered'[i].currency
                       /\ row.price \in offered'[i].price
                       /\ i <= serial => products[i] # None /\ row.seller = products[i].seller,
         BoundOK', req' \in [Req -> Request], HandlerOK(req[r])',
         \A x \in Req \ {r} : Alike(x)
  PROVE  PInv'
<1>1. /\ products \in [Id -> Row \cup {None}] /\ serial \in Int /\ Id \subseteq Int /\ MaxId \in Nat
      /\ role \in [User -> Role]
  BY Types
<1>2. products'[i] = row /\ \A j \in Id \ {i} : products'[j] = products[j]
  BY <1>1
<1>3. serial' \in Int
  BY <1>1, UpTo
<1>4. products' \in [Id -> Row \cup {None}]
  BY <1>1
<1>5. TypeOK'
  BY <1>1, <1>4, Zenon DEF TypeOK
<1>6. FreshOK'
  <2> SUFFICES ASSUME NEW j \in Id, serial' < j
               PROVE  products'[j] = None
    BY DEF FreshOK
  <2>1. i \in Int /\ j \in Int
    BY <1>1
  <2>2. j # i /\ serial < j
    BY <1>1, <1>3, <2>1, Above
  <2> QED
    BY <1>2, <2>2 DEF PInv, FreshOK
<1>7. ValuesWereOffered'
  <2> SUFFICES ASSUME NEW j \in Id, products'[j] # None
               PROVE  /\ products'[j].title \in offered'[j].title
                      /\ products'[j].currency \in offered'[j].currency
                      /\ products'[j].price \in offered'[j].price
    BY DEF ValuesWereOffered
  <2>1. CASE j = i
    BY <1>2, <2>1
  <2>2. CASE j # i
    BY <1>2, <2>2 DEF PInv, ValuesWereOffered
  <2> QED
    BY <2>1, <2>2
<1>8. Lasts
  BY <1>2, <1>3 DEF Lasts
<1>9. \A x \in Req : HandlerOK(req[x])'
  BY <1>8, OthersKeep
<1> QED
  BY <1>5, <1>6, <1>7, <1>9 DEF PInv

(* The answer of r, and what the other handlers read of i is stale.        *)
LEMMA Overtaken ==
  ASSUME PInv, NEW r \in Req, NEW i \in Id, NEW code \in {"200", "204"},
         req' = AnswerAndOvertake(r, i, code), serial' = serial, role' = role,
         \A j \in Id \ {i} : products'[j] = products[j]
  PROVE  /\ req' \in [Req -> Request] /\ BoundOK' /\ \A x \in Req \ {r} : Alike(x)
         /\ req'[r].op = req[r].op /\ req'[r].at = "reply" /\ req'[r].id = req[r].id
         /\ req'[r].seen = req[r].seen /\ req'[r].code = code
<1>1. req \in [Req -> Request] /\ req[r] \in Request
  BY Types
<1>2. /\ Answer(req[r], code) \in Request /\ Answer(req[r], code).op = req[r].op
      /\ Answer(req[r], code).at = "reply" /\ Answer(req[r], code).id = req[r].id
      /\ Answer(req[r], code).seen = req[r].seen /\ Answer(req[r], code).code = code
  <2>1. code \in {"", "201", "200", "204", "303", "400", "403", "404", "500"}
    OBVIOUS
  <2> QED
    BY <1>1, <2>1, AnswerFields
<1>3. req'[r] = Answer(req[r], code)
  BY DEF AnswerAndOvertake
<1>4. ASSUME NEW x \in Req \ {r}
      PROVE  req'[x] \in Request /\ Alike(x)
  <2>1. req[x] \in Request /\ HandlerOK(req[x])
    BY <1>1 DEF PInv
  <2>2. CASE req[x].at = "write" /\ req[x].id = i
    <3>1. PICK p : p = [req[x] EXCEPT !.seen = "stale"]
      OBVIOUS
    <3>2. req'[x] = p
      BY <2>2, <3>1 DEF AnswerAndOvertake
    <3>3. /\ p \in Request /\ p.op = req[x].op /\ p.at = req[x].at /\ p.usr = req[x].usr
          /\ p.role = req[x].role /\ p.held = req[x].held /\ p.id = req[x].id
          /\ p.ask = req[x].ask /\ p.put = req[x].put /\ p.code = req[x].code /\ p.seen = "stale"
      BY <2>1, <3>1 DEF Request
    <3> QED
      BY <2>1, <2>2, <3>2, <3>3 DEF Alike, HandlerOK, RoleOK
  <2>3. CASE ~(req[x].at = "write" /\ req[x].id = i)
    <3>1. req'[x] = req[x]
      BY <1>4, <2>3 DEF AnswerAndOvertake
    <3> QED
      BY <2>1, <2>3, <3>1 DEF Alike, HandlerOK, RoleOK, AskOK
  <2> QED
    BY <2>2, <2>3
<1>5. req' \in [Req -> Request]
  <2>1. \A x \in Req : req'[x] \in Request
    BY <1>2, <1>3, <1>4
  <2> QED
    BY <2>1 DEF AnswerAndOvertake
<1>6. BoundOK'
  BY <1>2, <1>3, <1>4, BoundKept DEF Alike
<1> QED
  BY <1>2, <1>3, <1>4, <1>5, <1>6

(* Rows that are written have the type of rows.                            *)
LEMMA NewRowFields ==
  ASSUME NEW q \in Request, q.usr \in User,
         q.put.title # None, q.put.currency # None, q.put.price # None, Storable(q.put.price)
  PROVE  /\ NewRow(q) \in Row /\ NewRow(q).seller = q.usr /\ NewRow(q).title = q.put.title
         /\ NewRow(q).currency = q.put.currency /\ NewRow(q).price = Cents(q.put.price)
  BY DEF NewRow, Row, Storable, Request, Columns

LEMMA RewrittenFields ==
  ASSUME NEW row \in Row, NEW put \in Columns,
         put.title # None, put.currency # None, put.price # None, Storable(put.price), NEW new, new = Rewritten(row, put)
  PROVE  /\ new \in Row /\ new.seller = row.seller /\ new.title = put.title
         /\ new.currency = put.currency /\ new.price = Cents(put.price)
  BY DEF Rewritten, Row, Storable, Columns

LEMMA InsertProductKeeps ==
  ASSUME PInv, NEW r \in Req, InsertProduct(r)
  PROVE  PInv'
<1>1. PICK q \in Request : q = req[r]
  BY Types
<1>2. /\ HandlerOK(q) /\ q.at = "insert" /\ q.op \in {"create", "create-ui"} /\ q.usr \in User
      /\ q.put = Filled(q.ask) /\ q.put \in Columns
      /\ q.put.title # None /\ q.put.currency # None /\ q.put.price # None
  <2>1. HandlerOK(q) /\ q.at = "insert"
    BY <1>1 DEF PInv, InsertProduct
  <2>2. q.op # "none" /\ q.op \notin {"update", "delete"}
    BY <2>1 DEF HandlerOK, AskOK
  <2>3. q.op \in {"create", "create-ui"}
    BY <2>2 DEF Request
  <2>4. q.put = Filled(q.ask) /\ q.ask \in Columns /\ q.ask.title # None /\ q.usr \in User
    BY <2>1, <2>3 DEF HandlerOK, AskOK, PutOK, Request
  <2> QED
    BY <2>1, <2>3, <2>4, FilledColumns
<1>3. r \in Creating /\ serial' = serial + 1 /\ role' = role
  BY <1>1, <1>2 DEF Creating, InsertProduct
<1>4. /\ req \in [Req -> Request] /\ serial \in Int /\ Id \subseteq Int /\ MaxId \in Nat
      /\ products \in [Id -> Row \cup {None}]
  BY Types
<1>5. PICK i : i = serial + 1
  OBVIOUS
<1>6. PICK code \in {"201", "303", "400", "500"}, id \in {i, q.id} :
        req' = [req EXCEPT ![r] = Answer([q EXCEPT !.id = id], code)]
  <2>1. CASE Storable(q.put.price)
    BY <1>1, <1>5, <2>1 DEF InsertProduct
  <2>2. CASE ~Storable(q.put.price)
    <3>1. [q EXCEPT !.id = q.id] = q
      BY DEF Request
    <3> QED
      BY <1>1, <2>2, <3>1 DEF InsertProduct, Failure
  <2> QED
    BY <2>1, <2>2
<1>7. PICK p : p = Answer([q EXCEPT !.id = id], code)
  OBVIOUS
<1>8. req'[r] = p /\ p.at = "reply" /\ \A x \in Req \ {r} : req'[x] = req[x]
  BY <1>4, <1>6, <1>7, IdleFields DEF Answer, Request
<1>9. BoundOK' /\ i \in Id
  BY <1>3, <1>5, <1>8, OneIsCreated
<1>10. /\ p \in Request /\ p.op = q.op /\ p.at = "reply" /\ p.code = code
  <2>1. PICK z : z = [q EXCEPT !.id = id]
    OBVIOUS
  <2>2. z \in Request /\ z.op = q.op
    BY <1>6, <1>9, <2>1 DEF Request
  <2>3. code \in {"", "201", "200", "204", "303", "400", "403", "404", "500"}
    BY <1>6
  <2>4. p = Answer(z, code)
    BY <1>7, <2>1
  <2> QED
    BY <2>2, <2>3, <2>4, AnswerFields
<1>11. req' \in [Req -> Request] /\ HandlerOK(req[r])'
  <2>1. req' \in [Req -> Request]
    BY <1>4, <1>6, <1>7, <1>10
  <2> QED
    BY <1>2, <1>6, <1>8, <1>10, <2>1 DEF HandlerOK, AskOK, RoleOK, ReachOK, PutOK, CodeOK
<1>12. /\ serial' \in 0 .. MaxId /\ serial <= serial' /\ i <= serial' /\ ~(i <= serial)
       /\ products[i] = None
  <2>1. serial \in Nat /\ MaxId \in Nat
    BY Types
  <2>2. serial + 1 \in 1 .. MaxId
    BY <1>5, <1>9 DEF Id
  <2>3. /\ serial + 1 \in 0 .. MaxId /\ serial <= serial + 1 /\ ~(serial + 1 <= serial)
        /\ serial < serial + 1 /\ serial + 1 <= serial + 1
    BY <2>1, <2>2
  <2>4. products[i] = None
    BY <1>5, <1>9, <2>3 DEF PInv, FreshOK
  <2> QED
    BY <1>3, <1>5, <2>3, <2>4
<1>13. \A x \in Req \ {r} : products' [req[x].id] = products[req[x].id] => Alike(x)
  <2> SUFFICES ASSUME NEW x \in Req \ {r}, products' [req[x].id] = products[req[x].id]
               PROVE  Alike(x)
    OBVIOUS
  <2>1. RoleOK(req[x]) /\ req'[x] = req[x]
    BY <1>8 DEF PInv, HandlerOK
  <2> QED
    BY <1>3, <2>1 DEF Alike, RoleOK
<1>14. CASE Storable(q.put.price)
  <2>1. PICK row : row = NewRow(q)
    OBVIOUS
  <2>2. products' = [products EXCEPT ![i] = row] /\ offered' = Offer(i, q.put)
    BY <1>1, <1>2, <1>5, <1>14, <2>1 DEF InsertProduct
  <2>3. /\ row \in Row /\ row.title = q.put.title /\ row.currency = q.put.currency
        /\ row.price = Cents(q.put.price)
    BY <1>2, <1>14, <2>1, NewRowFields
  <2>4. \A x \in Req \ {r} : Alike(x)
    <3> SUFFICES ASSUME NEW x \in Req \ {r}
                 PROVE  Alike(x)
      OBVIOUS
    <3>1. CASE req[x].at = "write" /\ req[x].seen = "current"
      <4>1. products[req[x].id] # None
        BY <3>1 DEF PInv, HandlerOK, PutOK
      <4> QED
        BY <1>4, <1>12, <1>13, <2>2, <4>1
    <3>2. CASE ~(req[x].at = "write" /\ req[x].seen = "current")
      <4>1. RoleOK(req[x]) /\ req'[x] = req[x]
        BY <1>8 DEF PInv, HandlerOK
      <4> QED
        BY <1>3, <3>2, <4>1 DEF Alike, RoleOK
    <3> QED
      BY <3>1, <3>2
  <2>5. /\ offered' \in [Id -> [title : SUBSET (Title \cup {""}), currency : SUBSET (Currency \cup {""}),
                                price : SUBSET (0 .. MaxPrice)]]
        /\ \A j \in Id : /\ offered[j].title \subseteq offered'[j].title
                         /\ offered[j].currency \subseteq offered'[j].currency
                         /\ offered[j].price \subseteq offered'[j].price
        /\ row.title \in offered'[i].title /\ row.currency \in offered'[i].currency
        /\ row.price \in offered'[i].price
    BY <1>2, <1>9, <1>14, <2>2, <2>3, OfferGrows
  <2> QED
    BY <1>3, <1>9, <1>11, <1>12, <2>2, <2>3, <2>4, <2>5, WriteKeeps
<1>15. CASE ~Storable(q.put.price)
  <2>1. UNCHANGED <<products, offered>>
    BY <1>1, <1>15 DEF InsertProduct
  <2>2. products' = [products EXCEPT ![i] = None]
    BY <1>4, <1>9, <1>12, <2>1
  <2>3. /\ offered' \in [Id -> [title : SUBSET (Title \cup {""}), currency : SUBSET (Currency \cup {""}),
                                price : SUBSET (0 .. MaxPrice)]]
        /\ \A j \in Id : /\ offered[j].title \subseteq offered'[j].title
                         /\ offered[j].currency \subseteq offered'[j].currency
                         /\ offered[j].price \subseteq offered'[j].price
    BY <2>1, Types
  <2> QED
    BY <1>3, <1>9, <1>11, <1>12, <1>13, <2>1, <2>2, <2>3, WriteKeeps
<1> QED
  BY <1>14, <1>15

LEMMA UpdateProductKeeps ==
  ASSUME PInv, NEW r \in Req, UpdateProduct(r)
  PROVE  PInv'
<1>1. PICK q \in Request : q = req[r]
  BY Types
<1>2. /\ HandlerOK(q) /\ q.at = "write" /\ q.op = "update" /\ q.id \in Id /\ q.id <= serial
      /\ q.put.title # None /\ q.put.currency # None /\ q.put.price # None
      /\ role' = role /\ serial' = serial
  <2>1. HandlerOK(q) /\ q.at = "write" /\ role' = role /\ serial' = serial
    BY <1>1 DEF PInv, UpdateProduct
  <2> QED
    BY <2>1 DEF HandlerOK, AskOK, ReachOK, PutOK
<1>3. PICK i \in Id : i = q.id
  BY <1>2
<1>4. CASE products[i] # None /\ Storable(q.put.price)
  <2>1. PICK row \in Row : row = products[i]
    BY <1>4, Types
  <2>2. PICK new : new = Rewritten(row, q.put)
    OBVIOUS
  <2>3. /\ products' = [products EXCEPT ![i] = new] /\ offered' = Offer(i, q.ask)
        /\ req' = AnswerAndOvertake(r, i, "200")
    BY <1>1, <1>3, <1>4, <2>1, <2>2 DEF UpdateProduct
  <2>4. /\ new \in Row /\ new.seller = row.seller /\ new.title = q.put.title
        /\ new.currency = q.put.currency /\ new.price = Cents(q.put.price)
    <3>1. q.put \in Columns
      BY DEF Request
    <3> QED
      BY <1>2, <1>4, <2>2, <3>1, RewrittenFields
  <2>5. /\ req' \in [Req -> Request] /\ BoundOK' /\ \A x \in Req \ {r} : Alike(x)
        /\ req'[r].op = q.op /\ req'[r].at = "reply" /\ req'[r].id = q.id
        /\ req'[r].seen = q.seen /\ req'[r].code = "200"
    <3>1. \A j \in Id \ {i} : products'[j] = products[j]
      BY <2>3, Types
    <3> QED
      BY <1>1, <1>2, <2>3, <3>1, Overtaken
  <2>6. HandlerOK(req[r])'
    BY <1>2, <2>5 DEF HandlerOK, AskOK, RoleOK, ReachOK, PutOK, CodeOK
  <2>7. /\ offered' \in [Id -> [title : SUBSET (Title \cup {""}), currency : SUBSET (Currency \cup {""}),
                                price : SUBSET (0 .. MaxPrice)]]
        /\ \A j \in Id : /\ offered[j].title \subseteq offered'[j].title
                         /\ offered[j].currency \subseteq offered'[j].currency
                         /\ offered[j].price \subseteq offered'[j].price
        /\ q.ask.title # None => q.ask.title \in offered'[i].title
        /\ q.ask.currency # None => q.ask.currency \in offered'[i].currency
        /\ q.ask.price # None => Cents(q.ask.price) \in offered'[i].price
    <3>1. q.ask \in Columns /\ (q.ask.price # None => Storable(q.ask.price))
      BY <1>2, <1>4 DEF HandlerOK, PutOK, Request
    <3> QED
      BY <2>3, <3>1, OfferGrows
  <2>8. /\ new.title \in offered'[i].title /\ new.currency \in offered'[i].currency
        /\ new.price \in offered'[i].price
    <3>1. PutOK(q)
      BY <1>2 DEF HandlerOK
    <3>2. new.title \in offered'[i].title
      BY <1>2, <1>3, <2>4, <2>7, <3>1 DEF PutOK
    <3>3. new.currency \in offered'[i].currency
      BY <1>2, <1>3, <2>4, <2>7, <3>1 DEF PutOK
    <3>4. new.price \in offered'[i].price
      <4>1. CASE q.ask.price # None
        <5>1. q.put.price = q.ask.price
          BY <1>2, <3>1, <4>1 DEF PutOK
        <5> QED
          BY <2>4, <2>7, <4>1, <5>1
      <4>2. CASE q.ask.price = None
        <5>1. PICK c \in offered[i].price : q.put.price = 10 * c
          BY <1>2, <1>3, <3>1, <4>2 DEF PutOK
        <5>2. c \in Nat
          BY <5>1, OfferedPrice
        <5>3. new.price = c
          BY <2>4, <5>1, <5>2, CentsOfRead
        <5> QED
          BY <2>7, <5>1, <5>3
      <4> QED
        BY <4>1, <4>2
    <3> QED
      BY <3>2, <3>3, <3>4
  <2>9. serial' \in 0 .. MaxId /\ serial <= serial' /\ i <= serial'
    <3>1. serial \in 0 .. MaxId /\ serial <= serial
      BY Types, SerialRange
    <3> QED
      BY <1>2, <1>3, <3>1
  <2>10. new # None
    BY <2>4, ProductsAssumption
  <2> QED
    BY <1>2, <1>4, <2>1, <2>3, <2>4, <2>5, <2>6, <2>7, <2>8, <2>9, <2>10, WriteKeeps
<1>5. CASE ~(products[i] # None /\ Storable(q.put.price))
  <2>1. UNCHANGED <<products, serial, role, offered>> /\ req' = [req EXCEPT ![r] = Failure(q)]
    BY <1>1, <1>3, <1>5 DEF UpdateProduct
  <2>2. req' = [req EXCEPT ![r] = Answer(q, "500")]
    BY <1>2, <2>1 DEF Failure
  <2> QED
    BY <1>2, <2>1, <2>2, AnswerKeeps
<1> QED
  BY <1>4, <1>5

LEMMA DeleteProductKeeps ==
  ASSUME PInv, NEW r \in Req, DeleteProduct(r)
  PROVE  PInv'
<1>1. PICK q \in Request : q = req[r]
  BY Types
<1>2. /\ HandlerOK(q) /\ q.at = "erase" /\ q.op = "delete" /\ q.id \in Id /\ q.id <= serial
      /\ UNCHANGED <<serial, role, offered>>
  <2>1. HandlerOK(q) /\ q.at = "erase" /\ UNCHANGED <<serial, role, offered>>
    BY <1>1 DEF PInv, DeleteProduct
  <2> QED
    BY <2>1 DEF HandlerOK, AskOK, ReachOK
<1>3. /\ products' = [products EXCEPT ![q.id] = None]
      /\ req' = AnswerAndOvertake(r, q.id, "204")
  BY <1>1 DEF DeleteProduct
<1>4. products'[q.id] = None /\ \A j \in Id \ {q.id} : products'[j] = products[j]
  BY <1>2, <1>3, Types
<1>5. /\ req' \in [Req -> Request] /\ BoundOK' /\ \A x \in Req \ {r} : Alike(x)
      /\ req'[r].op = q.op /\ req'[r].at = "reply" /\ req'[r].id = q.id
      /\ req'[r].seen = q.seen /\ req'[r].code = "204"
  BY <1>1, <1>2, <1>3, <1>4, Overtaken
<1>6. HandlerOK(req[r])'
  BY <1>2, <1>4, <1>5 DEF HandlerOK, AskOK, RoleOK, ReachOK, PutOK, CodeOK
<1>7. serial' \in 0 .. MaxId /\ serial <= serial'
  BY <1>2, Types, SerialRange
<1>8. offered' \in [Id -> [title : SUBSET (Title \cup {""}), currency : SUBSET (Currency \cup {""}),
                          price : SUBSET (0 .. MaxPrice)]]
  BY <1>2, Types
<1> QED
  BY <1>2, <1>3, <1>5, <1>6, <1>7, <1>8, WriteKeeps

LEMMA SetRoleKeeps ==
  ASSUME PInv, NEW u \in User, NEW new \in Role, SetRole(u, new)
  PROVE  PInv'
<1>1. /\ req \in [Req -> Request] /\ role \in [User -> Role] /\ role' = [role EXCEPT ![u] = new]
      /\ UNCHANGED <<products, serial, offered>>
  BY Types DEF SetRole
<1>2. ASSUME NEW x \in Req
      PROVE  req'[x] \in Request /\ Alike(x)
  <2>1. req[x] \in Request /\ HandlerOK(req[x])
    BY <1>1 DEF PInv
  <2>2. CASE req[x].usr = u
    <3>1. PICK p : p = [req[x] EXCEPT !.held = @ \cup {new}]
      OBVIOUS
    <3>2. req'[x] = p
      BY <2>2, <3>1 DEF SetRole
    <3>3. /\ p \in Request /\ p.op = req[x].op /\ p.at = req[x].at /\ p.usr = req[x].usr
          /\ p.role = req[x].role /\ p.held = req[x].held \cup {new} /\ p.id = req[x].id
          /\ p.ask = req[x].ask /\ p.put = req[x].put /\ p.code = req[x].code
          /\ p.seen = req[x].seen
      BY <2>1, <3>1 DEF Request
    <3>4. role'[u] = new
      BY <1>1
    <3> QED
      BY <1>1, <2>2, <3>2, <3>3, <3>4 DEF Alike
  <2>3. CASE req[x].usr # u
    <3>1. req'[x] = req[x]
      BY <2>3 DEF SetRole
    <3>2. req[x].at \notin {"idle", "reply"} => role'[req[x].usr] \in req[x].held
      BY <1>1, <2>1, <2>3 DEF HandlerOK, RoleOK, AskOK
    <3> QED
      BY <1>1, <2>1, <3>1, <3>2 DEF Alike
  <2> QED
    BY <2>2, <2>3
<1>3. req' \in [Req -> Request]
  <2>1. \A x \in Req : req'[x] \in Request
    BY <1>2
  <2> QED
    BY <2>1 DEF SetRole
<1>4. Lasts
  <2>1. serial \in Int /\ serial <= serial
    BY Types, SerialRange
  <2> QED
    BY <1>1, <2>1 DEF Lasts
<1>5. \A x \in Req : HandlerOK(req[x])'
  BY <1>2, <1>4, OthersKeep
<1>6. BoundOK'
  BY <1>1, <1>2, BoundKept DEF Alike
<1>7. TypeOK'
  <2>1. role' \in [User -> Role]
    BY <1>1
  <2> QED
    BY <1>1, <1>3, <2>1, Zenon DEF PInv, TypeOK
<1>8. FreshOK' /\ ValuesWereOffered'
  BY <1>1 DEF PInv, FreshOK, ValuesWereOffered
<1> QED
  BY <1>5, <1>6, <1>7, <1>8 DEF PInv
-----------------------------------------------------------------------------
LEMMA StepKeeps ==
  ASSUME PInv, [Next]_vars
  PROVE  PInv'
<1>1. CASE UNCHANGED vars
  <2>1. TypeOK' /\ FreshOK' /\ ValuesWereOffered'
    BY <1>1 DEF vars, PInv, TypeOK, FreshOK, ValuesWereOffered
  <2>2. BoundOK'
    BY <1>1, BoundKept DEF vars
  <2>3. \A r \in Req : HandlerOK(req[r])'
    <3>1. serial \in Int /\ serial <= serial
      BY Types, SerialRange
    <3>2. Lasts
      BY <1>1, <3>1 DEF vars, Lasts
    <3>3. \A r \in Req : Alike(r)
      BY <1>1 DEF vars, PInv, HandlerOK, RoleOK, Alike
    <3> QED
      BY <3>2, <3>3, OthersKeep
  <2> QED
    BY <2>1, <2>2, <2>3 DEF PInv
<1>2. ASSUME NEW r \in Req, NEW u \in User, Call(r, u)
      PROVE  PInv'
  BY <1>2, StartCreateKeeps, StartUpdateKeeps, StartDeleteKeeps DEF Call
<1>3. ASSUME NEW r \in Req, Handle(r) \/ Finish(r)
      PROVE  PInv'
  BY <1>3, AuthenticateKeeps, InsertProductKeeps, ReadProductKeeps, UpdateProductKeeps,
     DeleteProductKeeps, FinishKeeps DEF Handle
<1> QED
  BY <1>1, <1>2, <1>3, SetRoleKeeps DEF Next

(* PInv holds in every reachable state: what each handler holds at an      *)
(* await, and what of it the table still bears out.                        *)
THEOREM Invariance == Spec => []PInv
BY Initially, StepKeeps, PTL DEF Spec

(* The type of every variable: no rounding in NUMERIC(12,2), no overflow   *)
(* and no merge of update_product_service lets a price outside of          *)
(* 0 .. MaxPrice into the table.                                           *)
THEOREM Typed == Spec => []TypeOK
<1>1. PInv => TypeOK
  BY DEF PInv
<1> QED
  BY <1>1, Invariance, PTL

(* However the writes of update_product_db overlap, each column of a       *)
(* product has a value that was asked for this product.                    *)
THEOREM ValuesOffered == Spec => []ValuesWereOffered
<1>1. PInv => ValuesWereOffered
  BY DEF PInv
<1> QED
  BY <1>1, Invariance, PTL

(* When delete_product_service answers 204 for a product that was there,   *)
(* the product is gone, and until the reply is sent it stays gone.         *)
THEOREM DeletedIsGone == Spec => []DeletedMeansGone
<1>1. PInv => DeletedMeansGone
  BY DEF PInv, HandlerOK, CodeOK, DeletedMeansGone
<1> QED
  BY <1>1, Invariance, PTL
-----------------------------------------------------------------------------
(* A row is written by three statements.                                   *)
LEMMA Writers ==
  ASSUME PInv, Next, NEW i \in Id, products'[i] # products[i]
  PROVE  \E r \in Req :
           \/ InsertProduct(r) /\ i = serial + 1
           \/ UpdateProduct(r) /\ req[r].id = i /\ products[i] # None
              /\ products'[i] = Rewritten(products[i], req[r].put)
           \/ DeleteProduct(r) /\ req[r].id = i /\ products[i] # None /\ products'[i] = None
<1>1. products \in [Id -> Row \cup {None}]
  BY Types
<1>2. PICK r \in Req : InsertProduct(r) \/ UpdateProduct(r) \/ DeleteProduct(r)
  BY DEF Next, Call, StartCreate, StartUpdate, StartDelete, Arrive, Handle, Authenticate,
         ReadProduct, Finish, SetRole
<1>3. CASE InsertProduct(r)
  BY <1>1, <1>3 DEF InsertProduct
<1>4. CASE UpdateProduct(r)
  BY <1>1, <1>4 DEF UpdateProduct
<1>5. CASE DeleteProduct(r)
  BY <1>1, <1>5 DEF DeleteProduct
<1> QED
  BY <1>2, <1>3, <1>4, <1>5

(* Who creates, changes or deletes a product had the right to at some      *)
(* moment since the request arrived: _ensure_seller_or_admin and           *)
(* _ensure_owner_or_admin look at a role the user had then, and at a       *)
(* seller_id that no other write can have changed.                         *)
THEOREM RightWasHeld == Spec => RightHeldMeanwhile
<1> DEFINE Rightful ==
      \A i \in Id : products'[i] # products[i] =>
        \E r \in Req :
          \/ /\ req[r].at = "insert" /\ i = serial + 1
             /\ req[r].held \cap {"seller", "admin"} # {}
          \/ /\ req[r].at \in {"write", "erase"} /\ req[r].id = i
             /\ req[r].usr = products[i].seller \/ "admin" \in req[r].held
<1>1. PInv /\ [Next]_vars => [Rightful]_vars
  <2> SUFFICES ASSUME PInv, Next, NEW i \in Id, products'[i] # products[i]
               PROVE  \E r \in Req :
                        \/ /\ req[r].at = "insert" /\ i = serial + 1
                           /\ req[r].held \cap {"seller", "admin"} # {}
                        \/ /\ req[r].at \in {"write", "erase"} /\ req[r].id = i
                           /\ req[r].usr = products[i].seller \/ "admin" \in req[r].held
    OBVIOUS
  <2>1. \A r \in Req : RoleOK(req[r]) /\ ReachOK(req[r])
    BY DEF PInv, HandlerOK
  <2>2. PICK r \in Req :
           \/ InsertProduct(r) /\ i = serial + 1
           \/ (UpdateProduct(r) \/ DeleteProduct(r)) /\ req[r].id = i /\ products[i] # None
    BY Writers
  <2>3. CASE InsertProduct(r) /\ i = serial + 1
    BY <2>1, <2>3 DEF InsertProduct, RoleOK
  <2>4. CASE (UpdateProduct(r) \/ DeleteProduct(r)) /\ req[r].id = i /\ products[i] # None
    <3>1. req[r].at \in {"write", "erase"}
      BY <2>4 DEF UpdateProduct, DeleteProduct
    <3> QED
      BY <2>1, <2>4, <3>1 DEF RoleOK, ReachOK
  <2> QED
    BY <2>2, <2>3, <2>4
<1> QED
  BY <1>1, Invariance, PTL DEF Spec, RightHeldMeanwhile

(* A deleted product never comes back, though handlers that read it before *)
(* still run: UPDATE and DELETE find no row, and the sequence of           *)
(* products.id never hands out an id again.  And seller_id never changes.  *)
THEOREM LivesOnce == Spec => OneLife
<1> DEFINE Once == \A i \in 1 .. serial : products'[i] # None =>
                     products[i] # None /\ products'[i].seller = products[i].seller
<1>1. PInv /\ [Next]_vars => [Once]_vars
  <2> SUFFICES ASSUME PInv, Next, NEW i \in 1 .. serial, products'[i] # None
               PROVE  products[i] # None /\ products'[i].seller = products[i].seller
    OBVIOUS
  <2>1. i \in Id /\ i # serial + 1
    <3>1. serial \in Nat /\ MaxId \in Nat /\ serial <= MaxId
      BY Types
    <3> QED
      BY <3>1 DEF Id
  <2>2. CASE products'[i] = products[i]
    BY <2>2
  <2>3. CASE products'[i] # products[i]
    <3>1. products[i] # None /\ \E r \in Req : products'[i] = Rewritten(products[i], req[r].put)
      BY <2>1, <2>3, Writers
    <3>2. products[i] \in Row
      BY <2>1, <3>1, Types
    <3> QED
      BY <3>1, <3>2 DEF Rewritten, Row
  <2> QED
    BY <2>2, <2>3
<1> QED
  BY <1>1, Invariance, PTL DEF Spec, OneLife

(* Only UpdateProduct answers 200, and what it then has done.              *)
LEMMA Accepted ==
  ASSUME PInv, Next, NEW r \in Req, req[r].at = "write", req'[r].code = "200"
  PROVE  /\ products[req[r].id] # None /\ Storable(req[r].put.price)
         /\ products'[req[r].id] = Rewritten(products[req[r].id], req[r].put)
<1>1. /\ req \in [Req -> Request] /\ products \in [Id -> Row \cup {None}] /\ req[r].code = ""
      /\ req[r].id \in Id
  <2>1. HandlerOK(req[r])
    BY DEF PInv
  <2> QED
    BY <2>1, Types DEF HandlerOK, CodeOK, AskOK
<1>2. ASSUME NEW x \in Req, NEW u \in User, Call(x, u)
      PROVE  FALSE
  <2>1. req[x].at = "idle" /\ \A y \in Req \ {x} : req'[y] = req[y]
    BY <1>1, <1>2 DEF Call, StartCreate, StartUpdate, StartDelete, Arrive
  <2> QED
    BY <1>1, <2>1
<1>3. ASSUME NEW u \in User, NEW new \in Role, SetRole(u, new)
      PROVE  FALSE
  <2>1. req[r] \in Request
    BY <1>1
  <2> QED
    BY <1>1, <1>3, <2>1 DEF SetRole, Request
<1>4. ASSUME NEW x \in Req, x # r, Handle(x) \/ Finish(x)
      PROVE  FALSE
  <2>1. req'[r] = req[r] \/ req'[r] = [req[r] EXCEPT !.seen = "stale"]
    BY <1>1, <1>4 DEF Handle, Finish, Authenticate, InsertProduct, ReadProduct, UpdateProduct,
                      DeleteProduct, AnswerAndOvertake
  <2>2. req[r] \in Request
    BY <1>1
  <2> QED
    BY <1>1, <2>1, <2>2 DEF Request
<1>5. UpdateProduct(r)
  <2>1. Handle(r) \/ Finish(r)
    BY <1>2, <1>3, <1>4 DEF Next
  <2>2. ~Finish(r)
    BY <1>1, IdleFields DEF Finish
  <2> QED
    BY <2>1, <2>2 DEF Handle, Authenticate, InsertProduct, ReadProduct, DeleteProduct
<1>6. products[req[r].id] # None /\ Storable(req[r].put.price)
  <2> SUFFICES ASSUME ~(products[req[r].id] # None /\ Storable(req[r].put.price))
               PROVE  FALSE
    OBVIOUS
  <2>1. req' = [req EXCEPT ![r] = Failure(req[r])]
    BY <1>5 DEF UpdateProduct
  <2>2. req'[r] = Failure(req[r])
    BY <1>1, <2>1
  <2>3. Failure(req[r]).code \in {"400", "500"}
    BY IdleFields DEF Failure, Answer, Request
  <2> QED
    BY <2>2, <2>3
<1> QED
  BY <1>1, <1>5, <1>6 DEF UpdateProduct

(* An update whose product nobody has written since it was read changes    *)
(* exactly the fields of the request: what update_product_service merges   *)
(* in for the others is what is there.                                     *)
THEOREM NothingLost == Spec => NoOverlapNoLoss
<1> DEFINE Kept ==
      \A r \in Req :
        LET q == req[r]
            i == q.id IN
        q.at = "write" /\ req'[r].code = "200" /\ q.seen = "current" =>
          /\ products'[i].title = IF q.ask.title # None THEN q.ask.title ELSE products[i].title
          /\ products'[i].currency = IF q.ask.currency # None THEN q.ask.currency ELSE products[i].currency
          /\ products'[i].price = IF q.ask.price # None THEN Cents(q.ask.price)
                                  ELSE products[i].price
<1>1. PInv /\ [Next]_vars => [Kept]_vars
  <2> SUFFICES ASSUME PInv, Next, NEW r \in Req, NEW q, q = req[r], q.at = "write",
                      req'[r].code = "200", q.seen = "current"
               PROVE  /\ products'[q.id].title = IF q.ask.title # None THEN q.ask.title
                                                 ELSE products[q.id].title
                      /\ products'[q.id].currency = IF q.ask.currency # None THEN q.ask.currency
                                                ELSE products[q.id].currency
                      /\ products'[q.id].price = IF q.ask.price # None THEN Cents(q.ask.price)
                                                 ELSE products[q.id].price
    OBVIOUS
  <2>1. q \in Request /\ HandlerOK(q) /\ q.code = ""
    <3>1. q \in Request /\ HandlerOK(q)
      BY Types DEF PInv
    <3> QED
      BY <3>1 DEF HandlerOK, CodeOK
  <2>2. Storable(q.put.price) /\ products'[q.id] = Rewritten(products[q.id], q.put)
    BY Accepted
  <2>3. /\ q.id \in Id /\ products[q.id] \in Row /\ q.put = Merged(q.ask, products[q.id])
        /\ products[q.id] # None /\ q.ask \in Columns
    BY <2>1, Types DEF HandlerOK, AskOK, PutOK, Request
  <2>4. PICK row \in Row : row = products[q.id]
    BY <2>3
  <2>5. /\ q.put.title = IF q.ask.title # None THEN q.ask.title ELSE row.title
        /\ q.put.currency = IF q.ask.currency # None THEN q.ask.currency ELSE row.currency
        /\ q.put.price = IF q.ask.price # None THEN q.ask.price ELSE 10 * row.price
        /\ q.put \in Columns
        /\ q.put.title # None /\ q.put.currency # None /\ q.put.price # None
    BY <2>3, <2>4, MergedColumns
  <2>6. PICK new : new = Rewritten(row, q.put)
    OBVIOUS
  <2>7. new.title = q.put.title /\ new.currency = q.put.currency /\ new.price = Cents(q.put.price)
    BY <2>2, <2>5, <2>6, RewrittenFields
  <2>8. Cents(10 * row.price) = row.price
    BY CentsOfRow
  <2> QED
    BY <2>2, <2>4, <2>5, <2>6, <2>7, <2>8
<1> QED
  BY <1>1, Invariance, PTL DEF Spec, NoOverlapNoLoss
=============================================================================
