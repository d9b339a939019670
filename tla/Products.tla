------------------------------ MODULE Products ------------------------------
(***************************************************************************)
(* The product catalogue of oob: the table `products' and the handlers     *)
(* that create, change and delete a product on behalf of a user.           *)
(*                                                                         *)
(* A change reads the product, merges the request into what it read and    *)
(* writes every column back in a second statement; a right is looked up    *)
(* once, at the beginning.  Meanwhile other handlers write, and the        *)
(* operator may give the user another role (module Accounts).              *)
(***************************************************************************)
EXTENDS Integers, FiniteSets

CONSTANTS
  User,      \* ids of users
  Role,      \* roles they may have
  Title,     \* titles that are not empty
  Currency,  \* currencies that are not empty
  Usd,       \* 'USD', which stands in for a currency that is left out
  Ask,       \* what clients send for the columns, prices in thousandths
  MaxPrice,  \* what NUMERIC(12,2) can hold, in hundredths
  MaxId,     \* bound on the ids the sequence of products.id hands out
  Req,       \* slots for requests being served at the same time
  None       \* SQL NULL, a missing row, a field the request leaves out

(* description and image_url are passed on and merged as the title is, and *)
(* left out.  Only an update leaves a currency empty.                      *)
Row == [seller : User, title : Title \cup {""}, currency : Currency \cup {""},
        price : 0 .. MaxPrice]

(* The columns a request asks for, or a handler is about to write.         *)
Columns == [title : Title \cup {"", None}, currency : Currency \cup {"", None},
            price : Int \cup {None}]

ASSUME ProductsAssumption ==
  /\ MaxPrice \in Nat /\ MaxId \in Nat
  /\ \A a \in Ask : a \in Columns /\ (a.price # None => a.price % 10 # 5)
  /\ None \notin User \cup Title \cup Currency \cup Int \cup {""} \cup Row
  /\ IsFiniteSet(Req)
  /\ "" \notin Title \cup Currency
  /\ Role \subseteq {"buyer", "seller", "admin"}
  /\ Usd \in Currency

VARIABLES
  products,  \* the table: products[i] is the row with id i, or None
  serial,    \* the last id the sequence has handed out
  role,      \* role[u]: column role of user u
  req,       \* req[r] is the request in slot r and what its handler holds
  offered    \* history: what accepted requests asked to be stored for i,
             \* with the defaults for what its creation left out

vars == <<products, serial, role, req, offered>>
-----------------------------------------------------------------------------
Id == 1 .. MaxId

Request == [op : {"none", "create", "create-ui", "update", "delete"},
            at : {"idle", "auth", "insert", "read", "write", "erase", "reply"},
            usr : User \cup {None},
            role : Role \cup {None},     \* the role read with the user row
            held : SUBSET Role,          \* history: roles usr had meanwhile
            id : Id \cup {None},
            ask : Columns,               \* the request's fields
            put : Columns,               \* the columns to be written
            seen : {"nothing", "current", "stale"},  \* history: the row it read
            code : {"", "201", "200", "204", "303", "400", "403", "404", "500"}]

NoColumns == [title |-> None, currency |-> None, price |-> None]

Idle == [op |-> "none", at |-> "idle", usr |-> None, role |-> None, held |-> {}, id |-> None,
         ask |-> NoColumns, put |-> NoColumns, seen |-> "nothing",
         code |-> ""]

Init ==
  /\ products = [i \in Id |-> None]
  /\ serial = 0
  /\ role \in [User -> Role]
  /\ req = [r \in Req |-> Idle]
  /\ offered = [i \in Id |-> [title |-> {}, currency |-> {}, price |-> {}]]
-----------------------------------------------------------------------------
(* NUMERIC(12,2): a price in thousandths, rounded to hundredths.           *)
Cents(p) == IF p >= 0 THEN (p + 5) \div 10 ELSE -((5 - p) \div 10)

(* A slip: the column has no CHECK (price >= 0).                           *)
FitsColumn(p) == Cents(p) <= MaxPrice

(* CHECK (price >= 0) and the precision, both applied after rounding.      *)
Storable(p) == Cents(p) \in 0 .. MaxPrice

Answer(q, code) ==
  [Idle EXCEPT !.op = q.op, !.at = "reply", !.id = q.id, !.seen = q.seen, !.code = code]

(* A price the table refuses is an exception: the HTML form shows it, the  *)
(* JSON routes do not catch it.                                            *)
Failure(q) == Answer(q, IF q.op = "create-ui" THEN "400" ELSE "500")

Arrive(r, fields) ==
  /\ req[r].at = "idle"
  /\ req' = [req EXCEPT ![r] = [fields EXCEPT !.at = "auth", !.held = {role[fields.usr]}]]
  /\ UNCHANGED <<products, serial, role, offered>>

(* The bound MaxId is enforced where a request starts.                     *)
MayCreate ==
  serial + Cardinality({r \in Req : req[r].op \in {"create", "create-ui"}
                                      /\ req[r].at \in {"auth", "insert"}}) < MaxId

(* POST /api/products and POST /products/new: a title is always there, but *)
(* may be empty; the price may be missing, or no number, in the form only. *)
StartCreate(r, u, op, ask) ==
  /\ MayCreate
  /\ ask.title # None /\ (ask.price = None => op = "create-ui")
  /\ Arrive(r, [Idle EXCEPT !.op = op, !.usr = u, !.ask = ask])

(* PUT /api/products/{i} with any fields, none included.                   *)
StartUpdate(r, u, i, ask) ==
  Arrive(r, [Idle EXCEPT !.op = "update", !.usr = u, !.id = i, !.ask = ask])

(* DELETE /api/products/{i} and POST /products/{i}/delete.                 *)
StartDelete(r, u, i) == Arrive(r, [Idle EXCEPT !.op = "delete", !.usr = u, !.id = i])
-----------------------------------------------------------------------------
(* _ensure_seller_or_admin.                                                *)
SellerOrAdmin(q) == q.role \in {"seller", "admin"}

(* A slip: any seller may change what an administrator may.                *)
OwnerOrSeller(q, row) == SellerOrAdmin(q) \/ q.usr = row.seller

(* _ensure_owner_or_admin.                                                 *)
OwnerOrAdmin(q, row) == q.role = "admin" \/ q.usr = row.seller

(* What is created of a request: 0.0 stands in for a price the form left   *)
(* out, 'USD' for a currency that is left out or empty.                    *)
Filled(ask) ==
  [title |-> ask.title,
   currency |-> IF ask.currency \in {None, ""} THEN Usd ELSE ask.currency,
   price |-> IF ask.price = None THEN 0 ELSE ask.price]

(* get_current_user or the UI guard reads the user row, and with it the    *)
(* role all later checks use; create_product_service checks right away.    *)
Authenticate(r) ==
  LET q == [req[r] EXCEPT !.role = role[req[r].usr]] IN
  /\ req[r].at = "auth"
  /\ req' = [req EXCEPT ![r] =
       IF q.op \in {"update", "delete"} THEN [q EXCEPT !.at = "read"]
       ELSE IF ~SellerOrAdmin(q) THEN Answer(q, "403")
       ELSE IF q.ask.title = "" THEN Answer(q, "400")
       ELSE [q EXCEPT !.at = "insert", !.put = Filled(q.ask)]]
  /\ UNCHANGED <<products, serial, role, offered>>

NewRow(q) == [seller |-> q.usr, title |-> q.put.title, currency |-> q.put.currency,
              price |-> Cents(q.put.price)]

(* History: a request that asks for these columns is accepted for i.       *)
Offer(i, ask) ==
  [offered EXCEPT ![i] =
     [title |-> @.title \cup ({ask.title} \ {None}),
      currency |-> @.currency \cup ({ask.currency} \ {None}),
      price |-> @.price \cup {Cents(p) : p \in {ask.price} \ {None}}]]

(* create_product_db: the INSERT uses up an id even if it fails.           *)
InsertProduct(r) ==
  LET q == req[r]
      i == serial + 1 IN
  /\ q.at = "insert"
  /\ serial' = i
  /\ IF Storable(q.put.price)
       THEN /\ products' = [products EXCEPT ![i] = NewRow(q)]
            /\ offered' = Offer(i, Filled(q.ask))
            /\ req' = [req EXCEPT ![r] =
                         Answer([q EXCEPT !.id = i], IF q.op = "create" THEN "201" ELSE "303")]
       ELSE /\ req' = [req EXCEPT ![r] = Failure(q)]
            /\ UNCHANGED <<products, offered>>
  /\ UNCHANGED role

(* Slips: a field that is falsy counts as left out; a price left out is 0. *)
MergedIfTrue(ask, row) ==
  [title |-> IF ask.title \in {None, ""} THEN row.title ELSE ask.title,
   currency |-> IF ask.currency \in {None, ""} THEN row.currency ELSE ask.currency,
   price |-> IF ask.price = None THEN 10 * row.price ELSE ask.price]
MergedFree(ask, row) ==
  [title |-> IF ask.title = None THEN row.title ELSE ask.title,
   currency |-> IF ask.currency = None THEN row.currency ELSE ask.currency,
   price |-> IF ask.price = None THEN 0 ELSE ask.price]

(* update_product_service: the fields of the request where there are any,  *)
(* else the columns that were read.                                        *)
Merged(ask, row) ==
  [title |-> IF ask.title = None THEN row.title ELSE ask.title,
   currency |-> IF ask.currency = None THEN row.currency ELSE ask.currency,
   price |-> IF ask.price = None THEN 10 * row.price ELSE ask.price]

(* get_product_db and the checks of update_product_service and             *)
(* delete_product_service.                                                 *)
ReadProduct(r) ==
  LET row == products[req[r].id]
      q == [req[r] EXCEPT !.seen = IF row = None THEN @ ELSE "current"] IN
  /\ req[r].at = "read"
  /\ req' = [req EXCEPT ![r] =
       IF row = None THEN Answer(q, IF q.op = "update" THEN "404" ELSE "204")
       ELSE IF ~OwnerOrAdmin(q, row) THEN Answer(q, "403")
       ELSE IF q.op = "delete" THEN [q EXCEPT !.at = "erase"]
       ELSE [q EXCEPT !.at = "write", !.put = Merged(q.ask, row)]]
  /\ UNCHANGED <<products, serial, role, offered>>

(* r answers and has written product i: what others read of it is stale.   *)
AnswerAndOvertake(r, i, code) ==
  [x \in Req |-> IF x = r THEN Answer(req[r], code)
                 ELSE IF req[x].at = "write" /\ req[x].id = i
                   THEN [req[x] EXCEPT !.seen = "stale"]
                 ELSE req[x]]

Rewritten(row, c) ==
  [row EXCEPT !.title = c.title, !.currency = c.currency, !.price = Cents(c.price)]

(* A slip: INSERT ... ON CONFLICT (id) DO UPDATE.                          *)
UpsertProduct(r) ==
  LET q == req[r]
      row == products[q.id] IN
  /\ q.at = "write"
  /\ products' = [products EXCEPT ![q.id] = IF row = None THEN NewRow(q) ELSE Rewritten(row, q.put)]
  /\ offered' = Offer(q.id, q.ask)
  /\ req' = AnswerAndOvertake(r, q.id, "200")
  /\ UNCHANGED <<serial, role>>

(* update_product_db: all columns are written, whatever the row is by now; *)
(* if it is gone, None does not fit the response model.                    *)
UpdateProduct(r) ==
  LET q == req[r]
      row == products[q.id] IN
  /\ q.at = "write"
  /\ IF row # None /\ Storable(q.put.price)
       THEN /\ products' = [products EXCEPT ![q.id] = Rewritten(row, q.put)]
            /\ offered' = Offer(q.id, q.ask)
            /\ req' = AnswerAndOvertake(r, q.id, "200")
       ELSE /\ req' = [req EXCEPT ![r] = Failure(q)]
            /\ UNCHANGED <<products, offered>>
  /\ UNCHANGED <<serial, role>>

(* A slip: DELETE ... WHERE id AND seller_id is the user.                  *)
DeleteOwnProduct(r) ==
  LET q == req[r] IN
  /\ q.at = "erase"
  /\ products' = [products EXCEPT ![q.id] = IF @ # None /\ @.seller = q.usr THEN None ELSE @]
  /\ req' = AnswerAndOvertake(r, q.id, "204")
  /\ UNCHANGED <<serial, role, offered>>

(* delete_product_db.                                                      *)
DeleteProduct(r) ==
  LET q == req[r] IN
  /\ q.at = "erase"
  /\ products' = [products EXCEPT ![q.id] = None]
  /\ req' = AnswerAndOvertake(r, q.id, "204")
  /\ UNCHANGED <<serial, role, offered>>

(* The reply is sent; or the worker dies or a statement fails.             *)
Finish(r) ==
  /\ req[r].at # "idle"
  /\ req' = [req EXCEPT ![r] = Idle]
  /\ UNCHANGED <<products, serial, role, offered>>

(* create_admin gives user u another role.                                 *)
SetRole(u, new) ==
  /\ role[u] # new
  /\ role' = [role EXCEPT ![u] = new]
  /\ req' = [r \in Req |-> IF req[r].usr = u THEN [req[r] EXCEPT !.held = @ \cup {new}]
                           ELSE req[r]]
  /\ UNCHANGED <<products, serial, offered>>
-----------------------------------------------------------------------------
Call(r, u) ==
  \/ \E op \in {"create", "create-ui"}, ask \in Ask : StartCreate(r, u, op, ask)
  \/ \E i \in Id, ask \in Ask : StartUpdate(r, u, i, ask)
  \/ \E i \in Id : StartDelete(r, u, i)

Handle(r) ==
  \/ Authenticate(r) \/ InsertProduct(r)
  \/ ReadProduct(r) \/ UpdateProduct(r) \/ DeleteProduct(r)

Next ==
  \/ \E r \in Req, u \in User : Call(r, u)
  \/ \E r \in Req : Handle(r) \/ Finish(r)
  \/ \E u \in User, new \in Role : SetRole(u, new)

Spec == Init /\ [][Next]_vars
-----------------------------------------------------------------------------
(***************************************************************************)
(* Properties                                                              *)
(***************************************************************************)

(* The type of every variable: in particular no rounding, overflow or      *)
(* merge lets a price outside 0 .. MaxPrice into the table.                *)
TypeOK ==
  /\ products \in [Id -> Row \cup {None}]
  /\ serial \in 0 .. MaxId
  /\ role \in [User -> Role]
  /\ req \in [Req -> Request]
  /\ offered \in [Id -> [title : SUBSET (Title \cup {""}),
                         currency : SUBSET (Currency \cup {""}),
                         price : SUBSET (0 .. MaxPrice)]]

(* A product changes only by the hand of somebody who, at some moment      *)
(* since the request arrived, had the right to: to create, a seller or     *)
(* admin; to change or delete, its owner (at the time of the write, not of *)
(* the read) or an admin.  A role lost before that gives no right.         *)
RightHeldMeanwhile ==
  [][\A i \in Id : products'[i] # products[i] =>
       \E r \in Req :
         \/ /\ req[r].at = "insert" /\ i = serial + 1
            /\ req[r].held \cap {"seller", "admin"} # {}
         \/ /\ req[r].at \in {"write", "erase"} /\ req[r].id = i
            /\ req[r].usr = products[i].seller \/ "admin" \in req[r].held]_vars

(* One life: a product that has been deleted never comes back, though      *)
(* handlers that read it before still run, and it never changes its owner. *)
OneLife ==
  [][\A i \in 1 .. serial : products'[i] # None =>
       products[i] # None /\ products'[i].seller = products[i].seller]_vars

(* However the writes of several handlers overlap, each column of a        *)
(* product has a value that some accepted request asked for this product,  *)
(* or, if the request that created it left the column out, the default:    *)
(* the price 0.0 of the form or 'USD'.  Nothing is invented for the fields *)
(* an update leaves out, and a price that is read, merged and written back *)
(* does not drift.                                                         *)
ValuesWereOffered ==
  \A i \in Id : products[i] # None =>
    /\ products[i].title \in offered[i].title
    /\ products[i].currency \in offered[i].currency
    /\ products[i].price \in offered[i].price

(* An update is lost, or undoes another, only if they overlap: when nobody *)
(* has written the product since the handler read it, exactly the fields   *)
(* of the request change.                                                  *)
NoOverlapNoLoss ==
  [][\A r \in Req :
       LET q == req[r]
           i == q.id IN
       q.at = "write" /\ req'[r].code = "200" /\ q.seen = "current" =>
         /\ products'[i].title = IF q.ask.title # None THEN q.ask.title ELSE products[i].title
         /\ products'[i].currency = IF q.ask.currency # None THEN q.ask.currency
                                    ELSE products[i].currency
         /\ products'[i].price = IF q.ask.price # None THEN Cents(q.ask.price)
                                 ELSE products[i].price]_vars

(* 204 is true: when the deletion of a product that exists, or existed, is *)
(* answered, by whoever and after whatever race, the product is gone.      *)
DeletedMeansGone ==
  \A r \in Req : req[r].op = "delete" /\ req[r].code = "204" /\ req[r].seen # "nothing"
    => products[req[r].id] = None
=============================================================================
