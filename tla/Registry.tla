------------------------------- MODULE Registry -------------------------------
(***************************************************************************)
(* What the users table promises to whoever registers, signs in or runs    *)
(* create_admin, without ids, spellings, hashes or the statements in       *)
(* between: each call is answered by what the registry holds at one moment *)
(* and, if it changes an account, does so at that moment; an account that  *)
(* exists is changed by the operator only.                                 *)
(***************************************************************************)
CONSTANTS
  Address,    \* email addresses in the form they are stored
  Caller,     \* who may be waiting for an answer
  Operator,   \* the caller that is create_admin
  Password,
  Role,
  None,       \* no password was given, or none is stored
  Empty       \* an account made by a provider login has this one

VARIABLES
  registered,  \* the addresses with an account
  pwd,         \* pwd[a]: the password of that account
  role,        \* role[a]: its role
  answer       \* answer[c]: what c was told, until c has gone

vars == <<registered, pwd, role, answer>>

Nothing == [said |-> "", of |-> None, by |-> None]

Init ==
  /\ registered = {}
  /\ pwd = [a \in Address |-> None]
  /\ role = [a \in Address |-> None]
  /\ answer = [c \in Caller |-> Nothing]

Tell(c, said, a, p) ==
  /\ answer[c] = Nothing
  /\ answer'[c] = [said |-> said, of |-> a, by |-> p]
  /\ answer' = [answer EXCEPT ![c] = answer'[c]]

(* Somebody opens an account; a provider login may still have its profile  *)
(* to store and create_admin its role, and is answered later.              *)
Enrol(c, a, p) ==
  /\ a \notin registered
  /\ registered' = registered \cup {a}
  /\ pwd' = [pwd EXCEPT ![a] = p]
  /\ role' = [role EXCEPT ![a] = "buyer"]
  /\ Tell(c, "yes", a, p) \/ UNCHANGED answer

(* A provider vouches for the address, or the password is the one stored.  *)
Admit(c, a, p) ==
  /\ a \in registered
  /\ p = Empty \/ p = pwd[a]
  /\ Tell(c, "yes", a, p)
  /\ UNCHANGED <<registered, pwd, role>>

(* The password is not the one stored, or there is no such account.        *)
Deny(c, a, p) ==
  /\ a \in registered => p # pwd[a]
  /\ Tell(c, "denied", a, p)
  /\ UNCHANGED <<registered, pwd, role>>

(* Somebody else has the address.                                          *)
TurnAway(c, a, p) ==
  /\ a \in registered
  /\ Tell(c, "taken", a, p)
  /\ UNCHANGED <<registered, pwd, role>>

(* The operator gives an account a role and, if one is given, a password.  *)
Grant(a, p, R) ==
  /\ a \in registered
  /\ pwd' = [pwd EXCEPT ![a] = IF p = None THEN @ ELSE p]
  /\ role' = [role EXCEPT ![a] = R]
  /\ Tell(Operator, "yes", a, p)
  /\ UNCHANGED registered

Leave(c) ==
  /\ answer[c] # Nothing
  /\ answer' = [answer EXCEPT ![c] = Nothing]
  /\ UNCHANGED <<registered, pwd, role>>

Next ==
  \/ \E c \in Caller, a \in Address, p \in Password \cup {None, Empty} :
       Enrol(c, a, p) \/ TurnAway(c, a, p)
  \/ \E c \in Caller, a \in Address, p \in Password \cup {Empty} : Admit(c, a, p)
  \/ \E c \in Caller, a \in Address, p \in Password : Deny(c, a, p)
  \/ \E a \in Address, p \in Password \cup {None}, R \in Role : Grant(a, p, R)
  \/ \E c \in Caller : Leave(c)

Spec == Init /\ [][Next]_vars
=============================================================================
