-------------------------- MODULE AccountsRefinement --------------------------
(***************************************************************************)
(* Accounts implements Registry: an address is registered when some row    *)
(* has it, and a handler has answered when it has reached its reply.       *)
(***************************************************************************)
EXTENDS Accounts

(* The forms in which an address is stored.                                *)
Address == {Lower[e] : e \in Spelling} \cup Pseudo

registeredBar == {a \in Address : WithEmail(a) # {}}

RowOf(a) == users[CHOOSE i \in WithEmail(a) : TRUE]

pwdBar == [a \in Address |-> IF WithEmail(a) = {} THEN None ELSE RowOf(a).pwd]

roleBar == [a \in Address |-> IF WithEmail(a) = {} THEN None ELSE RowOf(a).role]

(* 201, 200, the redirect of a provider login and exit code 0 say yes; 401 *)
(* is what a wrong password gets, but also a provider login that lost the  *)
(* address between its SELECT and its INSERT.                              *)
Said(q) == IF q.code \in {"201", "200", "303", "exit 0"} THEN "yes"
           ELSE IF q.code = "401" /\ q.op = "login" THEN "denied"
           ELSE "taken"

answerBar == [r \in Slot |->
  IF req[r].at = "reply" THEN [said |-> Said(req[r]), of |-> req[r].email, by |-> req[r].pwd]
  ELSE [said |-> "", of |-> None, by |-> None]]

Contract == INSTANCE Registry
  WITH Caller <- Slot, registered <- registeredBar, pwd <- pwdBar, role <- roleBar,
       answer <- answerBar

(* Although every handler reads the table in one statement and writes in   *)
(* another, each behaves as if it did all at once: whoever is told yes has *)
(* the account with the password given, whoever is told that the address   *)
(* is taken met an account that was there, and a row never changes hands.  *)
ImplementsRegistry == Contract!Init /\ [][Contract!Next]_(Contract!vars)
=============================================================================
