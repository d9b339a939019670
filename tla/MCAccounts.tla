----------------------------- MODULE MCAccounts -----------------------------
(* Accounts on a small instance: one address in up to three spellings, of  *)
(* which ALICE is also what Twitter makes of it with a configured domain   *)
(* in upper case, and one or two ways to run create_admin.                 *)
EXTENDS AccountsRefinement, TLC

CONSTANTS i1, i2, alice, Alice, ALICE, p1, p2, n1

MCLower == [e \in Spelling |-> alice]

MCAdminRun == {[email |-> ALICE, name |-> n1, pwd |-> p2, role |-> "admin"],
               [email |-> alice, name |-> n1, pwd |-> None, role |-> "seller"]}

MCOneRun == {[email |-> ALICE, name |-> n1, pwd |-> p2, role |-> "admin"]}

Symmetry == Permutations(Id) \cup Permutations(Req)
=============================================================================
