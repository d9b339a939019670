----------------------------- MODULE MCProducts -----------------------------
(* Products on a small instance: interchangeable users and request slots.  *)
(* Prices are in thousandths, the table holds hundredths up to MaxPrice.   *)
EXTENDS Products, TLC

CONSTANTS t1, USD, EUR

(* Any fields; a currency may be empty, and prices are below zero, below   *)
(* zero but rounded to it, the largest that fits after rounding, and the   *)
(* smallest that does not.                                                 *)
EdgeAsks == [title : {t1, "", None}, currency : {EUR, "", None}, price : {-6, -4, 24, 26, None}]

(* For the run about rights: what creates a product or changes all of it,  *)
(* what changes one column, and what has an empty title.                   *)
PlainAsks == {[title |-> t1, currency |-> EUR, price |-> 10],
              [title |-> None, currency |-> "", price |-> None],
              [title |-> "", currency |-> None, price |-> 10]}

Symmetry == Permutations(User) \cup Permutations(Req)
=============================================================================
